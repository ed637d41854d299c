----------------------------- MODULE Subscriptions -----------------------------
(***************************************************************************)
(* A user's Subscription row and the subscriptions Stripe keeps for the    *)
(* same customer: services/stripe.ts, routes/stripe-webhook.ts and         *)
(* routes/billing.ts.  Stripe is external.  Each of its changes emits an   *)
(* event, delivered again until it is answered 200, in any order, and once *)
(* more when the answer is lost.  The handler of an event is a chain of    *)
(* awaits, one step each.                                                  *)
(*                                                                         *)
(* Left out: the period's end and cancelAtPeriodEnd, which the server only *)
(* displays.                                                               *)
(***************************************************************************)
EXTENDS Naturals, FiniteSets, HttpRequests

CONSTANTS
  Users,
  Subs,         (* identities of Stripe's subscriptions                     *)
  Hooks,        (* webhook requests that can be in progress at once         *)
  MaxStimuli,   (* bound on Stripe's changes and the callers' requests      *)
  MaxLostAcks   (* bound on answers to webhooks that are lost               *)

Tiers    == {"FREE", "PRO", "ENTERPRISE"}
Prices   == {"price_pro", "price_enterprise", "price_unknown"}
Statuses == {"INCOMPLETE", "ACTIVE", "PAST_DUE", "CANCELED"}

ASSUME SubscriptionsAssumption ==
  /\ None \notin Users \cup Subs
  /\ None \notin [user : Users, price : Prices,
                   status : {"active", "past_due", "canceled", "paused"}]
  /\ IsFiniteSet(Users) /\ IsFiniteSet(Subs) /\ IsFiniteSet(Hooks)
  /\ {MaxStimuli, MaxLostAcks} \subseteq Nat

VARIABLES
  row,       (* the Subscription row of each user                           *)
  sessions,  (* checkout sessions not yet paid: [user, price]               *)
  stripe,    (* Stripe's subscriptions: None or [user, status, price]       *)
  events,    (* events not yet answered 200, each with its number           *)
  hook,      (* the webhook requests in progress                            *)
  stimuli, lostAcks,
  had,       (* history: the states each of Stripe's subscriptions has had  *)
  disorder   (* history: subscriptions of which an event was handled before *)
             (* an older one was answered, or beside another one            *)

billing == <<row, sessions, stripe, events, hook, lostAcks, had, disorder>>

Unbilled == [at |-> "idle", ev |-> None, seen |-> None]

(* The row ensureFreeSubscription creates: its customer is Stripe's, or    *)
(* free_<id> when Stripe could not be reached.                             *)
FreeRow(c) == [customer |-> c, sub |-> None, status |-> "ACTIVE", tier |-> "FREE"]

(* Users who have just registered.                                         *)
BillingInit ==
  /\ \E known \in SUBSET Users :
       row = [u \in Users |-> FreeRow(IF u \in known THEN "stripe" ELSE "free")]
  /\ sessions = {}
  /\ stripe = [b \in Subs |-> None]
  /\ events = {}
  /\ hook = [h \in Hooks |-> Unbilled]
  /\ stimuli = 0
  /\ lostAcks = 0
  /\ had = [b \in Subs |-> {}]
  /\ disorder = {}

Stimulus == stimuli < MaxStimuli /\ stimuli' = stimuli + 1

-------------------------------------------------------------------------------
(* getTierFromPriceId: an unknown price is never a paid tier.              *)
TierOf(price) ==
  CASE price = "price_pro" -> "PRO"
    [] price = "price_enterprise" -> "ENTERPRISE"
    [] OTHER -> "FREE"

(* statusMap; a status Stripe has added since becomes INCOMPLETE.          *)
StatusOf(s) ==
  CASE s = "active" -> "ACTIVE"
    [] s = "past_due" -> "PAST_DUE"
    [] s = "canceled" -> "CANCELED"
    [] OTHER -> "INCOMPLETE"

(* The update of the upsert; its create branch is dead, because the user   *)
(* was found by the row.                                                   *)
Synced(r, b, s) ==
  [r EXCEPT !.sub = b, !.status = StatusOf(s.status), !.tier = TierOf(s.price)]

-------------------------------------------------------------------------------
(* POST /create-checkout: Stripe refuses a session for a customer it does  *)
(* not know, and the caller gets 500.                                      *)
CreateCheckout(u) ==
  /\ Stimulus
  /\ \E price \in {"price_pro", "price_enterprise"} :
       sessions' = IF row[u].customer = "stripe"
                     THEN sessions \cup {[user |-> u, price |-> price]} ELSE sessions
  /\ UNCHANGED <<row, stripe, events, hook, lostAcks, had, disorder>>

(* External: a change of Stripe's subscription b to s, and its events.     *)
StripeHas(b, s, types) ==
  /\ stripe' = [stripe EXCEPT ![b] = s]
  /\ had' = [had EXCEPT ![b] = @ \cup {s}]
  /\ events' = events \cup
       {[no |-> stimuli', type |-> t, sub |-> b, snapshot |-> s] : t \in types}
  /\ UNCHANGED <<row, hook, lostAcks, disorder>>

(* External: the session is paid.  An open session can be paid although    *)
(* the customer has a subscription already.                                *)
StripeSubscribes ==
  /\ UNCHANGED stimuli
  /\ \E x \in sessions, b \in Subs :
       /\ stripe[b] = None
       /\ sessions' = sessions \ {x}
       /\ StripeHas(b, [user |-> x.user, status |-> "active", price |-> x.price], {"sync"})

(* External: the portal, the dashboard or a renewal changes subscription b.*)
StripeChanges ==
  /\ Stimulus
  /\ \E b \in Subs :
       /\ stripe[b] # None /\ stripe[b].status # "canceled"
       /\ \/ \E p \in Prices \ {stripe[b].price} :
               StripeHas(b, [stripe[b] EXCEPT !.price = p], {"sync"})
          \/ StripeHas(b, [stripe[b] EXCEPT !.status = "paused"], {"sync"})
          \/ StripeHas(b, [stripe[b] EXCEPT !.status = "active"], {"sync", "paid"})
          \/ StripeHas(b, [stripe[b] EXCEPT !.status = "past_due"], {"sync", "unpaid"})
          \/ StripeHas(b, [stripe[b] EXCEPT !.status = "canceled"], {"deleted"})
  /\ UNCHANGED sessions

-------------------------------------------------------------------------------
HookDone(h) == hook' = [hook EXCEPT ![h] = Unbilled]

(* 200, unless the answer is lost on its way.                              *)
Acked(h) ==
  /\ HookDone(h)
  /\ \/ events' = events \ {hook[h].ev} /\ UNCHANGED lostAcks
     \/ lostAcks < MaxLostAcks /\ lostAcks' = lostAcks + 1 /\ UNCHANGED events

(* 400: the handler threw and Stripe will deliver the event again.         *)
Refused(h) == HookDone(h) /\ UNCHANGED <<events, lostAcks>>

Outside == UNCHANGED <<sessions, stripe, stimuli, had>>

(* External: Stripe delivers an event, also while an earlier delivery of   *)
(* it is still being handled.                                              *)
Deliver(h) ==
  /\ hook[h].at = "idle"
  /\ \E e \in events :
       /\ hook' = [hook EXCEPT ![h] = [at |-> e.type, ev |-> e, seen |-> e.snapshot]]
       /\ disorder' =
            IF \/ \E f \in events : f.sub = e.sub /\ f.no < e.no
               \/ \E g \in Hooks : hook[g].at # "idle" /\ hook[g].ev.sub = e.sub
              THEN disorder \cup {e.sub} ELSE disorder
  /\ Outside /\ UNCHANGED <<row, events, lostAcks>>

(* customer.subscription.created, updated and resumed: the snapshot of the *)
(* event is stored.  The user is looked up in a step before, but by the    *)
(* customer, which never changes.                                          *)
HookSync(h) ==
  /\ hook[h].at = "sync"
  /\ LET u == hook[h].seen.user
     IN row' = [row EXCEPT ![u] = Synced(@, hook[h].ev.sub, hook[h].seen)]
  /\ Acked(h)
  /\ Outside /\ UNCHANGED disorder

(* The update where stripeSubscriptionId = b throws when no row has it.    *)
SetStatus(h, status) ==
  LET owners == {u \in Users : row[u].sub = hook[h].ev.sub}
  IN IF owners = {}
       THEN Refused(h) /\ UNCHANGED row
       ELSE /\ row' = [u \in Users |-> IF u \in owners
                         THEN [row[u] EXCEPT !.status = status] ELSE row[u]]
            /\ Acked(h)

(* customer.subscription.deleted and invoice.payment_failed.               *)
HookDeleted_Ignored(h) ==
  /\ hook[h].at = "deleted" /\ Acked(h)
  /\ Outside /\ UNCHANGED <<row, disorder>>

HookDeleted(h) ==
  /\ hook[h].at = "deleted" /\ SetStatus(h, "CANCELED")
  /\ Outside /\ UNCHANGED disorder

HookUnpaid(h) ==
  /\ hook[h].at = "unpaid" /\ SetStatus(h, "PAST_DUE")
  /\ Outside /\ UNCHANGED disorder

(* invoice.payment_succeeded: the subscription is fetched as it is now and *)
(* stored as the other events' snapshots are.                              *)
HookPaid(h) ==
  /\ hook[h].at = "paid"
  /\ hook' = [hook EXCEPT ![h].at = "sync", ![h].seen = stripe[hook[h].ev.sub]]
  /\ Outside /\ UNCHANGED <<row, events, lostAcks, disorder>>

(* An await of the handler rejects: the database or Stripe is not there.   *)
HookRejects(h) ==
  /\ hook[h].at # "idle"
  /\ Refused(h)
  /\ Outside /\ UNCHANGED <<row, disorder>>

Hooked(h) ==
  HookSync(h) \/ HookDeleted(h) \/ HookUnpaid(h) \/ HookPaid(h)

BillingNext ==
  \/ \E u \in Users : CreateCheckout(u)
  \/ StripeSubscribes \/ StripeChanges
  \/ \E h \in Hooks : Deliver(h) \/ Hooked(h) \/ HookRejects(h)

-------------------------------------------------------------------------------
StripeState ==
  [user : Users, status : {"active", "past_due", "canceled", "paused"}, price : Prices]
Event == [no : Nat, type : {"sync", "paid", "unpaid", "deleted"}, sub : Subs, snapshot : StripeState]

BillingTypeOK ==
  /\ row \in [Users -> [customer : {"stripe", "free"}, sub : Subs \cup {None},
                        status : Statuses, tier : Tiers]]
  /\ sessions \subseteq [user : Users, price : Prices]
  /\ stripe \in [Subs -> StripeState \cup {None}]
  /\ events \subseteq Event
  /\ hook \in [Hooks -> [at : {"idle", "sync", "paid", "unpaid", "deleted"},
                         ev : Event \cup {None}, seen : StripeState \cup {None}]]
  /\ stimuli \in Nat /\ lostAcks \in Nat
  /\ had \in [Subs -> SUBSET StripeState]
  /\ disorder \subseteq Subs

(* A row's tier and status are those of one subscription of that user, as  *)
(* Stripe once had it, or with the status a deletion or a failed payment   *)
(* of the same subscription gave it (stripe.ts:130, stripe-webhook.ts:41,  *)
(* 61), however the events were repeated and reordered.                    *)
RowCoherent ==
  \A u \in Users :
    IF row[u].sub = None
      THEN row[u].tier = "FREE" /\ row[u].status = "ACTIVE"
      ELSE \E s, t \in had[row[u].sub] :
             /\ s.user = u
             /\ row[u].tier = TierOf(s.price)
             /\ row[u].status = StatusOf(t.status)

(* When the events of the row's subscription were handled one at a time    *)
(* and in order, and all were answered, the row says what Stripe says.     *)
MirrorsStripe ==
  \A u \in Users :
    LET b == row[u].sub
    IN (/\ b # None /\ b \notin disorder
        /\ ~ \E e \in events : e.sub = b
        /\ ~ \E h \in Hooks : hook[h].at # "idle" /\ hook[h].ev.sub = b)
       => /\ row[u].status = StatusOf(stripe[b].status)
          /\ row[u].tier = TierOf(stripe[b].price)

(* A row is always something Stripe once said, and what it says now when   *)
(* the events came in order.                                               *)
RowTrue == RowCoherent /\ MirrorsStripe

===============================================================================
