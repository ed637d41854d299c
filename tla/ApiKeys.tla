-------------------------------- MODULE ApiKeys --------------------------------
(***************************************************************************)
(* API keys and the gate in front of the guarded routes, beside the        *)
(* webhooks that change the subscription they read: services/apiKey.ts,    *)
(* routes/api-keys.ts, middleware/requireAuth.ts, requireScope.ts and      *)
(* requireSubscription.ts.  A request is a chain of awaits, one step each. *)
(*                                                                         *)
(* A key is known by its identity: prefix and hash tell the keys apart.    *)
(* Expire is the clock reaching a key's expiresAt.  Listing keys changes   *)
(* nothing.                                                                *)
(***************************************************************************)
EXTENDS Subscriptions, HttpRequests

CONSTANTS
  Keys,        (* identities of the keys that can be created                *)
  MaxKeys      (* TIER_LIMITS[tier].maxKeys                                 *)

ASSUME ApiKeysAssumption ==
  /\ None \notin Keys
  /\ None \notin [user : Users, scopes : SUBSET {"write:keys"}, revoked : BOOLEAN,
                   expired : BOOLEAN]
  /\ IsFiniteSet(Keys) /\ IsFiniteSet(Slots) /\ Slots # {}
  /\ MaxKeys \in [Tiers -> Nat]

VARIABLES
  key,       (* ApiKey rows: None or [user, scopes, revoked, expired]       *)
  call,      (* the requests in progress                                    *)
  bestTier,  (* history: the largest maxKeys a user's tier has had          *)
  active     (* history: requests whose user has been ACTIVE while they ran *)

keysVars == <<billing, stimuli, key, call, bestTier, active>>

Unasked == [at |-> "idle", op |-> None, user |-> None, via |-> None, late |-> FALSE,
            scopes |-> None, seen |-> None, target |-> None]

KeysInit ==
  /\ BillingInit
  /\ key = [k \in Keys |-> None]
  /\ call = [s \in Slots |-> Unasked]
  /\ bestTier = [u \in Users |-> MaxKeys[row[u].tier]]
  /\ active = {}

-------------------------------------------------------------------------------
Live(u) == {k \in Keys : key[k] # None /\ key[k].user = u /\ ~key[k].revoked}

(* validateKey: the rows it reads and the checks it makes on them.         *)
KeyAccepted_Revoked(k) == ~key[k].expired /\ row[key[k].user].status = "ACTIVE"

KeyAccepted(k) ==
  ~key[k].revoked /\ ~key[k].expired /\ row[key[k].user].status = "ACTIVE"

(* The route's scope, of which a session has every one (requireScope).     *)
ScopeOf(op) == IF op = "checkpoint" THEN {} ELSE {"write:keys"}

ScopeGranted(r) == r.via = None \/ ScopeOf(r.op) \subseteq r.scopes

(* requireSubscription("FREE"), on /checkpoint and /mcp only.              *)
SubscriptionGranted(r) == r.op = "checkpoint" => r.seen = "ACTIVE"

KeysOnly == UNCHANGED <<billing, stimuli>>

Step(s, r) == call' = [call EXCEPT ![s] = r]
Reply(s)  == Step(s, Unasked)

-------------------------------------------------------------------------------
(* A request arrives with a session of user u, or with an API key, which   *)
(* its holder may present long after it was revoked.                       *)
Ask(s) ==
  /\ call[s].at = "idle"
  /\ Stimulus
  /\ \E op \in {"create", "revoke", "checkpoint"}, target \in Keys \cup {None} :
       /\ op = "revoke" <=> target # None
       /\ \/ \E u \in Users :
               Step(s, [Unasked EXCEPT !.at = "load", !.op = op, !.user = u, !.target = target])
          \/ \E k \in Keys :
               /\ key[k] # None
               /\ Step(s, [Unasked EXCEPT !.at = "find", !.op = op, !.user = key[k].user,
                             !.via = k, !.late = key[k].revoked \/ key[k].expired,
                             !.target = target])
  /\ UNCHANGED <<billing, key>>

(* validateKey: the key is found with its user's subscription, and its     *)
(* lastUsedAt, which nothing reads, is written.                            *)
FindKey(s) ==
  /\ call[s].at = "find"
  /\ LET k == call[s].via
     IN IF KeyAccepted(k)
          THEN Step(s, [call[s] EXCEPT !.at = "load", !.scopes = key[k].scopes])
          ELSE Reply(s)
  /\ KeysOnly /\ UNCHANGED key

(* loadUser reads the subscription once more; then the gates.              *)
LoadUser(s) ==
  /\ call[s].at = "load"
  /\ LET r == [call[s] EXCEPT !.seen = row[call[s].user].status]
     IN IF ScopeGranted(r) /\ SubscriptionGranted(r)
          THEN Step(s, [r EXCEPT !.at = r.op])
          ELSE Reply(s)
  /\ KeysOnly /\ UNCHANGED key

(* /checkpoint runs; what it does to the state is Checkpoint's subject.    *)
Serve(s) ==
  /\ call[s].at = "checkpoint"
  /\ Reply(s)
  /\ KeysOnly /\ UNCHANGED key

(* createKey: the tier is read, the keys are counted, the key is inserted. *)
CreateReadTier(s) ==
  /\ call[s].at = "create"
  /\ Step(s, [call[s] EXCEPT !.at = "count", !.seen = row[call[s].user].tier])
  /\ KeysOnly /\ UNCHANGED key

CreateCount_Above(s) ==
  /\ call[s].at = "count"
  /\ IF Cardinality(Live(call[s].user)) > MaxKeys[call[s].seen]
       THEN Reply(s) ELSE Step(s, [call[s] EXCEPT !.at = "insert"])
  /\ KeysOnly /\ UNCHANGED key

CreateCount(s) ==
  /\ call[s].at = "count"
  /\ IF Cardinality(Live(call[s].user)) >= MaxKeys[call[s].seen]
       THEN Reply(s) ELSE Step(s, [call[s] EXCEPT !.at = "insert"])
  /\ KeysOnly /\ UNCHANGED key

CreateInsert(s) ==
  /\ call[s].at = "insert"
  /\ \E k \in Keys, scopes \in {{}, {"write:keys"}} :
       /\ key[k] = None
       /\ key' = [key EXCEPT ![k] =
            [user |-> call[s].user, scopes |-> scopes, revoked |-> FALSE, expired |-> FALSE]]
  /\ Reply(s)
  /\ KeysOnly

(* revokeKey: the key is looked up with its owner, then marked by its id.  *)
RevokeFind(s) ==
  /\ call[s].at = "revoke"
  /\ LET k == call[s].target
     IN IF key[k] # None /\ key[k].user = call[s].user
          THEN Step(s, [call[s] EXCEPT !.at = "mark"]) ELSE Reply(s)
  /\ KeysOnly /\ UNCHANGED key

RevokeMark(s) ==
  /\ call[s].at = "mark"
  /\ key' = [key EXCEPT ![call[s].target].revoked = TRUE]
  /\ Reply(s)
  /\ KeysOnly

Expire(k) ==
  /\ key[k] # None /\ ~key[k].expired
  /\ key' = [key EXCEPT ![k].expired = TRUE]
  /\ KeysOnly /\ UNCHANGED call

(* An await rejects: 401 behind requireAuth, 500 in the handler.           *)
AwaitRejects(s) ==
  /\ call[s].at # "idle"
  /\ Reply(s)
  /\ KeysOnly /\ UNCHANGED key

RequestsNext ==
  \/ \E s \in Slots :
       \/ Ask(s) \/ FindKey(s) \/ LoadUser(s) \/ Serve(s)
       \/ CreateReadTier(s) \/ CreateCount(s) \/ CreateInsert(s)
       \/ RevokeFind(s) \/ RevokeMark(s) \/ AwaitRejects(s)
  \/ \E k \in Keys : Expire(k)

Histories ==
  /\ bestTier' = [u \in Users |->
       IF MaxKeys[row'[u].tier] > bestTier[u] THEN MaxKeys[row'[u].tier] ELSE bestTier[u]]
  /\ active' = {s \in Slots :
       /\ call'[s].at # "idle"
       /\ \/ s \in active /\ call[s].at # "idle"
          \/ row'[call'[s].user].status = "ACTIVE"}

KeysNext ==
  /\ \/ BillingNext /\ UNCHANGED <<key, call>>
     \/ RequestsNext
  /\ Histories

KeysSpec == KeysInit /\ [][KeysNext]_keysVars

-------------------------------------------------------------------------------
KeyRow == [user : Users, scopes : SUBSET {"write:keys"}, revoked : BOOLEAN, expired : BOOLEAN]
KeyRequest ==
  [at : {"idle", "find", "load", "checkpoint", "create", "count", "insert",
         "revoke", "mark"},
   op : {"create", "revoke", "checkpoint", None}, user : Users \cup {None},
   via : Keys \cup {None}, late : BOOLEAN, scopes : (SUBSET {"write:keys"}) \cup {None},
   seen : Statuses \cup Tiers \cup {None}, target : Keys \cup {None}]

KeysTypeOK ==
  /\ BillingTypeOK
  /\ key \in [Keys -> KeyRow \cup {None}]
  /\ call \in [Slots -> KeyRequest]
  /\ bestTier \in [Users -> Nat]
  /\ active \subseteq Slots

(* The keys are counted and then inserted (apiKey.ts:59-70): requests that *)
(* overlap exceed the limit, but never by more than the other requests in  *)
(* progress, and a downgrade leaves the keys of the better tier.           *)
KeysBounded ==
  \A u \in Users :
    Cardinality(Live(u))
      + Cardinality({s \in Slots : call[s].user = u /\ call[s].at = "insert"})
      <= bestTier[u] + Cardinality(Slots) - 1

(* A user's keys stay within what a plan of theirs allowed.                *)
KeysSound == KeysTypeOK /\ KeysBounded

(* Whoever passes validateKey (apiKey.ts:134-153) brought a key that was   *)
(* good when the request arrived, for a user whose subscription was ACTIVE *)
(* at an instant of the request, whatever webhook or revocation came       *)
(* between its awaits.                                                     *)
KeyAdmission ==
  \A s \in Slots :
    call[s].via # None /\ call[s].at \notin {"idle", "find"} =>
      ~call[s].late /\ s \in active

===============================================================================
