-------------------------------- MODULE Accounts --------------------------------
(***************************************************************************)
(* Accounts of the hosted server: the handlers of routes/auth.ts and the   *)
(* check of middleware/requireAuth.ts they run behind.  A handler is a     *)
(* chain of awaits; each await is one step, between two of which the other *)
(* requests, the clock and a crash of the process may come.                *)
(*                                                                         *)
(* A user is known by the e-mail address, which no handler changes.  The   *)
(* name, the role and the wording of answers are left out; so is logout,   *)
(* which only clears a cookie of the caller.                               *)
(***************************************************************************)
EXTENDS Naturals, FiniteSets, HttpRequests

CONSTANTS
  Emails, Passwords,
  AccessTTL, RefreshTTL, ResetTTL,
  MaxTime,        (* bound on the clock                                     *)
  MaxRequests,    (* bound on the requests that arrive                      *)
  MaxFaults,      (* bound on the awaits that reject                        *)
  Resets          (* identities of the reset tokens that can be created     *)

ASSUME AccountsAssumption ==
  /\ None \notin Emails \cup Passwords \cup Resets \cup {"stripe", "free"}
  /\ None \notin [user : Emails, expires : Nat, used : BOOLEAN]
  /\ IsFiniteSet(Slots) /\ IsFiniteSet(Emails)
  /\ {AccessTTL, RefreshTTL, ResetTTL, MaxTime, MaxRequests, MaxFaults} \subseteq Nat

VARIABLES
  now,        (* Date.now()                                                 *)
  password,   (* User.passwordHash, None when there is no such user         *)
  customer,   (* Subscription.stripeCustomerId: "stripe", "free" or None    *)
  verifying,  (* users with an EmailVerificationToken                       *)
  reset,      (* ResetToken rows: None or [user, expires, used]             *)
  jwts,       (* signed tokens handed out: [type, sub, exp]                 *)
  req,        (* the requests in progress                                   *)
  arrived, faults,
  inForce,    (* history: passwords the request's account had while it ran  *)
  welcomed,   (* history: registrations answered 201, for each e-mail       *)
  broken,     (* history: users whose registration ended after user.create  *)
              (* with an error or with the process                          *)
  spent       (* history: reset tokens that have changed a password         *)

tables == <<password, customer, verifying, reset, jwts>>
vars == <<now, tables, req, arrived, faults, inForce, welcomed, broken, spent>>

Idle == [at |-> "idle", user |-> None, given |-> None, new |-> None,
         token |-> None, late |-> FALSE, seen |-> None]

-------------------------------------------------------------------------------
(* createTokens: an access and a refresh token, valid until exp > now.     *)
CreateTokens(e) ==
  {[type |-> "access", sub |-> e, exp |-> now + AccessTTL],
   [type |-> "refresh", sub |-> e, exp |-> now + RefreshTTL]}

(* The server starts with the users it already has, each with the tokens   *)
(* of a login.                                                             *)
Init ==
  /\ now = 0
  /\ \E old \in SUBSET Emails, p \in Passwords :
       /\ password = [e \in Emails |-> IF e \in old THEN p ELSE None]
       /\ customer = [e \in Emails |-> IF e \in old THEN "stripe" ELSE None]
       /\ verifying = old
       /\ welcomed = [e \in Emails |-> IF e \in old THEN 1 ELSE 0]
       /\ jwts = UNION {CreateTokens(e) : e \in old}
  /\ reset = [t \in Resets |-> None]
  /\ req = [s \in Slots |-> Idle]
  /\ arrived = 0
  /\ faults = 0
  /\ inForce = [s \in Slots |-> {}]
  /\ broken = {}
  /\ spent = {}

(* jwtVerify and the checks of payload.type.                               *)
Verified(jwt, type) == jwt.exp > now /\ jwt.type = type

(* The checks of /reset-password on the stored row.                        *)
ResetUsable_Reusable(row) == row # None /\ row.expires >= now

ResetUsable(row) == row # None /\ ~row.used /\ row.expires >= now

(* verifyPassword: bcrypt.compare of the password given with a hash read.  *)
PasswordMatches_NotAwaited(r) == r.seen # None

PasswordMatches(r) == r.seen # None /\ r.seen = r.given

(* Every write of a password hash is seen by the histories of the requests *)
(* of that account.                                                        *)
WritePassword(e, p) ==
  /\ password' = [password EXCEPT ![e] = p]
  /\ inForce' = [s \in Slots |->
       IF req[s].user = e THEN inForce[s] \cup {p} ELSE inForce[s]]

Await(s, step) == req' = [req EXCEPT ![s].at = step]

(* The answer is sent: nothing of the request is left.                     *)
Answer(s) == req' = [req EXCEPT ![s] = Idle]

Quiet == UNCHANGED <<now, arrived, faults, welcomed, broken>>
Reads == Quiet /\ UNCHANGED <<tables, inForce, spent>>

-------------------------------------------------------------------------------
(* A request arrives: its body is what the caller chooses, its tokens are  *)
(* ones that were handed out.                                              *)
Arrive(s, r) ==
  /\ req[s].at = "idle"
  /\ arrived < MaxRequests
  /\ req' = [req EXCEPT ![s] = r]
  /\ inForce' = [inForce EXCEPT ![s] =
       IF r.user = None THEN {} ELSE {password[r.user]} \ {None}]
  /\ arrived' = arrived + 1
  /\ UNCHANGED <<now, tables, faults, welcomed, broken, spent>>

PostRegister(s) ==
  \E e \in Emails, p \in Passwords :
    Arrive(s, [Idle EXCEPT !.at = "register", !.user = e, !.given = p])

PostLogin(s) ==
  \E e \in Emails, p \in Passwords :
    Arrive(s, [Idle EXCEPT !.at = "login", !.user = e, !.given = p])

PostRefresh(s) ==
  \E j \in jwts : Arrive(s, [Idle EXCEPT !.at = "refresh", !.user = j.sub, !.token = j])

(* Bounded by the identities that Resets has left for the tokens.          *)
PostForgot(s) ==
  /\ Cardinality({r \in Slots : req[r].at \in {"forgot", "forgot.create"}})
       < Cardinality({t \in Resets : reset[t] = None})
  /\ \E e \in Emails : Arrive(s, [Idle EXCEPT !.at = "forgot", !.user = e])

(* late: the token has changed a password or expired before the request.   *)
PostReset(s) ==
  \E t \in Resets, p \in Passwords :
    /\ reset[t] # None
    /\ Arrive(s, [Idle EXCEPT !.at = "reset", !.user = reset[t].user, !.new = p,
                    !.token = t,
                    !.late = t \in spent \/ reset[t].expires < now])

PatchProfile(s) ==
  \E j \in jwts, p, q \in Passwords :
    Arrive(s, [Idle EXCEPT !.at = "profile.auth", !.user = j.sub, !.token = j,
                 !.given = p, !.new = q])

GetMe(s) ==
  \E j \in jwts : Arrive(s, [Idle EXCEPT !.at = "me.auth", !.user = j.sub, !.token = j])

-------------------------------------------------------------------------------
(* /register, one action per await.                                        *)

RegisterLookup(s) ==
  /\ req[s].at = "register"
  /\ IF password[req[s].user] # None THEN Answer(s) ELSE Await(s, "register.create")
  /\ Reads

(* user.create after the hash; the e-mail is unique in the schema.         *)
RegisterCreate_Upsert(s) ==
  /\ req[s].at = "register.create"
  /\ Await(s, "register.customer") /\ WritePassword(req[s].user, req[s].given)
  /\ Quiet /\ UNCHANGED <<customer, verifying, reset, jwts, spent>>

RegisterCreate(s) ==
  /\ req[s].at = "register.create"
  /\ IF password[req[s].user] # None
       THEN Answer(s) /\ UNCHANGED <<password, inForce>>
       ELSE Await(s, "register.customer") /\ WritePassword(req[s].user, req[s].given)
  /\ Quiet /\ UNCHANGED <<customer, verifying, reset, jwts, spent>>

(* ensureFreeSubscription: the lookup and Stripe's customer, or free_<id>. *)
RegisterCustomer(s) ==
  /\ req[s].at = "register.customer"
  /\ IF customer[req[s].user] # None
       THEN Await(s, "register.verify")
       ELSE \E c \in {"stripe", "free"} :
              req' = [req EXCEPT ![s].at = "register.subscribe", ![s].seen = c]
  /\ Reads

RegisterSubscribe(s) ==
  /\ req[s].at = "register.subscribe"
  /\ customer' = [customer EXCEPT ![req[s].user] = req[s].seen]
  /\ Await(s, "register.verify")
  /\ Quiet /\ UNCHANGED <<password, verifying, reset, jwts, inForce, spent>>

RegisterVerify(s) ==
  /\ req[s].at = "register.verify"
  /\ verifying' = verifying \cup {req[s].user}
  /\ Await(s, "register.answer")
  /\ Quiet /\ UNCHANGED <<password, customer, reset, jwts, inForce, spent>>

(* sendVerificationEmail, which never rejects, then the tokens and 201.    *)
RegisterAnswer(s) ==
  /\ req[s].at = "register.answer"
  /\ jwts' = jwts \cup CreateTokens(req[s].user)
  /\ welcomed' = [welcomed EXCEPT ![req[s].user] = @ + 1]
  /\ Answer(s)
  /\ UNCHANGED <<now, password, customer, verifying, reset, arrived, faults,
                 inForce, broken, spent>>

(* /login: the row is read, its hash compared, the tokens are made and the *)
(* subscription is read for the answer.                                    *)
LoginLookup(s) ==
  /\ req[s].at = "login"
  /\ LET r == [req[s] EXCEPT !.seen = password[req[s].user], !.at = "login.answer"]
     IN IF PasswordMatches(r) THEN req' = [req EXCEPT ![s] = r] ELSE Answer(s)
  /\ Reads

IssueTokens(s) ==
  /\ jwts' = jwts \cup CreateTokens(req[s].user)
  /\ Answer(s)
  /\ Quiet /\ UNCHANGED <<password, customer, verifying, reset, inForce, spent>>

LoginAnswer(s) == req[s].at = "login.answer" /\ IssueTokens(s)

(* /refresh: nothing marks the old refresh token, which stays valid.       *)
RefreshVerify(s) ==
  /\ req[s].at = "refresh"
  /\ IF Verified(req[s].token, "refresh") THEN Await(s, "refresh.answer") ELSE Answer(s)
  /\ Reads

RefreshAnswer(s) == req[s].at = "refresh.answer" /\ IssueTokens(s)

(* /forgot-password: the same answer whether or not the user exists; the   *)
(* mail never rejects.                                                     *)
ForgotLookup(s) ==
  /\ req[s].at = "forgot"
  /\ IF password[req[s].user] # None THEN Await(s, "forgot.create") ELSE Answer(s)
  /\ Reads

ForgotCreate(s) ==
  /\ req[s].at = "forgot.create"
  /\ \E t \in Resets :
       /\ reset[t] = None
       /\ reset' = [reset EXCEPT ![t] =
            [user |-> req[s].user, expires |-> now + ResetTTL, used |-> FALSE]]
  /\ Answer(s)
  /\ Quiet /\ UNCHANGED <<password, customer, verifying, jwts, inForce, spent>>

(* /reset-password: the row is checked, the new password is hashed, and    *)
(* one transaction writes the hash and usedAt without a second look.       *)
ResetCheck(s) ==
  /\ req[s].at = "reset"
  /\ IF ResetUsable(reset[req[s].token]) THEN Await(s, "reset.write") ELSE Answer(s)
  /\ Reads

ResetWrite(s) ==
  /\ req[s].at = "reset.write"
  /\ WritePassword(reset[req[s].token].user, req[s].new)
  /\ reset' = [reset EXCEPT ![req[s].token].used = TRUE]
  /\ spent' = spent \cup {req[s].token}
  /\ Answer(s)
  /\ Quiet /\ UNCHANGED <<customer, verifying, jwts>>

(* PATCH /profile with a new password: the old one is proved against the   *)
(* row read before the new one is hashed and written.                      *)
ProfileAuth(s) ==
  /\ req[s].at = "profile.auth"
  /\ IF Verified(req[s].token, "access") THEN Await(s, "profile.read") ELSE Answer(s)
  /\ Reads

ProfileCompare(s) ==
  /\ req[s].at = "profile.read"
  /\ LET r == [req[s] EXCEPT !.seen = password[req[s].user], !.at = "profile.write"]
     IN IF PasswordMatches(r) THEN req' = [req EXCEPT ![s] = r] ELSE Answer(s)
  /\ Reads

ProfileWrite(s) ==
  /\ req[s].at = "profile.write"
  /\ WritePassword(req[s].user, req[s].new)
  /\ Answer(s)
  /\ Quiet /\ UNCHANGED <<customer, verifying, reset, jwts, spent>>

MeAuth(s) ==
  /\ req[s].at = "me.auth"
  /\ IF Verified(req[s].token, "access") THEN Await(s, "me.read") ELSE Answer(s)
  /\ Reads

MeAnswer(s) == req[s].at = "me.read" /\ Answer(s) /\ Reads

-------------------------------------------------------------------------------
Registering == {"register.customer", "register.subscribe", "register.verify", "register.answer"}

(* An await rejects and the handler's catch answers 500, or 401 behind     *)
(* requireAuth and in /refresh.                                            *)
Rejects(s) ==
  /\ req[s].at \notin {"idle", "me.read", "register.answer"}
  /\ faults < MaxFaults
  /\ faults' = faults + 1
  /\ broken' = IF req[s].at \in Registering THEN broken \cup {req[s].user} ELSE broken
  /\ Answer(s)
  /\ UNCHANGED <<now, tables, arrived, inForce, welcomed, spent>>

(* The process ends with every request it was serving, and is started      *)
(* again: on SIGTERM, which waits for none of them, or when /me, which has *)
(* no catch, is rejected by the database and nothing handles it.           *)
Restart ==
  /\ faults < MaxFaults
  /\ faults' = faults + 1
  /\ req' = [s \in Slots |-> Idle]
  /\ broken' = broken \cup {req[s].user : s \in {r \in Slots : req[r].at \in Registering}}
  /\ UNCHANGED <<now, tables, arrived, inForce, welcomed, spent>>

Tick ==
  /\ now < MaxTime
  /\ now' = now + 1
  /\ UNCHANGED <<tables, req, arrived, faults, inForce, welcomed, broken, spent>>

Arrives(s) ==
  \/ PostRegister(s) \/ PostLogin(s) \/ PostRefresh(s) \/ PostForgot(s)
  \/ PostReset(s) \/ PatchProfile(s) \/ GetMe(s)

Proceeds(s) ==
  \/ RegisterLookup(s) \/ RegisterCreate(s) \/ RegisterCustomer(s)
  \/ RegisterSubscribe(s) \/ RegisterVerify(s) \/ RegisterAnswer(s)
  \/ LoginLookup(s) \/ LoginAnswer(s) \/ RefreshVerify(s) \/ RefreshAnswer(s)
  \/ ForgotLookup(s) \/ ForgotCreate(s) \/ ResetCheck(s) \/ ResetWrite(s)
  \/ ProfileAuth(s) \/ ProfileCompare(s) \/ ProfileWrite(s)
  \/ MeAuth(s) \/ MeAnswer(s) \/ Rejects(s)

Next == Tick \/ Restart \/ \E s \in Slots : Arrives(s) \/ Proceeds(s)

Spec == Init /\ [][Next]_vars

-------------------------------------------------------------------------------
Jwt == [type : {"access", "refresh"}, sub : Emails, exp : Nat]
ResetRow == [user : Emails, expires : Nat, used : BOOLEAN]
Steps ==
  Registering \cup
  {"idle", "register", "register.create", "login", "login.answer", "refresh",
   "refresh.answer", "forgot", "forgot.create", "reset", "reset.write",
   "profile.auth", "profile.read", "profile.write", "me.auth", "me.read"}

TypeOK ==
  /\ now \in Nat /\ arrived \in Nat /\ faults \in Nat
  /\ password \in [Emails -> Passwords \cup {None}]
  /\ customer \in [Emails -> {"stripe", "free", None}]
  /\ verifying \subseteq Emails /\ broken \subseteq Emails
  /\ reset \in [Resets -> ResetRow \cup {None}]
  /\ jwts \subseteq Jwt
  /\ req \in [Slots -> [at : Steps, user : Emails \cup {None}, given : Passwords \cup {None},
                        new : Passwords \cup {None}, token : jwts \cup Resets \cup {None},
                        late : BOOLEAN, seen : Passwords \cup {"stripe", "free", None}]]
  /\ inForce \in [Slots -> SUBSET Passwords]
  /\ welcomed \in [Emails -> Nat]
  /\ spent \subseteq Resets

(* Of the registrations of one e-mail that race past the findUnique at     *)
(* auth.ts:59, at most one creates the user and is answered 201.           *)
OneOwner ==
  \A e \in Emails :
    welcomed[e] + Cardinality({s \in Slots : req[s].user = e /\ req[s].at \in Registering}) <= 1

(* A user has a subscription and a verification token (auth.ts:70-79)      *)
(* unless the registration is still running, or ended with an error or     *)
(* with the process; no later request repairs such an account.             *)
CompleteOrBroken ==
  \A e \in Emails :
    password[e] # None =>
      \/ customer[e] # None /\ e \in verifying
      \/ e \in broken
      \/ \E s \in Slots : req[s].user = e /\ req[s].at \in Registering

(* A registration makes one account, whole, or leaves a broken one behind. *)
AccountsSound == TypeOK /\ OneOwner /\ CompleteOrBroken

(* A reset request that arrives after its token has changed a password, or *)
(* after the token expired, changes none (auth.ts:275-305): only requests  *)
(* that overlap can use one token twice.                                   *)
NoStaleReset == \A s \in Slots : req[s].at = "reset.write" => ~req[s].late

(* Tokens are issued by /login, and a password is replaced by /profile,    *)
(* only for a password that was the account's at an instant of the         *)
(* request (auth.ts:120, 337), whatever other requests wrote meanwhile.    *)
PasswordProved ==
  \A s \in Slots :
    req[s].at \in {"login.answer", "profile.write"} => req[s].given \in inForce[s]

===============================================================================
