---------------------------- MODULE HostedServerProofs ----------------------------
(***************************************************************************)
(* The hosted server: first its accounts, for any number of addresses,     *)
(* passwords, requests at once, faults and restarts, and any lifetimes;    *)
(* then its API keys and the subscriptions they depend on, for any number  *)
(* of users, keys, requests and webhooks at once, and any limits.          *)
(***************************************************************************)
EXTENDS Accounts, ApiKeys, FiniteSetTheorems, TLAPS

Request ==
  [at : Steps, user : Emails \cup {None}, given : Passwords \cup {None},
   new : Passwords \cup {None}, token : jwts \cup Resets \cup {None},
   late : BOOLEAN, seen : Passwords \cup {"stripe", "free", None}]

(***************************************************************************)
(* Accounts: the inductive invariant.                                      *)
(***************************************************************************)

(* A token that was mailed belongs to a user; one that has changed a       *)
(* password says so.                                                       *)
RowOK(t) ==
  /\ reset[t] # None => password[reset[t].user] # None
  /\ t \in spent => reset[t] # None /\ reset[t].used

(* What a request has found out by the time it waits for its next answer.  *)
RequestOK(r) ==
  /\ r.at # "idle" => r.user \in Emails
  /\ r.at \in {"register", "register.create"} => r.given \in Passwords
  /\ r.at \in {"reset", "reset.write", "profile.auth", "profile.read", "profile.write"}
       => r.new \in Passwords
  /\ r.at \in Registering \cup {"forgot.create", "profile.write"} => password[r.user] # None
  /\ r.at = "register.subscribe" => r.seen \in {"stripe", "free"}
  /\ r.at \in {"register.verify", "register.answer"} => customer[r.user] # None
  /\ r.at = "register.answer" => r.user \in verifying
  /\ r.at \in {"reset", "reset.write"} => r.token \in Resets /\ reset[r.token] # None
  /\ r.at = "reset" /\ r.late => r.token \in spent \/ reset[r.token].expires < now
  /\ r.at = "reset.write" => ~ r.late

(* The history of a request holds the password its account has now.        *)
HistoryOK(r, h) ==
  /\ r.user \in Emails /\ password[r.user] # None => password[r.user] \in h
  /\ r.at \in {"login.answer", "profile.write"} => r.given \in h

(* An address is registered by one request at a time, or was by one.       *)
Registers(r, e) == r.user = e /\ r.at \in Registering

OwnerOK(e) ==
  /\ welcomed[e] \in {0, 1}
  /\ password[e] = None => welcomed[e] = 0
  /\ \A s \in Slots : Registers(req[s], e) => welcomed[e] = 0
  /\ \A s, t \in Slots : Registers(req[s], e) /\ Registers(req[t], e) => s = t

IInv ==
  /\ TypeOK
  /\ \A t \in Resets : RowOK(t)
  /\ \A s \in Slots : RequestOK(req[s]) /\ HistoryOK(req[s], inForce[s])
  /\ \A e \in Emails : OwnerOK(e)
  /\ CompleteOrBroken

-------------------------------------------------------------------------------
(* A request that has been answered owes and knows nothing.                *)
LEMMA IdleOK ==
  /\ Idle \in Request /\ RequestOK(Idle)
  /\ \A h : HistoryOK(Idle, h)
  /\ \A e \in Emails : ~ Registers(Idle, e)
BY AccountsAssumption DEF Idle, Request, Steps, RequestOK, HistoryOK, Registers, Registering

(* The steps of a request are distinct.                                    *)
LEMMA RequestFields ==
  ASSUME IInv, NEW s \in Slots
  PROVE  /\ req[s] \in Request /\ RequestOK(req[s]) /\ HistoryOK(req[s], inForce[s])
         /\ req \in [Slots -> Request] /\ inForce \in [Slots -> SUBSET Passwords]
         /\ inForce[s] \subseteq Passwords
BY DEF IInv, TypeOK, Request

(* A step that reads: only the request moves.                              *)
LEMMA ReadStep ==
  ASSUME IInv, UNCHANGED <<now, tables, welcomed, broken, spent>>,
         arrived' \in Nat, faults' \in Nat,
         NEW s \in Slots, NEW r \in Request, RequestOK(r),
         NEW h \in SUBSET Passwords, HistoryOK(r, h),
         req' = [req EXCEPT ![s] = r], inForce' = [inForce EXCEPT ![s] = h],
         \A e \in Emails : Registers(r, e) <=> Registers(req[s], e)
  PROVE  IInv'
<1>1. /\ now' = now /\ password' = password /\ customer' = customer
      /\ verifying' = verifying /\ reset' = reset /\ jwts' = jwts
      /\ welcomed' = welcomed /\ broken' = broken /\ spent' = spent
  BY DEF tables
<1>2. /\ req \in [Slots -> Request] /\ inForce \in [Slots -> SUBSET Passwords]
  BY RequestFields
<1>3. /\ req' \in [Slots -> Request] /\ inForce' \in [Slots -> SUBSET Passwords]
      /\ req'[s] = r /\ inForce'[s] = h
      /\ \A t \in Slots : t # s => req'[t] = req[t] /\ inForce'[t] = inForce[t]
  BY <1>2
<1>4. TypeOK'
  <2>1. req' \in [Slots -> Request]'
    BY <1>1, <1>3 DEF Request
  <2> QED
    BY <1>1, <1>3, <2>1 DEF IInv, TypeOK, Request
<1>5. \A t \in Resets : RowOK(t)'
  BY <1>1 DEF IInv, RowOK
<1>6. ASSUME NEW t \in Slots
      PROVE  (RequestOK(req[t]) /\ HistoryOK(req[t], inForce[t]))'
  <2>1. RequestOK(req'[t]) /\ HistoryOK(req'[t], inForce'[t])
    BY <1>3, RequestFields
  <2> QED
    BY <1>1, <2>1 DEF RequestOK, HistoryOK
<1>7. \A t \in Slots, e \in Emails : Registers(req'[t], e) <=> Registers(req[t], e)
  BY <1>3
<1>8. ASSUME NEW e \in Emails PROVE OwnerOK(e)'
  <2>1. OwnerOK(e)
    BY DEF IInv
  <2> QED
    BY <1>1, <1>7, <2>1 DEF OwnerOK
<1>9. CompleteOrBroken'
  BY <1>1, <1>7 DEF IInv, CompleteOrBroken, Registers
<1> QED
  BY <1>4, <1>5, <1>6, <1>8, <1>9 DEF IInv

(***************************************************************************)
(* Requests that arrive, and steps that only read.                         *)
(***************************************************************************)

(* The request q after an await: at the next step, otherwise as it was.    *)
Moved(r, q, step) ==
  /\ r.at = step /\ r.user = q.user /\ r.given = q.given /\ r.new = q.new
  /\ r.token = q.token /\ r.late = q.late /\ r.seen = q.seen

(* An await moves its request on and leaves what it knows.                 *)
LEMMA AwaitIs ==
  ASSUME IInv, NEW s \in Slots, NEW step \in Steps, Await(s, step)
  PROVE  \E r \in Request : Moved(r, req[s], step) /\ req' = [req EXCEPT ![s] = r]
<1> DEFINE r == [req[s] EXCEPT !.at = step]
<1>1. req[s] \in Request /\ req \in [Slots -> Request]
  BY RequestFields
<1>2. r \in Request /\ Moved(r, req[s], step)
  BY <1>1 DEF Request, Moved
<1>3. req' = [req EXCEPT ![s] = r]
  BY <1>1 DEF Await
<1> QED
  BY <1>2, <1>3

(* A step that reads and waits again.                                      *)
LEMMA AwaitReads ==
  ASSUME IInv, NEW s \in Slots, NEW step \in Steps, Await(s, step), Reads,
         step \in Registering <=> req[s].at \in Registering,
         NEW r \in Request, Moved(r, req[s], step), req' = [req EXCEPT ![s] = r],
         RequestOK(r), step \notin {"login.answer", "profile.write"}
  PROVE  IInv'
<1>1. /\ inForce[s] \in SUBSET Passwords /\ inForce' = [inForce EXCEPT ![s] = inForce[s]]
      /\ HistoryOK(req[s], inForce[s])
  BY RequestFields DEF Reads
<1>2. HistoryOK(r, inForce[s])
  BY <1>1 DEF HistoryOK, Moved
<1>3. \A e \in Emails : Registers(r, e) <=> Registers(req[s], e)
  BY DEF Registers, Moved
<1>4. arrived' \in Nat /\ faults' \in Nat
  BY DEF Reads, Quiet, IInv, TypeOK
<1> QED
  BY <1>1, <1>2, <1>3, <1>4, ReadStep DEF Reads, Quiet

(* A request that nobody waits for any more, outside a registration.       *)
LEMMA AnswerReads ==
  ASSUME IInv, NEW s \in Slots, Answer(s), req[s].at \notin Registering,
         UNCHANGED <<now, tables, welcomed, broken, spent, inForce>>,
         arrived' \in Nat, faults' \in Nat
  PROVE  IInv'
<1>1. inForce[s] \in SUBSET Passwords /\ inForce' = [inForce EXCEPT ![s] = inForce[s]]
  BY RequestFields
<1>2. req' = [req EXCEPT ![s] = Idle] /\ \A e \in Emails : ~ Registers(req[s], e)
  BY DEF Answer, Registers
<1> QED
  BY <1>1, <1>2, IdleOK, ReadStep

(* The answer of a step that read.                                         *)
LEMMA AnswerAfterReads ==
  ASSUME IInv, NEW s \in Slots, Answer(s), Reads, req[s].at \notin Registering
  PROVE  IInv'
<1>1. arrived' \in Nat /\ faults' \in Nat
  BY DEF Reads, Quiet, IInv, TypeOK
<1> QED
  BY <1>1, AnswerReads DEF Reads, Quiet

(* A request arrives: its history begins with the password of the moment.  *)
LEMMA ArriveStep ==
  ASSUME IInv, NEW s \in Slots, NEW r \in Request, RequestOK(r), Arrive(s, r),
         r.at \notin Registering \cup {"login.answer", "profile.write"}
  PROVE  IInv'
<1> DEFINE h == IF r.user = None THEN {} ELSE {password[r.user]} \ {None}
<1>1. r.user # None => r.user \in Emails /\ password[r.user] \in Passwords \cup {None}
  BY DEF Request, IInv, TypeOK
<1>2. h \in SUBSET Passwords
  BY <1>1
<1>3. HistoryOK(r, h)
  BY AccountsAssumption DEF HistoryOK
<1>4. \A e \in Emails : Registers(r, e) <=> Registers(req[s], e)
  BY DEF Arrive, Registers, Registering
<1>5. /\ req' = [req EXCEPT ![s] = r] /\ inForce' = [inForce EXCEPT ![s] = h]
      /\ UNCHANGED <<now, tables, welcomed, broken, spent>>
      /\ arrived' \in Nat /\ faults' \in Nat
  BY DEF Arrive, IInv, TypeOK
<1> HIDE DEF h
<1> QED
  BY <1>2, <1>3, <1>4, <1>5, ReadStep

(* What callers may send.                                                  *)
LEMMA ArrivesStep ==
  ASSUME IInv, NEW s \in Slots, Arrives(s)
  PROVE  IInv'
<1> USE DEF Idle, Request, Steps, Registering, RequestOK
<1>0. jwts \subseteq Jwt /\ now \in Nat
  BY DEF IInv, TypeOK
<1>1. CASE PostRegister(s)
  BY <1>1, ArriveStep DEF PostRegister
<1>2. CASE PostLogin(s)
  BY <1>2, ArriveStep DEF PostLogin
<1>3. CASE PostRefresh(s)
  BY <1>0, <1>3, ArriveStep DEF PostRefresh, Jwt
<1>4. CASE PostForgot(s)
  BY <1>4, ArriveStep DEF PostForgot
<1>5. CASE PostReset(s)
  <2>1. PICK t \in Resets, p \in Passwords :
          /\ reset[t] # None
          /\ Arrive(s, [Idle EXCEPT !.at = "reset", !.user = reset[t].user, !.new = p,
                         !.token = t, !.late = t \in spent \/ reset[t].expires < now])
    BY <1>5 DEF PostReset
  <2>2. reset[t] \in ResetRow
    BY <2>1 DEF IInv, TypeOK
  <2> QED
    BY <2>1, <2>2, ArriveStep DEF ResetRow
<1>6. CASE PatchProfile(s)
  BY <1>0, <1>6, ArriveStep DEF PatchProfile, Jwt
<1>7. CASE GetMe(s)
  BY <1>0, <1>7, ArriveStep DEF GetMe, Jwt
<1> QED
  BY <1>1, <1>2, <1>3, <1>4, <1>5, <1>6, <1>7 DEF Arrives

(* The lookups, comparisons and checks of the handlers.                    *)
Looks(s) ==
  \/ RegisterLookup(s) \/ RegisterCustomer(s) \/ LoginLookup(s) \/ RefreshVerify(s)
  \/ ForgotLookup(s) \/ ResetCheck(s) \/ ProfileAuth(s) \/ ProfileCompare(s)
  \/ MeAuth(s) \/ MeAnswer(s)

LEMMA LooksStep ==
  ASSUME IInv, NEW s \in Slots, Looks(s)
  PROVE  IInv'
<1>0. /\ req[s] \in Request /\ RequestOK(req[s]) /\ HistoryOK(req[s], inForce[s])
      /\ req \in [Slots -> Request] /\ inForce \in [Slots -> SUBSET Passwords]
      /\ password \in [Emails -> Passwords \cup {None}]
      /\ arrived \in Nat /\ faults \in Nat
  BY RequestFields DEF IInv, TypeOK
<1>1. ASSUME Answer(s), Reads, req[s].at \notin Registering PROVE IInv'
  BY <1>1, AnswerAfterReads
<1>2. ASSUME NEW step \in Steps, Await(s, step), Reads,
             step \in Registering <=> req[s].at \in Registering,
             step \notin {"login.answer", "profile.write"},
             \A r \in Request : Moved(r, req[s], step) => RequestOK(r)
      PROVE  IInv'
  BY <1>2, AwaitIs, AwaitReads
<1>3. CASE RegisterLookup(s)
  <2>1. CASE Await(s, "register.create")
    BY <1>0, <1>2, <1>3, <2>1
       DEF RegisterLookup, RequestOK, Moved, Steps, Registering
  <2> QED
    BY <1>1, <1>3, <2>1 DEF RegisterLookup, Registering
<1>4. CASE RegisterCustomer(s)
  <2>1. CASE customer[req[s].user] # None
    BY <1>0, <1>2, <1>4, <2>1
       DEF RegisterCustomer, RequestOK, Moved, Steps, Registering
  <2>2. CASE customer[req[s].user] = None
    <3>1. PICK c \in {"stripe", "free"} :
            req' = [req EXCEPT ![s].at = "register.subscribe", ![s].seen = c]
      BY <1>4, <2>2 DEF RegisterCustomer
    <3> DEFINE r == [req[s] EXCEPT !.at = "register.subscribe", !.seen = c]
    <3>2. /\ r \in Request /\ r.at = "register.subscribe" /\ r.user = req[s].user
          /\ r.seen = c
      BY <1>0 DEF Request, Steps, Registering
    <3>3. req' = [req EXCEPT ![s] = r] /\ inForce' = [inForce EXCEPT ![s] = inForce[s]]
      BY <1>0, <1>4, <3>1 DEF RegisterCustomer, Reads
    <3> HIDE DEF r
    <3>4. RequestOK(r) /\ HistoryOK(r, inForce[s])
      BY <1>0, <1>4, <3>2 DEF RegisterCustomer, RequestOK, HistoryOK, Registering
    <3>5. \A e \in Emails : Registers(r, e) <=> Registers(req[s], e)
      BY <1>4, <3>2 DEF RegisterCustomer, Registers, Registering
    <3> QED
      BY <1>0, <1>4, <3>2, <3>3, <3>4, <3>5, ReadStep DEF RegisterCustomer, Reads, Quiet
  <2> QED
    BY <2>1, <2>2
<1>5. ASSUME NEW step \in {"login.answer", "profile.write"}, Reads,
             req[s].at = (IF step = "login.answer" THEN "login" ELSE "profile.read"),
             NEW r, r = [req[s] EXCEPT !.seen = password[req[s].user], !.at = step],
             PasswordMatches(r), req' = [req EXCEPT ![s] = r]
      PROVE  IInv'
  <2>1. req[s].user \in Emails
    BY <1>0, <1>5 DEF RequestOK
  <2>2. /\ r \in Request /\ r.at = step /\ r.user = req[s].user
        /\ r.given = req[s].given /\ r.new = req[s].new /\ r.seen = password[req[s].user]
    BY <1>0, <1>5, <2>1 DEF Request, Steps
  <2>3. r.given = password[r.user] /\ password[r.user] # None
    BY <1>5, <2>2 DEF PasswordMatches
  <2>4. RequestOK(r)
    BY <1>0, <1>5, <2>1, <2>2, <2>3 DEF RequestOK, Registering
  <2>5. /\ HistoryOK(r, inForce[s]) /\ inForce[s] \in SUBSET Passwords
        /\ inForce' = [inForce EXCEPT ![s] = inForce[s]]
    <3>1. password[req[s].user] \in inForce[s]
      BY <1>0, <2>1, <2>2, <2>3 DEF HistoryOK
    <3> QED
      BY <1>0, <1>5, <2>2, <2>3, <3>1 DEF HistoryOK, Reads
  <2>6. \A e \in Emails : Registers(r, e) <=> Registers(req[s], e)
    BY <1>5, <2>2 DEF Registers, Registering
  <2>7. /\ req' = [req EXCEPT ![s] = r] /\ arrived' \in Nat /\ faults' \in Nat
        /\ UNCHANGED <<now, tables, welcomed, broken, spent>>
    BY <1>0, <1>5 DEF Reads, Quiet
  <2> QED
    BY <2>2, <2>4, <2>5, <2>6, <2>7, ReadStep
<1>6. CASE LoginLookup(s)
  BY <1>1, <1>5, <1>6 DEF LoginLookup, Registering
<1>7. CASE RefreshVerify(s)
  BY <1>0, <1>1, <1>2, <1>7 DEF RefreshVerify, RequestOK, Moved, Steps, Registering
<1>8. CASE ForgotLookup(s)
  BY <1>0, <1>1, <1>2, <1>8 DEF ForgotLookup, RequestOK, Moved, Steps, Registering
<1>9. CASE ResetCheck(s)
  <2>1. CASE ResetUsable(reset[req[s].token])
    <3>1. ~ req[s].late
      <4>1. /\ req[s].at = "reset" /\ req[s].token \in Resets /\ now \in Nat
            /\ reset[req[s].token] \in ResetRow
        BY <1>0, <1>9 DEF ResetCheck, RequestOK, IInv, TypeOK
      <4>2. req[s].token \notin spent
        BY <2>1, <4>1 DEF ResetUsable, IInv, RowOK
      <4>3. ~ (reset[req[s].token].expires < now)
        BY <2>1, <4>1 DEF ResetUsable, ResetRow
      <4> QED
        BY <1>0, <4>1, <4>2, <4>3 DEF RequestOK
    <3> QED
      BY <1>0, <1>2, <1>9, <2>1, <3>1
         DEF ResetCheck, RequestOK, Moved, Steps, Registering
  <2> QED
    BY <1>1, <1>9, <2>1 DEF ResetCheck, Registering
<1>10. CASE ProfileAuth(s)
  BY <1>0, <1>1, <1>2, <1>10 DEF ProfileAuth, RequestOK, Moved, Steps, Registering
<1>11. CASE ProfileCompare(s)
  BY <1>1, <1>5, <1>11 DEF ProfileCompare, Registering
<1>12. CASE MeAuth(s)
  BY <1>0, <1>1, <1>2, <1>12 DEF MeAuth, RequestOK, Moved, Steps, Registering
<1>13. CASE MeAnswer(s)
  BY <1>1, <1>13 DEF MeAnswer, Registering
<1> QED
  BY <1>3, <1>4, <1>6, <1>7, <1>8, <1>9, <1>10, <1>11, <1>12, <1>13 DEF Looks

(***************************************************************************)
(* Steps that write.                                                       *)
(***************************************************************************)

(* No handler takes back what another one found: no user, subscription or  *)
(* token disappears, and time goes on.                                     *)
Evolves ==
  /\ \A e \in Emails : password[e] # None => password'[e] # None
  /\ \A e \in Emails : customer[e] # None => customer'[e] # None
  /\ verifying \subseteq verifying' /\ jwts \subseteq jwts' /\ spent \subseteq spent'
  /\ \A t \in Resets : reset[t] # None =>
       reset'[t] # None /\ reset'[t].user = reset[t].user
                       /\ reset'[t].expires = reset[t].expires
  /\ now' \in Nat /\ now' >= now /\ broken \subseteq broken'

(* So what a waiting request knows stays true.                             *)
LEMMA RequestStable ==
  ASSUME IInv, Evolves, NEW r \in Request, RequestOK(r)
  PROVE  (r \in Request)' /\ RequestOK(r)'
<1>1. (r \in Request)'
  BY DEF Request, Evolves
<1>2. r.user # None => r.user \in Emails
  BY DEF Request
<1>3. r.at \in Registering \cup {"forgot.create", "profile.write"} => password'[r.user] # None
  BY AccountsAssumption, <1>2 DEF RequestOK, Evolves, Registering
<1>4. r.at \in {"register.verify", "register.answer"} => customer'[r.user] # None
  BY AccountsAssumption, <1>2 DEF RequestOK, Evolves
<1>5. r.at \in {"reset", "reset.write"} => r.token \in Resets /\ reset'[r.token] # None
  BY DEF RequestOK, Evolves
<1>6. r.at = "reset" /\ r.late => r.token \in spent' \/ reset'[r.token].expires < now'
  <2> SUFFICES ASSUME r.at = "reset", r.late, r.token \notin spent
               PROVE  reset'[r.token].expires < now'
    BY DEF Evolves
  <2>1. r.token \in Resets /\ reset[r.token] # None /\ reset[r.token].expires < now
    BY DEF RequestOK
  <2>2. reset[r.token].expires \in Nat /\ now \in Nat
    BY <2>1 DEF IInv, TypeOK, ResetRow
  <2>3. reset'[r.token].expires = reset[r.token].expires /\ now' \in Nat /\ now' >= now
    BY <2>1 DEF Evolves
  <2> QED
    BY <2>1, <2>2, <2>3
<1>7. r.at = "register.answer" => r.user \in verifying'
  BY DEF RequestOK, Evolves
<1> QED
  BY <1>1, <1>3, <1>4, <1>5, <1>6, <1>7 DEF RequestOK

(* One request moves, the others wait.                                     *)
LEMMA RequestsMove ==
  ASSUME IInv, Evolves, NEW s \in Slots, NEW r, (r \in Request)', RequestOK(r)',
         req' = [req EXCEPT ![s] = r]
  PROVE  /\ (req \in [Slots -> Request])' /\ req'[s] = r
         /\ \A t \in Slots : t # s => req'[t] = req[t]
         /\ \A t \in Slots : RequestOK(req[t])'
<1>1. /\ req \in [Slots -> Request]
      /\ req'[s] = r /\ \A t \in Slots : t # s => req'[t] = req[t]
  BY RequestFields
<1>2. ASSUME NEW t \in Slots, t # s PROVE (req[t] \in Request)' /\ RequestOK(req[t])'
  <2>1. req[t] \in Request /\ RequestOK(req[t])
    BY RequestFields
  <2>2. (req[t] \in Request')  /\ req'[t] = req[t]
    BY <1>1, <1>2, <2>1 DEF Request, Evolves
  <2>3. \A q \in Request : RequestOK(q) => (q \in Request') /\ RequestOK(q)'
    BY RequestStable
  <2> QED
    BY <2>1, <2>2, <2>3 DEF RequestOK
<1>3. (req[s] \in Request)' /\ RequestOK(req[s])'
  BY <1>1 DEF RequestOK
<1>4. req' = [t \in Slots |-> req'[t]]
  BY <1>1
<1>5. \A t \in Slots : req'[t] \in Request' /\ RequestOK(req[t])'
  BY <1>2, <1>3
<1> QED
  BY <1>1, <1>4, <1>5

(* Where no password is written the histories stay.                        *)
LEMMA HistoriesStay ==
  ASSUME IInv, password' = password, inForce' = inForce,
         NEW s \in Slots, HistoryOK(req'[s], inForce[s]),
         \A t \in Slots : t # s => req'[t] = req[t]
  PROVE  \A t \in Slots : HistoryOK(req[t], inForce[t])'
<1>1. \A t \in Slots : HistoryOK(req'[t], inForce[t])
  BY RequestFields
<1> QED
  BY <1>1 DEF HistoryOK

(* Where one is written, each request of its account has seen it.          *)
LEMMA HistoriesGrow ==
  ASSUME IInv, NEW e \in Emails, NEW p \in Passwords, WritePassword(e, p),
         NEW s \in Slots, req'[s].user \in {req[s].user, None},
         req'[s].at \notin {"login.answer", "profile.write"},
         \A t \in Slots : t # s => req'[t] = req[t]
  PROVE  /\ \A t \in Slots : HistoryOK(req[t], inForce[t])'
         /\ inForce' \in [Slots -> SUBSET Passwords]
         /\ password' \in [Emails -> Passwords \cup {None}]
         /\ \A f \in Emails : password'[f] = IF f = e THEN p ELSE password[f]
<1>1. /\ \A f \in Emails : password'[f] = IF f = e THEN p ELSE password[f]
      /\ password' \in [Emails -> Passwords \cup {None}]
      /\ inForce' = [t \in Slots |->
            IF req[t].user = e THEN inForce[t] \cup {p} ELSE inForce[t]]
  BY DEF WritePassword, IInv, TypeOK
<1>2. \A t \in Slots : inForce[t] \in SUBSET Passwords
  BY RequestFields
<1>3. inForce' \in [Slots -> SUBSET Passwords]
  BY <1>1, <1>2
<1>4. ASSUME NEW t \in Slots PROVE HistoryOK(req[t], inForce[t])'
  <2>1. HistoryOK(req[t], inForce[t])
    BY RequestFields
  <2>2. req'[t].user \in Emails => req'[t].user = req[t].user
    BY AccountsAssumption
  <2>3. inForce'[t] = IF req[t].user = e THEN inForce[t] \cup {p} ELSE inForce[t]
    BY <1>1
  <2>4. req'[t].user \in Emails /\ password'[req'[t].user] # None
          => password'[req'[t].user] \in inForce'[t]
    BY <1>1, <2>1, <2>2, <2>3 DEF HistoryOK
  <2>5. req'[t].at \in {"login.answer", "profile.write"} => req'[t].given \in inForce'[t]
    BY <2>1, <2>3 DEF HistoryOK
  <2> QED
    BY <2>4, <2>5 DEF HistoryOK
<1> QED
  BY <1>1, <1>3, <1>4

(* Where no user is created and no registration answered: one that ends    *)
(* otherwise has left a broken account.                                    *)
LEMMA OwnersStay ==
  ASSUME IInv, Evolves, welcomed' = welcomed,
         \A e \in Emails : password[e] = None => password'[e] = None,
         \A t \in Slots, e \in Emails : Registers(req'[t], e) => Registers(req[t], e),
         \A t \in Slots, e \in Emails :
           Registers(req[t], e) => Registers(req'[t], e) \/ e \in broken'
  PROVE  (\A e \in Emails : OwnerOK(e)') /\ CompleteOrBroken'
<1>1. ASSUME NEW e \in Emails PROVE OwnerOK(e)'
  <2>1. OwnerOK(e)
    BY DEF IInv
  <2> QED
    BY <2>1 DEF OwnerOK, Evolves
<1>2. CompleteOrBroken'
  <2> SUFFICES ASSUME NEW e \in Emails, password'[e] # None
               PROVE  \/ customer'[e] # None /\ e \in verifying'
                      \/ e \in broken'
                      \/ \E s \in Slots : Registers(req'[s], e)
    BY DEF CompleteOrBroken, Registers
  <2>1. \/ customer[e] # None /\ e \in verifying
        \/ e \in broken
        \/ \E s \in Slots : Registers(req[s], e)
    BY DEF IInv, CompleteOrBroken, Registers
  <2> QED
    BY <2>1 DEF Evolves
<1> QED
  BY <1>1, <1>2

(* The types of all but the requests, the passwords and their histories.   *)
TablesOK ==
  /\ now \in Nat /\ arrived \in Nat /\ faults \in Nat
  /\ customer \in [Emails -> {"stripe", "free", None}]
  /\ verifying \subseteq Emails /\ broken \subseteq Emails
  /\ reset \in [Resets -> ResetRow \cup {None}]
  /\ jwts \subseteq Jwt
  /\ welcomed \in [Emails -> Nat]
  /\ spent \subseteq Resets

(* Adds up what the lemmas above say of the parts.                         *)
LEMMA PartsMake ==
  ASSUME TablesOK', (req \in [Slots -> Request])', inForce' \in [Slots -> SUBSET Passwords],
         password' \in [Emails -> Passwords \cup {None}],
         \A t \in Resets : RowOK(t)', \A t \in Slots : RequestOK(req[t])',
         \A t \in Slots : HistoryOK(req[t], inForce[t])',
         \A e \in Emails : OwnerOK(e)', CompleteOrBroken'
  PROVE  IInv'
<1>1. TypeOK'
  BY DEF TablesOK, TypeOK, Request
<1> QED
  BY <1>1 DEF IInv

(* A request writes a row or signs a token, and goes on or is answered.    *)
LEMMA TableStep ==
  ASSUME IInv, Evolves, TablesOK', UNCHANGED <<password, inForce, welcomed>>,
         \A t \in Resets : RowOK(t)',
         NEW s \in Slots, NEW r, (r \in Request)', RequestOK(r)', HistoryOK(r, inForce[s]),
         req' = [req EXCEPT ![s] = r],
         \A e \in Emails : Registers(r, e) => Registers(req[s], e),
         \A e \in Emails : Registers(req[s], e) => Registers(r, e) \/ e \in broken'
  PROVE  IInv'
<1>1. /\ (req \in [Slots -> Request])' /\ req'[s] = r
      /\ \A t \in Slots : t # s => req'[t] = req[t]
      /\ \A t \in Slots : RequestOK(req[t])'
  BY RequestsMove
<1>2. \A t \in Slots : HistoryOK(req[t], inForce[t])'
  BY <1>1, HistoriesStay
<1>3. /\ \A t \in Slots, e \in Emails : Registers(req'[t], e) => Registers(req[t], e)
      /\ \A t \in Slots, e \in Emails :
           Registers(req[t], e) => Registers(req'[t], e) \/ e \in broken'
  BY <1>1
<1>4. (\A e \in Emails : OwnerOK(e)') /\ CompleteOrBroken'
  BY <1>3, OwnersStay
<1>5. /\ inForce' \in [Slots -> SUBSET Passwords]
      /\ password' \in [Emails -> Passwords \cup {None}]
  BY DEF IInv, TypeOK
<1> QED
  BY <1>1, <1>2, <1>4, <1>5, PartsMake

(* Rows that stay, with the users they belong to.                          *)
LEMMA RowsStay ==
  ASSUME IInv, Evolves, reset' = reset, spent' = spent
  PROVE  \A t \in Resets : RowOK(t)'
<1> SUFFICES ASSUME NEW t \in Resets PROVE RowOK(t)'
  OBVIOUS
<1>1. RowOK(t) /\ (reset[t] # None => reset[t].user \in Emails)
  BY DEF IInv, TypeOK, ResetRow
<1> QED
  BY <1>1 DEF RowOK, Evolves

(* The subscription of a new user.                                         *)
LEMMA RegisterSubscribeStep ==
  ASSUME IInv, NEW s \in Slots, RegisterSubscribe(s)
  PROVE  IInv'
<1>1. /\ req[s] \in Request /\ RequestOK(req[s]) /\ HistoryOK(req[s], inForce[s])
      /\ req[s].at = "register.subscribe" /\ req[s].user \in Emails
      /\ req[s].seen \in {"stripe", "free"} /\ TypeOK
  BY RequestFields DEF RegisterSubscribe, RequestOK, IInv
<1>2. PICK r \in Request :
        Moved(r, req[s], "register.verify") /\ req' = [req EXCEPT ![s] = r]
  BY AwaitIs DEF RegisterSubscribe, Steps, Registering
<1>3. /\ customer' = [customer EXCEPT ![req[s].user] = req[s].seen]
      /\ UNCHANGED <<now, arrived, faults, welcomed, broken, password, verifying, reset, jwts,
                     inForce, spent>>
  BY DEF RegisterSubscribe, Quiet
<1>4. customer' \in [Emails -> {"stripe", "free", None}] /\ customer'[req[s].user] # None
  BY <1>1, <1>3, AccountsAssumption DEF TypeOK
<1>5. TablesOK'
  BY <1>1, <1>3, <1>4 DEF TablesOK, TypeOK
<1>6. Evolves
  BY <1>1, <1>3, AccountsAssumption DEF Evolves, TypeOK
<1>7. (r \in Request)' /\ RequestOK(r)'
  <2>1. password[req[s].user] # None
    BY <1>1 DEF RequestOK, Registering
  <2> QED
    BY <1>1, <1>2, <1>3, <1>4, <2>1 DEF Request, Moved, RequestOK, Registering
<1>8. HistoryOK(r, inForce[s])
  BY <1>1, <1>2 DEF HistoryOK, Moved
<1>9. \A e \in Emails : Registers(r, e) <=> Registers(req[s], e)
  BY <1>1, <1>2 DEF Registers, Registering, Moved
<1> QED
  BY <1>2, <1>3, <1>5, <1>6, <1>7, <1>8, <1>9, RowsStay, TableStep

(* The token that verifies the address of a new user.                      *)
LEMMA RegisterVerifyStep ==
  ASSUME IInv, NEW s \in Slots, RegisterVerify(s)
  PROVE  IInv'
<1>1. /\ req[s] \in Request /\ RequestOK(req[s]) /\ HistoryOK(req[s], inForce[s])
      /\ req[s].at = "register.verify" /\ req[s].user \in Emails /\ TypeOK
  BY RequestFields DEF RegisterVerify, RequestOK, IInv
<1>2. PICK r \in Request :
        Moved(r, req[s], "register.answer") /\ req' = [req EXCEPT ![s] = r]
  BY AwaitIs DEF RegisterVerify, Steps, Registering
<1>3. /\ verifying' = verifying \cup {req[s].user}
      /\ UNCHANGED <<now, arrived, faults, welcomed, broken, password, customer, reset, jwts,
                     inForce, spent>>
  BY DEF RegisterVerify, Quiet
<1>4. TablesOK'
  BY <1>1, <1>3 DEF TablesOK, TypeOK
<1>5. Evolves
  BY <1>1, <1>3 DEF Evolves, TypeOK
<1>6. (r \in Request)' /\ RequestOK(r)'
  <2>1. password[req[s].user] # None /\ customer[req[s].user] # None
    BY <1>1 DEF RequestOK, Registering
  <2> QED
    BY <1>1, <1>2, <1>3, <2>1 DEF Request, Moved, RequestOK, Registering
<1>7. HistoryOK(r, inForce[s])
  BY <1>1, <1>2 DEF HistoryOK, Moved
<1>8. \A e \in Emails : Registers(r, e) <=> Registers(req[s], e)
  BY <1>1, <1>2 DEF Registers, Registering, Moved
<1> QED
  BY <1>2, <1>3, <1>4, <1>5, <1>6, <1>7, <1>8, RowsStay, TableStep

(* The tokens of a login or a refresh.                                     *)
LEMMA IssueTokensStep ==
  ASSUME IInv, NEW s \in Slots, IssueTokens(s), req[s].at \notin Registering,
         req[s].at # "idle"
  PROVE  IInv'
<1>1. RequestOK(req[s]) /\ req[s].user \in Emails /\ TypeOK
  BY RequestFields DEF RequestOK, IInv
<1>2. /\ jwts' = jwts \cup CreateTokens(req[s].user) /\ req' = [req EXCEPT ![s] = Idle]
      /\ UNCHANGED <<now, arrived, faults, welcomed, broken, password, customer, verifying,
                     reset, inForce, spent>>
  BY DEF IssueTokens, Answer, Quiet
<1>3. CreateTokens(req[s].user) \subseteq Jwt
  BY <1>1, AccountsAssumption DEF CreateTokens, Jwt, TypeOK
<1>4. TablesOK' /\ Evolves
  BY <1>1, <1>2, <1>3 DEF TablesOK, TypeOK, Evolves
<1>5. (Idle \in Request)' /\ RequestOK(Idle)' /\ HistoryOK(Idle, inForce[s])
  BY <1>4, IdleOK, RequestStable
<1>6. \A e \in Emails : ~ Registers(Idle, e) /\ ~ Registers(req[s], e)
  BY IdleOK DEF Registers
<1> QED
  BY <1>2, <1>4, <1>5, <1>6, RowsStay, TableStep

(* A reset token is mailed to a user.                                      *)
LEMMA ForgotCreateStep ==
  ASSUME IInv, NEW s \in Slots, ForgotCreate(s)
  PROVE  IInv'
<1>1. /\ RequestOK(req[s]) /\ req[s].user \in Emails /\ password[req[s].user] # None /\ TypeOK
      /\ req[s].at \notin Registering
  BY RequestFields DEF ForgotCreate, RequestOK, Registering, IInv
<1>2. PICK t \in Resets :
        /\ reset[t] = None
        /\ reset' = [reset EXCEPT ![t] =
             [user |-> req[s].user, expires |-> now + ResetTTL, used |-> FALSE]]
  BY DEF ForgotCreate
<1>3. /\ req' = [req EXCEPT ![s] = Idle]
      /\ UNCHANGED <<now, arrived, faults, welcomed, broken, password, customer, verifying,
                     jwts, inForce, spent>>
  BY DEF ForgotCreate, Answer, Quiet
<1> DEFINE mailed == [user |-> req[s].user, expires |-> now + ResetTTL, used |-> FALSE]
<1>4. mailed \in ResetRow /\ mailed # None /\ mailed.user = req[s].user
  <2>1. now + ResetTTL \in Nat
    BY <1>1, AccountsAssumption DEF TypeOK
  <2>2. mailed \in ResetRow /\ mailed.user = req[s].user
    BY <1>1, <2>1 DEF ResetRow
  <2>3. None \notin ResetRow
    BY AccountsAssumption DEF ResetRow
  <2> HIDE DEF mailed
  <2> QED
    BY <2>2, <2>3
<1> HIDE DEF mailed
<1>5. /\ reset' \in [Resets -> ResetRow \cup {None}] /\ reset'[t] = mailed
      /\ \A u \in Resets : u # t => reset'[u] = reset[u]
  BY <1>1, <1>2, <1>4 DEF mailed, TypeOK
<1>6. TablesOK' /\ Evolves
  BY <1>1, <1>2, <1>3, <1>5 DEF TablesOK, TypeOK, Evolves
<1>7. ASSUME NEW u \in Resets PROVE RowOK(u)'
  <2>1. RowOK(u)
    BY DEF IInv
  <2> QED
    BY <1>1, <1>2, <1>3, <1>4, <1>5, <2>1 DEF RowOK
<1>8. (Idle \in Request)' /\ RequestOK(Idle)' /\ HistoryOK(Idle, inForce[s])
  BY <1>6, IdleOK, RequestStable
<1>9. \A e \in Emails : ~ Registers(Idle, e) /\ ~ Registers(req[s], e)
  BY <1>1, IdleOK DEF Registers
<1> QED
  BY <1>3, <1>6, <1>7, <1>8, <1>9, TableStep

(* A spent token says so before its request is answered.                   *)
LEMMA ResetWriteStep ==
  ASSUME IInv, NEW s \in Slots, ResetWrite(s)
  PROVE  IInv'
<1> DEFINE t == req[s].token
           e == reset[t].user
           p == req[s].new
<1>1. /\ req[s] \in Request /\ RequestOK(req[s]) /\ TypeOK
      /\ req[s].at = "reset.write"
  BY RequestFields DEF ResetWrite, IInv
<1>2. /\ t \in Resets /\ reset[t] # None /\ reset[t] \in ResetRow
      /\ e \in Emails /\ p \in Passwords /\ password[e] # None
  <2>1. t \in Resets /\ reset[t] # None /\ p \in Passwords
    BY <1>1 DEF RequestOK
  <2>2. reset[t] \in ResetRow /\ RowOK(t)
    BY <1>1, <2>1 DEF TypeOK, IInv
  <2> QED
    BY <2>1, <2>2 DEF ResetRow, RowOK
<1>3. /\ WritePassword(e, p) /\ req' = [req EXCEPT ![s] = Idle]
      /\ reset' = [reset EXCEPT ![t].used = TRUE] /\ spent' = spent \cup {t}
      /\ UNCHANGED <<now, arrived, faults, welcomed, broken, customer, verifying, jwts>>
  BY DEF ResetWrite, Answer, Quiet
<1> DEFINE mailed == [reset[t] EXCEPT !.used = TRUE]
<1>4. /\ mailed \in ResetRow /\ mailed.used /\ mailed.user = e /\ mailed.expires = reset[t].expires
      /\ mailed # None
  <2>1. /\ mailed \in ResetRow /\ mailed.used /\ mailed.user = e /\ mailed.expires = reset[t].expires
    BY <1>2 DEF ResetRow
  <2>2. None \notin ResetRow
    BY AccountsAssumption DEF ResetRow
  <2> HIDE DEF mailed
  <2> QED
    BY <2>1, <2>2
<1>5. reset' = [reset EXCEPT ![t] = mailed]
  BY <1>1, <1>2, <1>3 DEF TypeOK
<1> HIDE DEF mailed
<1>6. /\ reset' \in [Resets -> ResetRow \cup {None}] /\ reset'[t] = mailed
      /\ \A u \in Resets : u # t => reset'[u] = reset[u]
  BY <1>1, <1>2, <1>4, <1>5 DEF TypeOK
<1> HIDE DEF t, e, p
<1>7. password' = [password EXCEPT ![e] = p] /\ p # None
  BY <1>2, <1>3, AccountsAssumption DEF WritePassword
<1>8. TablesOK' /\ Evolves
  <2>1. TablesOK'
    BY <1>1, <1>2, <1>3, <1>6 DEF TablesOK, TypeOK
  <2>2. \A f \in Emails : password[f] # None => password'[f] # None
    BY <1>1, <1>2, <1>7 DEF TypeOK
  <2>3. ASSUME NEW u \in Resets, reset[u] # None
        PROVE  reset'[u] # None /\ reset'[u].user = reset[u].user
                                /\ reset'[u].expires = reset[u].expires
    BY <1>4, <1>6, <2>3 DEF e
  <2>4. now \in Nat
    BY <1>1 DEF TypeOK
  <2>5. Evolves
    BY <1>3, <2>2, <2>3, <2>4 DEF Evolves
  <2> QED
    BY <2>1, <2>5
<1>9. (Idle \in Request)' /\ RequestOK(Idle)'
  BY <1>8, IdleOK, RequestStable
<1>10. /\ (req \in [Slots -> Request])' /\ req'[s] = Idle
       /\ \A u \in Slots : u # s => req'[u] = req[u]
       /\ \A u \in Slots : RequestOK(req[u])'
  BY <1>3, <1>8, <1>9, RequestsMove
<1>11. /\ \A u \in Slots : HistoryOK(req[u], inForce[u])'
       /\ inForce' \in [Slots -> SUBSET Passwords]
       /\ password' \in [Emails -> Passwords \cup {None}]
  BY <1>2, <1>3, <1>10, HistoriesGrow DEF Idle
<1>12. ASSUME NEW u \in Resets PROVE RowOK(u)'
  <2>1. RowOK(u) /\ (reset[u] # None => reset[u].user \in Emails)
    BY <1>1 DEF IInv, TypeOK, ResetRow
  <2> QED
    BY <1>2, <1>3, <1>4, <1>6, <1>8, <2>1 DEF RowOK, Evolves
<1>13. (\A f \in Emails : OwnerOK(f)') /\ CompleteOrBroken'
  <2>1. \A f \in Emails : password[f] = None => password'[f] = None
    BY <1>1, <1>2, <1>7 DEF TypeOK
  <2>2. /\ \A u \in Slots, f \in Emails : Registers(req'[u], f) => Registers(req[u], f)
        /\ \A u \in Slots, f \in Emails : Registers(req[u], f) => Registers(req'[u], f)
    BY <1>1, <1>10 DEF Registers, Registering, Idle
  <2> QED
    BY <1>3, <1>8, <2>1, <2>2, OwnersStay
<1> QED
  BY <1>8, <1>10, <1>11, <1>12, <1>13, PartsMake

(* A new password, after the old one was proved.                           *)
LEMMA ProfileWriteStep ==
  ASSUME IInv, NEW s \in Slots, ProfileWrite(s)
  PROVE  IInv'
<1> DEFINE e == req[s].user
           p == req[s].new
<1>1. /\ req[s] \in Request /\ RequestOK(req[s]) /\ TypeOK
      /\ req[s].at = "profile.write"
  BY RequestFields DEF ProfileWrite, IInv
<1>2. e \in Emails /\ p \in Passwords /\ password[e] # None
  BY <1>1 DEF RequestOK
<1>3. /\ WritePassword(e, p) /\ req' = [req EXCEPT ![s] = Idle]
      /\ UNCHANGED <<now, arrived, faults, welcomed, broken, customer, verifying, reset, jwts,
                     spent>>
  BY DEF ProfileWrite, Answer, Quiet
<1> HIDE DEF e, p
<1>4. password' = [password EXCEPT ![e] = p] /\ p # None
  BY <1>2, <1>3, AccountsAssumption DEF WritePassword
<1>5. TablesOK' /\ Evolves
  BY <1>1, <1>2, <1>3, <1>4 DEF TablesOK, TypeOK, Evolves
<1>6. (Idle \in Request)' /\ RequestOK(Idle)'
  BY <1>5, IdleOK, RequestStable
<1>7. /\ (req \in [Slots -> Request])' /\ req'[s] = Idle
      /\ \A u \in Slots : u # s => req'[u] = req[u]
      /\ \A u \in Slots : RequestOK(req[u])'
  BY <1>3, <1>5, <1>6, RequestsMove
<1>8. /\ \A u \in Slots : HistoryOK(req[u], inForce[u])'
      /\ inForce' \in [Slots -> SUBSET Passwords]
      /\ password' \in [Emails -> Passwords \cup {None}]
  BY <1>2, <1>3, <1>7, HistoriesGrow DEF Idle
<1>9. (\A f \in Emails : OwnerOK(f)') /\ CompleteOrBroken'
  <2>1. \A f \in Emails : password[f] = None => password'[f] = None
    BY <1>1, <1>2, <1>4 DEF TypeOK
  <2>2. /\ \A u \in Slots, f \in Emails : Registers(req'[u], f) => Registers(req[u], f)
        /\ \A u \in Slots, f \in Emails : Registers(req[u], f) => Registers(req'[u], f)
    BY <1>1, <1>7 DEF Registers, Registering, Idle
  <2> QED
    BY <1>3, <1>5, <2>1, <2>2, OwnersStay
<1> QED
  BY <1>3, <1>5, <1>7, <1>8, <1>9, RowsStay, PartsMake

(* The user is created by the one request that finds the address free.     *)
LEMMA RegisterCreateStep ==
  ASSUME IInv, NEW s \in Slots, RegisterCreate(s)
  PROVE  IInv'
<1> DEFINE e == req[s].user
           p == req[s].given
<1>1. /\ req[s] \in Request /\ RequestOK(req[s]) /\ TypeOK
      /\ req[s].at = "register.create" /\ e \in Emails /\ p \in Passwords
  BY RequestFields DEF RegisterCreate, RequestOK, IInv
<1>2. UNCHANGED <<now, arrived, faults, welcomed, broken, customer, verifying, reset, jwts,
                  spent>>
  BY DEF RegisterCreate, Quiet
<1>3. CASE password[e] # None
  <2>1. Answer(s) /\ Reads
    BY <1>3 DEF RegisterCreate, Reads, tables
  <2> QED
    BY <1>1, <2>1, AnswerAfterReads DEF Registering
<1>4. CASE password[e] = None
  <2>1. WritePassword(e, p) /\ Await(s, "register.customer")
    BY <1>4 DEF RegisterCreate
  <2>2. PICK r \in Request :
          Moved(r, req[s], "register.customer") /\ req' = [req EXCEPT ![s] = r]
    BY <2>1, AwaitIs DEF Steps, Registering
  <2>3. r.at = "register.customer" /\ r.user = e
    BY <2>2 DEF Moved
  <2> HIDE DEF e, p
  <2>4. password' = [password EXCEPT ![e] = p] /\ p # None
    BY <1>1, <2>1, AccountsAssumption DEF WritePassword
  <2>5. TablesOK' /\ Evolves
    BY <1>1, <1>2, <2>4 DEF TablesOK, TypeOK, Evolves
  <2>6. password'[e] # None
    BY <1>1, <2>4 DEF TypeOK
  <2>7. (r \in Request)' /\ RequestOK(r)'
    BY <1>1, <1>2, <2>2, <2>3, <2>6 DEF Request, RequestOK, Registering
  <2>8. /\ (req \in [Slots -> Request])' /\ req'[s] = r
        /\ \A u \in Slots : u # s => req'[u] = req[u]
        /\ \A u \in Slots : RequestOK(req[u])'
    BY <2>2, <2>5, <2>7, RequestsMove
  <2>9. /\ \A u \in Slots : HistoryOK(req[u], inForce[u])'
        /\ inForce' \in [Slots -> SUBSET Passwords]
        /\ password' \in [Emails -> Passwords \cup {None}]
        /\ \A f \in Emails : password'[f] = IF f = e THEN p ELSE password[f]
    <3>1. req'[s].user \in {req[s].user, None}
      BY <2>3, <2>8 DEF e
    <3> QED
      BY <1>1, <2>1, <2>3, <2>8, <3>1, HistoriesGrow
  <2>10. /\ \A u \in Slots : ~ Registers(req[u], e)
         /\ welcomed[e] = 0
    <3>1. \A u \in Slots : Registers(req[u], e) => password[e] # None
      BY RequestFields DEF Registers, RequestOK
    <3>2. OwnerOK(e)
      BY <1>1 DEF IInv
    <3> QED
      BY <1>4, <3>1, <3>2 DEF OwnerOK, e
  <2>11. ASSUME NEW f \in Emails PROVE OwnerOK(f)'
    <3>1. OwnerOK(f)
      BY DEF IInv
    <3>2. CASE f = e
      <4>1. \A u \in Slots : Registers(req'[u], e) => u = s
        BY <2>8, <2>10
      <4> QED
        BY <1>2, <2>6, <2>10, <3>2, <4>1 DEF OwnerOK
    <3>3. CASE f # e
      <4>1. \A u \in Slots : Registers(req'[u], f) => Registers(req[u], f)
        BY <2>3, <2>8, <3>3 DEF Registers
      <4> QED
        BY <1>2, <2>9, <3>1, <3>3, <4>1 DEF OwnerOK
    <3> QED
      BY <3>2, <3>3
  <2>12. CompleteOrBroken'
    <3> SUFFICES ASSUME NEW f \in Emails, password'[f] # None
                 PROVE  \/ customer'[f] # None /\ f \in verifying'
                        \/ f \in broken'
                        \/ \E u \in Slots : Registers(req'[u], f)
      BY DEF CompleteOrBroken, Registers
    <3>1. CASE f = e
      <4>1. Registers(req'[s], f)
        BY <2>3, <2>8, <3>1 DEF Registers, Registering
      <4> QED
        BY <4>1
    <3>2. CASE f # e
      <4>1. \/ customer[f] # None /\ f \in verifying
            \/ f \in broken
            \/ \E u \in Slots : Registers(req[u], f)
        BY <2>9, <3>2 DEF IInv, CompleteOrBroken, Registers
      <4>2. \A u \in Slots : Registers(req[u], f) => Registers(req'[u], f)
        BY <2>8, <3>2 DEF Registers, e
      <4> QED
        BY <1>2, <4>1, <4>2
    <3> QED
      BY <3>1, <3>2
  <2> QED
    BY <1>2, <2>5, <2>8, <2>9, <2>11, <2>12, RowsStay, PartsMake
<1> QED
  BY <1>3, <1>4

(* A registration ends with an account that is whole.                      *)
LEMMA RegisterAnswerStep ==
  ASSUME IInv, NEW s \in Slots, RegisterAnswer(s)
  PROVE  IInv'
<1> DEFINE e == req[s].user
<1>1. /\ RequestOK(req[s]) /\ TypeOK /\ e \in Emails
      /\ Registers(req[s], e) /\ password[e] # None
      /\ customer[e] # None /\ e \in verifying
  BY RequestFields DEF RegisterAnswer, RequestOK, IInv, Registers, Registering
<1>2. /\ jwts' = jwts \cup CreateTokens(e) /\ req' = [req EXCEPT ![s] = Idle]
      /\ welcomed' = [welcomed EXCEPT ![e] = @ + 1]
      /\ UNCHANGED <<now, arrived, faults, broken, password, customer, verifying, reset,
                     inForce, spent>>
  BY DEF RegisterAnswer, Answer
<1>3. CreateTokens(e) \subseteq Jwt
  BY <1>1, AccountsAssumption DEF CreateTokens, Jwt, TypeOK
<1>4. /\ welcomed[e] = 0 /\ \A u \in Slots : Registers(req[u], e) => u = s
      /\ welcomed' \in [Emails -> Nat]
      /\ \A f \in Emails : welcomed'[f] = IF f = e THEN 1 ELSE welcomed[f]
  <2>1. OwnerOK(e)
    BY <1>1 DEF IInv
  <2>2. welcomed[e] = 0 /\ \A u \in Slots : Registers(req[u], e) => u = s
    BY <1>1, <2>1 DEF OwnerOK
  <2> QED
    BY <1>1, <1>2, <2>2 DEF TypeOK
<1>5. TablesOK' /\ Evolves
  BY <1>1, <1>2, <1>3, <1>4 DEF TablesOK, TypeOK, Evolves
<1>6. (Idle \in Request)' /\ RequestOK(Idle)' /\ HistoryOK(Idle, inForce[s])
  BY <1>5, IdleOK, RequestStable
<1>7. /\ (req \in [Slots -> Request])' /\ req'[s] = Idle
      /\ \A u \in Slots : u # s => req'[u] = req[u]
      /\ \A u \in Slots : RequestOK(req[u])'
  BY <1>2, <1>5, <1>6, RequestsMove
<1>8. \A u \in Slots : HistoryOK(req[u], inForce[u])'
  BY <1>2, <1>6, <1>7, HistoriesStay
<1>9. \A u \in Slots, f \in Emails :
        Registers(req'[u], f) => u # s /\ f # e /\ Registers(req[u], f)
  <2>1. \A f \in Emails : ~ Registers(Idle, f)
    BY IdleOK
  <2> QED
    BY <1>4, <1>7, <2>1
<1>10. ASSUME NEW f \in Emails PROVE OwnerOK(f)'
  <2>1. OwnerOK(f)
    BY DEF IInv
  <2>2. password'[f] = password[f]
    BY <1>2
  <2>3. CASE f = e
    BY <1>1, <1>4, <1>9, <2>2, <2>3 DEF OwnerOK
  <2>4. CASE f # e
    BY <1>4, <1>9, <2>1, <2>2, <2>4 DEF OwnerOK
  <2> QED
    BY <2>3, <2>4
<1>11. CompleteOrBroken'
  <2> SUFFICES ASSUME NEW f \in Emails, password'[f] # None
               PROVE  \/ customer'[f] # None /\ f \in verifying'
                      \/ f \in broken'
                      \/ \E u \in Slots : Registers(req'[u], f)
    BY DEF CompleteOrBroken, Registers
  <2>1. CASE f = e
    BY <1>1, <1>2, <2>1
  <2>2. CASE f # e
    <3>1. \/ customer[f] # None /\ f \in verifying
          \/ f \in broken
          \/ \E u \in Slots : Registers(req[u], f)
      BY <1>2 DEF IInv, CompleteOrBroken, Registers
    <3>2. \A u \in Slots : Registers(req[u], f) => Registers(req'[u], f)
      BY <1>7, <2>2 DEF Registers
    <3> QED
      BY <1>2, <3>1, <3>2
  <2> QED
    BY <2>1, <2>2
<1>12. inForce' \in [Slots -> SUBSET Passwords] /\ password' \in [Emails -> Passwords \cup {None}]
  BY <1>1, <1>2 DEF TypeOK
<1> QED
  BY <1>2, <1>5, <1>7, <1>8, <1>10, <1>11, <1>12, RowsStay, PartsMake

(* An await rejects: a registration leaves a broken account behind.        *)
LEMMA RejectsStep ==
  ASSUME IInv, NEW s \in Slots, Rejects(s)
  PROVE  IInv'
<1>1. /\ RequestOK(req[s]) /\ TypeOK /\ req[s].user \in Emails
  BY RequestFields DEF Rejects, RequestOK, IInv
<1>2. /\ broken' = IF req[s].at \in Registering THEN broken \cup {req[s].user} ELSE broken
      /\ faults' = faults + 1 /\ req' = [req EXCEPT ![s] = Idle]
      /\ UNCHANGED <<now, arrived, welcomed, password, customer, verifying, reset, jwts,
                     inForce, spent>>
  BY DEF Rejects, Answer, tables
<1>3. TablesOK' /\ Evolves
  BY <1>1, <1>2 DEF TablesOK, TypeOK, Evolves
<1>4. (Idle \in Request)' /\ RequestOK(Idle)' /\ HistoryOK(Idle, inForce[s])
  BY <1>3, IdleOK, RequestStable
<1>5. \A e \in Emails :
        ~ Registers(Idle, e) /\ (Registers(req[s], e) => e \in broken')
  BY <1>2, IdleOK DEF Registers
<1> QED
  BY <1>2, <1>3, <1>4, <1>5, RowsStay, TableStep

(* The process ends: so do all registrations.                              *)
LEMMA RestartStep ==
  ASSUME IInv, Restart
  PROVE  IInv'
<1>1. TypeOK /\ \A t \in Slots : RequestOK(req[t])
  BY RequestFields DEF IInv
<1>2. /\ broken' = broken \cup {req[s].user : s \in {r \in Slots : req[r].at \in Registering}}
      /\ faults' = faults + 1 /\ req' = [t \in Slots |-> Idle]
      /\ UNCHANGED <<now, arrived, welcomed, password, customer, verifying, reset, jwts,
                     inForce, spent>>
  BY DEF Restart, tables
<1>3. /\ broken' \subseteq Emails
      /\ \A t \in Slots, e \in Emails : Registers(req[t], e) => e \in broken'
  BY <1>1, <1>2 DEF RequestOK, Registers, Registering, TypeOK
<1>4. TablesOK' /\ Evolves
  BY <1>1, <1>2, <1>3 DEF TablesOK, TypeOK, Evolves
<1>5. (Idle \in Request)' /\ RequestOK(Idle)'
  BY <1>4, IdleOK, RequestStable
<1>6. (req \in [Slots -> Request])' /\ \A t \in Slots : RequestOK(req[t])'
  <2>1. \A t \in Slots : req'[t] = Idle
    BY <1>2
  <2> QED
    BY <1>2, <1>5, <2>1 DEF RequestOK
<1>7. \A t \in Slots : HistoryOK(req[t], inForce[t])'
  <2>1. ASSUME NEW t \in Slots PROVE HistoryOK(req[t], inForce[t])'
    <3>1. req'[t] = Idle
      BY <1>2
    <3> QED
      BY <3>1, AccountsAssumption DEF HistoryOK, Idle
  <2> QED
    BY <2>1
<1>8. (\A e \in Emails : OwnerOK(e)') /\ CompleteOrBroken'
  <2>1. \A t \in Slots, e \in Emails : ~ Registers(req'[t], e)
    BY <1>2, IdleOK
  <2> QED
    BY <1>2, <1>3, <1>4, <2>1, OwnersStay
<1>9. /\ inForce' \in [Slots -> SUBSET Passwords]
      /\ password' \in [Emails -> Passwords \cup {None}]
  BY <1>1, <1>2 DEF TypeOK
<1> QED
  BY <1>2, <1>4, <1>6, <1>7, <1>8, <1>9, RowsStay, PartsMake

(* Tokens expire.                                                          *)
LEMMA TickStep ==
  ASSUME IInv, Tick
  PROVE  IInv'
<1>1. TypeOK
  BY DEF IInv
<1>2. /\ now' = now + 1
      /\ UNCHANGED <<arrived, faults, welcomed, broken, password, customer, verifying, reset,
                     jwts, req, inForce, spent>>
  BY DEF Tick, tables
<1>3. TablesOK' /\ Evolves
  BY <1>1, <1>2 DEF TablesOK, TypeOK, Evolves
<1>4. (req \in [Slots -> Request])' /\ \A t \in Slots : RequestOK(req[t])'
  <2>1. req \in [Slots -> Request]
    BY <1>1 DEF TypeOK, Request
  <2>2. \A q \in Request : RequestOK(q) => (q \in Request') /\ RequestOK(q)'
    BY <1>3, RequestStable
  <2>3. \A t \in Slots : req[t] \in Request /\ RequestOK(req[t]) /\ req'[t] = req[t]
    BY <1>2, RequestFields
  <2> QED
    BY <1>2, <2>1, <2>2, <2>3 DEF RequestOK
<1>5. \A t \in Slots : HistoryOK(req[t], inForce[t])'
  BY <1>2, RequestFields DEF HistoryOK
<1>6. (\A e \in Emails : OwnerOK(e)') /\ CompleteOrBroken'
  BY <1>2, <1>3, OwnersStay
<1>7. /\ inForce' \in [Slots -> SUBSET Passwords]
      /\ password' \in [Emails -> Passwords \cup {None}]
  BY <1>1, <1>2 DEF TypeOK
<1> QED
  BY <1>2, <1>3, <1>4, <1>5, <1>6, <1>7, RowsStay, PartsMake

(***************************************************************************)
(* The invariant holds throughout.                                         *)
(***************************************************************************)

(* The server starts with accounts that are whole and no request.          *)
LEMMA InitIInv == Init => IInv
<1> SUFFICES ASSUME Init PROVE IInv
  OBVIOUS
<1>1. PICK old \in SUBSET Emails, p \in Passwords :
        /\ password = [e \in Emails |-> IF e \in old THEN p ELSE None]
        /\ customer = [e \in Emails |-> IF e \in old THEN "stripe" ELSE None]
        /\ verifying = old
        /\ welcomed = [e \in Emails |-> IF e \in old THEN 1 ELSE 0]
        /\ jwts = UNION {CreateTokens(e) : e \in old}
  BY DEF Init
<1>2. /\ now = 0 /\ reset = [t \in Resets |-> None] /\ req = [s \in Slots |-> Idle]
      /\ arrived = 0 /\ faults = 0 /\ inForce = [s \in Slots |-> {}]
      /\ broken = {} /\ spent = {}
  BY DEF Init
<1>3. jwts \subseteq Jwt
  <2>1. AccessTTL \in Nat /\ RefreshTTL \in Nat
    BY AccountsAssumption
  <2>2. \A e \in Emails : CreateTokens(e) \subseteq Jwt
    BY <1>2, <2>1 DEF CreateTokens, Jwt
  <2> QED
    BY <1>1, <2>2
<1>4. \A s \in Slots : req[s] = Idle /\ inForce[s] = {}
  BY <1>2
<1>5. TypeOK
  <2>1. req \in [Slots -> Request]
    BY <1>2, IdleOK
  <2> QED
    BY <1>1, <1>2, <1>3, <2>1 DEF TypeOK, Request
<1>6. \A t \in Resets : RowOK(t)
  BY <1>2 DEF RowOK
<1>7. \A s \in Slots : RequestOK(req[s]) /\ HistoryOK(req[s], inForce[s])
  BY <1>4, IdleOK
<1>8. \A e \in Emails : OwnerOK(e)
  BY <1>1, <1>4, IdleOK, AccountsAssumption DEF OwnerOK
<1>9. CompleteOrBroken
  BY <1>1, AccountsAssumption DEF CompleteOrBroken
<1> QED
  BY <1>5, <1>6, <1>7, <1>8, <1>9 DEF IInv

(* Every step of the server keeps it.                                      *)
LEMMA NextIInv == IInv /\ [Next]_vars => IInv'
<1> SUFFICES ASSUME IInv, [Next]_vars PROVE IInv'
  OBVIOUS
<1>1. CASE Tick
  BY <1>1, TickStep
<1>2. CASE Restart
  BY <1>2, RestartStep
<1>3. ASSUME NEW s \in Slots, Arrives(s) PROVE IInv'
  BY <1>3, ArrivesStep
<1>4. ASSUME NEW s \in Slots, Proceeds(s) PROVE IInv'
  <2>1. CASE Looks(s)
    BY <2>1, LooksStep
  <2>2. CASE LoginAnswer(s) \/ RefreshAnswer(s)
    BY <2>2, IssueTokensStep DEF LoginAnswer, RefreshAnswer, Registering
  <2> QED
    BY <1>4, <2>1, <2>2, RegisterCreateStep, RegisterSubscribeStep, RegisterVerifyStep,
       RegisterAnswerStep, ForgotCreateStep, ResetWriteStep, ProfileWriteStep, RejectsStep
       DEF Proceeds, Looks
<1>5. CASE UNCHANGED vars
  <2>1. /\ UNCHANGED <<now, arrived, faults, welcomed, broken, password, customer, verifying,
                       reset, jwts, req, inForce, spent>>
    BY <1>5 DEF vars, tables
  <2>2. /\ TypeOK' /\ CompleteOrBroken'
        /\ \A t \in Resets : RowOK(t)'
        /\ \A s \in Slots : (RequestOK(req[s]) /\ HistoryOK(req[s], inForce[s]))'
        /\ \A e \in Emails : OwnerOK(e)'
    BY <2>1 DEF IInv, TypeOK, CompleteOrBroken, RowOK, RequestOK, HistoryOK, OwnerOK,
       Registers
  <2> QED
    BY <2>2 DEF IInv
<1> QED
  BY <1>1, <1>2, <1>3, <1>4, <1>5 DEF Next

(* The invariant of the accounts.                                          *)
LEMMA InvariantHolds == Spec => []IInv
BY InitIInv, NextIInv, PTL DEF Spec

(* At most one request registers an address at a time.                     *)
LEMMA AtMostOne ==
  ASSUME NEW S, \A s, t \in S : s = t
  PROVE  Cardinality(S) \in {0, 1} /\ (Cardinality(S) = 1 => S # {})
<1>1. CASE S = {}
  BY <1>1, FS_EmptySet
<1>2. ASSUME NEW s \in S PROVE Cardinality(S) = 1
  <2>1. S = {s}
    OBVIOUS
  <2> QED
    BY <2>1, FS_Singleton
<1> QED
  BY <1>1, <1>2

(* Of the registrations of one e-mail that race, at most one is answered   *)
(* 201, and the account it makes is whole unless an await rejected or the  *)
(* process ended (routes/auth.ts:55-93).                                   *)
THEOREM AccountsSoundHolds == Spec => []AccountsSound
<1>1. IInv => AccountsSound
  <2> SUFFICES ASSUME IInv PROVE OneOwner
    BY DEF IInv, AccountsSound
  <2> SUFFICES ASSUME NEW e \in Emails
               PROVE  welcomed[e] + Cardinality({s \in Slots :
                        req[s].user = e /\ req[s].at \in Registering}) <= 1
    BY DEF OneOwner
  <2> DEFINE S == {s \in Slots : req[s].user = e /\ req[s].at \in Registering}
  <2>1. /\ welcomed[e] \in {0, 1} /\ \A s, t \in S : s = t
        /\ S # {} => welcomed[e] = 0
    BY DEF IInv, OwnerOK, Registers
  <2> HIDE DEF S
  <2>2. Cardinality(S) \in {0, 1} /\ (Cardinality(S) = 1 => S # {})
    BY <2>1, AtMostOne
  <2>3. welcomed[e] + Cardinality(S) <= 1
    BY <2>1, <2>2
  <2> QED
    BY <2>3 DEF S
<1> QED
  BY <1>1, InvariantHolds, PTL

(* A reset request that arrives after its token was used or expired never  *)
(* writes a password (routes/auth.ts:275-305).                             *)
THEOREM NoStaleResetHolds == Spec => []NoStaleReset
<1>1. IInv => NoStaleReset
  BY DEF IInv, NoStaleReset, RequestOK
<1> QED
  BY <1>1, InvariantHolds, PTL

(* Tokens are issued and passwords replaced only for a password that was   *)
(* the account's at some instant of the request, whatever other requests   *)
(* write meanwhile (routes/auth.ts:120, 337).                              *)
THEOREM PasswordProvedHolds == Spec => []PasswordProved
<1>1. IInv => PasswordProved
  BY DEF IInv, PasswordProved, HistoryOK
<1> QED
  BY <1>1, InvariantHolds, PTL

(***************************************************************************)
(* Subscriptions: the inductive invariant.                                 *)
(***************************************************************************)
Delivery(h) == hook[h].at # "idle"
EventsOf(b) == {e \in events : e.sub = b}

(* What Stripe has said of a subscription: every state it had is of one    *)
(* user, and the present one is among them.                                *)
HadOK(b) ==
  /\ stripe[b] = None => had[b] = {}
  /\ stripe[b] # None => stripe[b] \in had[b]
  /\ \A s \in had[b] : s.user = stripe[b].user

(* An event carries a state its subscription had, the one its type is for. *)
EventOK(e) ==
  /\ e.snapshot \in had[e.sub]
  /\ e.no <= stimuli
  /\ e.type = "deleted" => e.snapshot.status = "canceled"
  /\ e.type = "unpaid" => e.snapshot.status = "past_due"
  /\ e.type = "deleted" => stripe[e.sub] = e.snapshot

(* A delivery knows its event, and stores a state its subscription had.    *)
HookOK(d) ==
  d.at # "idle" =>
    /\ d.ev \in Event /\ d.seen \in had[d.ev.sub]
    /\ EventOK(d.ev)
    /\ d.at = "deleted" => d.ev.type = "deleted"
    /\ d.at = "unpaid" => d.ev.type = "unpaid"
    /\ d.at = "paid" => d.ev.type = "paid"
    /\ d.at = "sync" => d.ev.type \in {"sync", "paid"}

(* The event b's deliveries handle is the oldest that is not answered, and *)
(* no two are handled at once.                                             *)
InOrder(b) ==
  /\ \A g, h \in Hooks :
       Delivery(g) /\ Delivery(h) /\ hook[g].ev.sub = b /\ hook[h].ev.sub = b => g = h
  /\ \A h \in Hooks : Delivery(h) /\ hook[h].ev.sub = b =>
       hook[h].ev \in events /\ \A e \in EventsOf(b) : hook[h].ev.no <= e.no

After(e) == {f \in EventsOf(e.sub) : f.no > e.no}
OnlyDeletedAfter(e) == \A f \in After(e) : f.type = "deleted"

(* The newest event tells what Stripe says now; a deletion is the last and *)
(* keeps the price; a failed payment has the event beside it that stores   *)
(* the state, while an older one is not answered.                          *)
ChainOK(b) ==
  \A e \in EventsOf(b) :
    /\ After(e) = {} => e.snapshot = stripe[b]
    /\ OnlyDeletedAfter(e) => e.snapshot.price = stripe[b].price
    /\ e.type = "unpaid" =>
         \/ \A f \in EventsOf(b) : e.no <= f.no
         \/ \E f \in EventsOf(b) : f.no = e.no /\ f.type = "sync"

(* What a delivery is about to store is what Stripe says, or there is an   *)
(* event that will bring it.                                               *)
StoresOK(h) ==
  hook[h].at = "sync" =>
    /\ After(hook[h].ev) = {} => hook[h].seen = stripe[hook[h].ev.sub]
    /\ OnlyDeletedAfter(hook[h].ev) => hook[h].seen.price = stripe[hook[h].ev.sub].price

(* A row that no event will set again agrees with Stripe.                  *)
RowAgrees(u) ==
  LET b == row[u].sub IN
  b # None /\ b \notin disorder =>
    /\ (\A e \in EventsOf(b) : e.type \in {"unpaid", "deleted"})
         => row[u].tier = TierOf(stripe[b].price)
    /\ EventsOf(b) = {} => row[u].status = StatusOf(stripe[b].status)

BillingIInv ==
  /\ BillingTypeOK
  /\ \A b \in Subs : HadOK(b)
  /\ \A e \in events : EventOK(e)
  /\ \A h \in Hooks : HookOK(hook[h])
  /\ RowCoherent
  /\ \A b \in Subs \ disorder : InOrder(b) /\ ChainOK(b)
  /\ \A h \in Hooks : Delivery(h) /\ hook[h].ev.sub \notin disorder => StoresOK(h)
  /\ \A u \in Users : RowAgrees(u)

(***************************************************************************)
(* Keys: the inductive invariant.                                          *)
(***************************************************************************)
KeyOwned(k, u) == key[k] # None /\ key[k].user = u
KeyDead(k)     == key[k].revoked \/ key[k].expired

(* What a request has found out by the time it waits for its next answer.  *)
CallOK(s) ==
  LET r == call[s] IN
  /\ r.at # "idle" => r.user \in Users
  /\ r.at \in {"find", "load"} =>
       /\ r.op \in {"create", "revoke", "checkpoint"}
       /\ r.op = "revoke" => r.target \in Keys
  /\ r.at = "find" => r.via \in Keys /\ KeyOwned(r.via, r.user)
  /\ r.at = "find" /\ r.late => KeyDead(r.via)
  /\ r.via # None /\ r.at \notin {"idle", "find"} => ~r.late /\ s \in active
  /\ r.at = "count" => r.seen \in Tiers /\ MaxKeys[r.seen] <= bestTier[r.user]
  /\ r.at \in {"revoke", "mark"} => r.target \in Keys
  /\ r.at = "mark" => KeyOwned(r.target, r.user)

Inserting(u) == {s \in Slots : call[s].user = u /\ call[s].at = "insert"}

KeysIInv ==
  /\ BillingIInv
  /\ KeysTypeOK
  /\ \A s \in Slots : CallOK(s)
  /\ \A u \in Users : MaxKeys[row[u].tier] <= bestTier[u]
  /\ KeysBounded

-------------------------------------------------------------------------------
(* The parts of the invariant, unfolded where a step needs them.           *)
LEMMA BillingParts ==
  ASSUME BillingIInv
  PROVE  /\ BillingTypeOK /\ RowCoherent
         /\ \A b \in Subs : HadOK(b)
         /\ \A e \in events : e \in Event /\ EventOK(e)
         /\ \A h \in Hooks : HookOK(hook[h])
         /\ \A b \in Subs \ disorder : InOrder(b) /\ ChainOK(b)
         /\ \A h \in Hooks : Delivery(h) /\ hook[h].ev.sub \notin disorder => StoresOK(h)
         /\ \A u \in Users : RowAgrees(u)
BY DEF BillingIInv, BillingTypeOK

(* A subscription with an event has a state, and its owner's row is the    *)
(* only one that names it.                                                 *)
LEMMA OneRow ==
  ASSUME BillingIInv, NEW u \in Users, NEW b \in Subs, row[u].sub = b
  PROVE  stripe[b] # None /\ stripe[b].user = u
<1>1. RowCoherent /\ HadOK(b) /\ None \notin Subs
  BY BillingParts, SubscriptionsAssumption
<1>2. PICK s \in had[b] : s.user = u
  BY <1>1 DEF RowCoherent
<1> QED
  BY <1>1, <1>2 DEF HadOK

(* Checkout sessions and callers' requests change nothing the invariant    *)
(* speaks of.                                                              *)
LEMMA OutsideStep ==
  ASSUME BillingIInv, stimuli' \in Nat, stimuli <= stimuli',
         sessions' \subseteq [user : Users, price : Prices],
         UNCHANGED <<row, stripe, events, hook, lostAcks, had, disorder>>
  PROVE  BillingIInv'
<1>1. BillingTypeOK'
  BY BillingParts DEF BillingTypeOK
<1>2. \A e : e \in Event /\ EventOK(e) => EventOK(e)'
  BY BillingParts DEF BillingTypeOK, EventOK, Event
<1>3. \A b \in Subs : HadOK(b)'
  BY BillingParts DEF HadOK
<1>4. \A e \in events' : EventOK(e)'
  BY <1>2, BillingParts
<1>5. \A h \in Hooks : HookOK(hook[h])'
  BY <1>2, BillingParts DEF HookOK
<1>6. RowCoherent'
  BY BillingParts DEF RowCoherent
<1>7. \A b \in Subs \ disorder' : (InOrder(b) /\ ChainOK(b))'
  BY BillingParts DEF InOrder, ChainOK, Delivery, EventsOf, After, OnlyDeletedAfter
<1>8. \A h \in Hooks : (Delivery(h) /\ hook[h].ev.sub \notin disorder => StoresOK(h))'
  BY BillingParts DEF StoresOK, Delivery, EventsOf, After, OnlyDeletedAfter
<1>9. \A u \in Users : RowAgrees(u)'
  BY BillingParts DEF RowAgrees, EventsOf
<1> QED
  BY <1>1, <1>3, <1>4, <1>5, <1>6, <1>7, <1>8, <1>9 DEF BillingIInv

(***************************************************************************)
(* A change of Stripe's subscription b to s, and its events.               *)
(***************************************************************************)

(* The events of a change are newer than all of the subscription's others, *)
(* which no deletion is among.                                             *)
LEMMA OlderEvents ==
  ASSUME BillingIInv, stimuli' \in Nat, stimuli <= stimuli', NEW b \in Subs,
         \/ stripe[b] = None
         \/ stripe[b] # None /\ stripe[b].status # "canceled" /\ stimuli < stimuli',
         NEW e \in Event, EventOK(e), e.sub = b
  PROVE  /\ e.no < stimuli' /\ stripe[b] # None /\ stripe[b].status # "canceled"
         /\ e.type # "deleted"
<1>1. HadOK(b) /\ stimuli \in Nat /\ e.no \in Nat
  BY BillingParts DEF BillingTypeOK, Event
<1>2. stripe[b] # None
  BY <1>1 DEF HadOK, EventOK
<1> QED
  BY <1>1, <1>2 DEF EventOK

(* Whatever changes, the newest event tells it, and what was about to be   *)
(* stored is no longer the last word.                                      *)
LEMMA StripeStep ==
  ASSUME BillingIInv, stimuli' \in Nat, stimuli <= stimuli',
         sessions' \subseteq [user : Users, price : Prices],
         NEW b \in Subs, NEW s \in StripeState,
         NEW types \in SUBSET {"sync", "paid", "unpaid", "deleted"}, types # {},
         \/ stripe[b] = None
         \/ /\ stripe[b] # None /\ stripe[b].status # "canceled" /\ stimuli < stimuli'
            /\ s.user = stripe[b].user,
         "deleted" \in types => /\ types = {"deleted"} /\ s.status = "canceled"
                                /\ stripe[b] # None /\ s.price = stripe[b].price,
         "unpaid" \in types => "sync" \in types /\ s.status = "past_due",
         StripeHas(b, s, types)
  PROVE  BillingIInv'
<1> DEFINE New == {[no |-> stimuli', type |-> t, sub |-> b, snapshot |-> s] : t \in types}
<1>1. /\ row' = row /\ hook' = hook /\ lostAcks' = lostAcks /\ disorder' = disorder
      /\ events' = events \cup New
  BY DEF StripeHas
<1>2. /\ stripe' \in [Subs -> StripeState \cup {None}] /\ stripe'[b] = s
      /\ \A c \in Subs \ {b} : stripe'[c] = stripe[c]
      /\ had' \in [Subs -> SUBSET StripeState] /\ had'[b] = had[b] \cup {s}
      /\ \A c \in Subs \ {b} : had'[c] = had[c]
  BY BillingParts DEF StripeHas, BillingTypeOK
<1>3. None # s
  BY SubscriptionsAssumption DEF StripeState
<1>4. /\ New \subseteq Event /\ New # {}
      /\ \A e \in New : e.no = stimuli' /\ e.sub = b /\ e.snapshot = s /\ e.type \in types
      /\ \A t \in types : \E e \in New : e.type = t
  <2> DEFINE NewEvent(t) == [no |-> stimuli', type |-> t, sub |-> b, snapshot |-> s]
  <2>1. New = {NewEvent(t) : t \in types}
    OBVIOUS
  <2>2. ASSUME NEW t \in types
        PROVE  /\ NewEvent(t) \in Event
               /\ NewEvent(t).no = stimuli' /\ NewEvent(t).sub = b
               /\ NewEvent(t).snapshot = s /\ NewEvent(t).type = t
    BY DEF Event
  <2> HIDE DEF NewEvent, New
  <2>3. \A t \in types : NewEvent(t) \in New
    BY <2>1
  <2>4. \A e \in New : \E t \in types : e = NewEvent(t)
    BY <2>1
  <2>5. New # {}
    BY <2>3
  <2>6. \A e \in New :
          e \in Event /\ e.no = stimuli' /\ e.sub = b /\ e.snapshot = s /\ e.type \in types
    BY <2>2, <2>4
  <2> QED
    BY <2>2, <2>3, <2>5, <2>6
<1> HIDE DEF New
<1>5. BillingTypeOK'
  BY <1>1, <1>2, <1>4, BillingParts DEF BillingTypeOK, Event
<1>6. \A c \in Subs : HadOK(c)'
  <2>1. \A c \in Subs \ {b} : HadOK(c)'
    BY <1>2, BillingParts DEF HadOK
  <2>2. HadOK(b)'
    BY <1>2, <1>3, BillingParts DEF HadOK
  <2> QED
    BY <2>1, <2>2
<1>7. ASSUME NEW e \in Event, EventOK(e) PROVE EventOK(e)'
  <2>1. e.sub \in Subs /\ e.no <= stimuli'
    <3>1. stimuli \in Nat /\ e.no \in Nat /\ e.sub \in Subs
      BY BillingParts DEF Event, BillingTypeOK
    <3> QED
      BY <1>7, <3>1 DEF EventOK
  <2>2. e.snapshot \in had'[e.sub]
    BY <1>2, <1>7, <2>1 DEF EventOK
  <2>3. e.type = "deleted" => stripe'[e.sub] = e.snapshot
    <3>1. e.sub = b => e.type # "deleted"
      BY <1>7, OlderEvents
    <3> QED
      BY <1>2, <1>7, <2>1, <3>1 DEF EventOK
  <2> QED
    BY <1>7, <2>1, <2>2, <2>3 DEF EventOK
<1>8. \A e \in events' : EventOK(e)'
  <2>1. \A e \in events : EventOK(e)'
    BY <1>7, BillingParts
  <2>2. \A e \in New : EventOK(e)'
    BY <1>2, <1>4 DEF EventOK
  <2> QED
    BY <1>1, <2>1, <2>2
<1>9. \A h \in Hooks : HookOK(hook[h])'
  <2> SUFFICES ASSUME NEW h \in Hooks PROVE HookOK(hook[h])'
    OBVIOUS
  <2>1. hook[h].at # "idle" => hook[h].ev \in Event /\ EventOK(hook[h].ev)
    BY BillingParts DEF HookOK
  <2>2. hook[h].at # "idle" => EventOK(hook[h].ev)' /\ hook[h].ev.sub \in Subs
    BY <1>1, <1>7, <2>1 DEF Event
  <2>3. hook[h].at # "idle" => hook[h].seen \in had'[hook[h].ev.sub]
    BY <1>2, <2>2, BillingParts DEF HookOK
  <2> QED
    BY <1>1, <2>1, <2>2, <2>3, BillingParts DEF HookOK
<1>10. RowCoherent'
  <2>1. \A c \in Subs : had[c] \subseteq had'[c]
    BY <1>2
  <2> SUFFICES ASSUME NEW u \in Users, row[u].sub # None
               PROVE  \E x, y \in had'[row[u].sub] :
                        /\ x.user = u /\ row[u].tier = TierOf(x.price)
                        /\ row[u].status = StatusOf(y.status)
    BY <1>1, BillingParts DEF RowCoherent
  <2>2. row[u].sub \in Subs
    BY BillingParts DEF BillingTypeOK
  <2> QED
    BY <2>1, <2>2, BillingParts DEF RowCoherent
<1>11. ASSUME NEW c \in Subs, c # b
       PROVE  EventsOf(c)' = EventsOf(c)
  BY <1>1, <1>4, <1>11 DEF EventsOf
<1>12. EventsOf(b)' = EventsOf(b) \cup New
  BY <1>1, <1>4 DEF EventsOf
<1>13. ASSUME NEW e \in Event, EventOK(e), e.sub = b
       PROVE  e.no < stimuli' /\ stripe[b] # None
  BY <1>13, OlderEvents
<1>14. \A e \in EventsOf(b) : e \in Event /\ e.no < stimuli' /\ e.type # "deleted"
  BY BillingParts, OlderEvents DEF EventsOf
<1>15. \A c \in Subs \ disorder' : InOrder(c)'
  <2> SUFFICES ASSUME NEW c \in Subs \ disorder PROVE InOrder(c)'
    BY <1>1
  <2>1. ASSUME NEW h \in Hooks, Delivery(h), hook[h].ev.sub = c, NEW e \in EventsOf(c)'
        PROVE  hook[h].ev \in events' /\ hook[h].ev.no <= e.no
    <3>1. hook[h].ev \in events /\ \A f \in EventsOf(c) : hook[h].ev.no <= f.no
      BY <2>1, BillingParts DEF InOrder
    <3>2. hook[h].ev \in Event /\ EventOK(hook[h].ev)
      BY <3>1, BillingParts
    <3>3. e \in EventsOf(c) \/ (c = b /\ e \in New)
      BY <1>11, <1>12, <2>1
    <3>4. e \in New /\ c = b => hook[h].ev.no <= e.no
      BY <1>4, <1>13, <2>1, <3>2 DEF Event
    <3> QED
      BY <1>1, <3>1, <3>3, <3>4
  <2> QED
    BY <1>1, <2>1, BillingParts DEF InOrder, Delivery
<1>16. ASSUME NEW e \in Event, EventOK(e), e.sub = b
       PROVE  /\ After(e)' = After(e) \cup New /\ After(e)' # {}
              /\ OnlyDeletedAfter(e)' =>
                   /\ OnlyDeletedAfter(e) /\ stripe[b] # None /\ s.price = stripe[b].price
  <2>1. \A f \in New : f.no > e.no
    BY <1>4, <1>13, <1>16 DEF Event
  <2>2. After(e)' = After(e) \cup New
    BY <1>12, <1>16, <2>1 DEF After
  <2>3. (\A f \in New : f.type = "deleted") => "deleted" \in types
    BY <1>4
  <2> QED
    BY <1>4, <2>2, <2>3 DEF OnlyDeletedAfter
<1>17. ASSUME NEW e \in Event, e.sub \in Subs, e.sub # b
       PROVE  After(e)' = After(e) /\ (OnlyDeletedAfter(e)' <=> OnlyDeletedAfter(e))
  BY <1>11, <1>17 DEF After, OnlyDeletedAfter
<1>18. ASSUME NEW c \in Subs \ disorder' PROVE ChainOK(c)'
  <2>0. ChainOK(c)
    BY <1>1, BillingParts
  <2>1. CASE c # b
    <3>1. \A e \in EventsOf(c) : e \in Event /\ e.sub = c
      BY BillingParts DEF EventsOf
    <3> QED
      BY <1>2, <1>11, <1>17, <2>0, <2>1, <3>1 DEF ChainOK
  <2>2. CASE c = b
    <3>1. ASSUME NEW e \in EventsOf(b)
          PROVE  /\ After(e)' # {}
                 /\ OnlyDeletedAfter(e)' => e.snapshot.price = stripe'[b].price
                 /\ e.type = "unpaid" =>
                      \/ \A f \in EventsOf(b)' : e.no <= f.no
                      \/ \E f \in EventsOf(b)' : f.no = e.no /\ f.type = "sync"
      <4>1. e \in Event /\ EventOK(e) /\ e.sub = b /\ e.no < stimuli'
        BY <1>14, BillingParts DEF EventsOf
      <4>2. \A f \in New : e.no <= f.no
        BY <1>4, <4>1 DEF Event
      <4> QED
        BY <1>2, <1>12, <1>16, <2>0, <2>2, <4>1, <4>2 DEF ChainOK
    <3>2. ASSUME NEW e \in New
          PROVE  /\ e.snapshot = stripe'[b]
                 /\ e.type = "unpaid" =>
                      \E f \in EventsOf(b)' : f.no = e.no /\ f.type = "sync"
      BY <1>2, <1>4, <1>12
    <3> QED
      BY <1>12, <2>2, <3>1, <3>2 DEF ChainOK
  <2> QED
    BY <2>1, <2>2
<1>19. ASSUME NEW h \in Hooks, Delivery(h), hook[h].ev.sub \notin disorder
       PROVE  StoresOK(h)'
  <2>1. hook[h].ev \in Event /\ EventOK(hook[h].ev) /\ StoresOK(h) /\ hook[h].ev.sub \in Subs
    BY <1>19, BillingParts DEF HookOK, Delivery, Event
  <2> DEFINE e == hook[h].ev
  <2>2. CASE e.sub = b
    <3>1. /\ After(e)' # {}
          /\ OnlyDeletedAfter(e)' => OnlyDeletedAfter(e) /\ s.price = stripe[b].price
      BY <1>1, <1>16, <2>1, <2>2 DEF After, OnlyDeletedAfter
    <3> QED
      BY <1>1, <1>2, <2>1, <2>2, <3>1 DEF StoresOK
  <2>3. CASE e.sub # b
    <3>1. After(e)' = After(e) /\ (OnlyDeletedAfter(e)' <=> OnlyDeletedAfter(e))
      BY <1>1, <1>11, <2>1, <2>3 DEF After, OnlyDeletedAfter
    <3> QED
      BY <1>1, <1>2, <2>1, <2>3, <3>1 DEF StoresOK
  <2> QED
    BY <2>2, <2>3
<1>20. ASSUME NEW u \in Users PROVE RowAgrees(u)'
  <2>1. row[u].sub \in Subs \cup {None} /\ RowAgrees(u)
    BY BillingParts DEF BillingTypeOK
  <2>2. CASE row[u].sub = None
    BY <1>1, <2>2 DEF RowAgrees
  <2>3. CASE row[u].sub \in Subs \ {b}
    BY <1>1, <1>2, <1>11, <2>1, <2>3 DEF RowAgrees
  <2>4. CASE row[u].sub = b
    <3>1. EventsOf(b)' # {}
      BY <1>4, <1>12
    <3>2. ASSUME \A e \in EventsOf(b)' : e.type \in {"unpaid", "deleted"}
          PROVE  s.price = stripe[b].price
                   /\ \A e \in EventsOf(b) : e.type \in {"unpaid", "deleted"}
      <4>1. \A t \in types : t \in {"unpaid", "deleted"}
        BY <1>4, <1>12, <3>2
      <4>2. "deleted" \in types
        BY <4>1
      <4> QED
        BY <1>12, <3>2, <4>2
    <3> QED
      BY <1>1, <1>2, <2>1, <2>4, <3>1, <3>2 DEF RowAgrees
  <2> QED
    BY <2>1, <2>2, <2>3, <2>4
<1> QED
  BY <1>1, <1>5, <1>6, <1>8, <1>9, <1>10, <1>15, <1>18, <1>19, <1>20
     DEF BillingIInv, Delivery

(***************************************************************************)
(* Deliveries.                                                             *)
(***************************************************************************)

(* What a delivery in progress is known to be.                             *)
LEMMA DeliveryFacts ==
  ASSUME BillingIInv, NEW h \in Hooks, Delivery(h)
  PROVE  /\ hook[h].ev \in Event /\ hook[h].ev.sub \in Subs /\ hook[h].ev.no \in Nat
         /\ EventOK(hook[h].ev) /\ HookOK(hook[h])
         /\ hook[h].seen \in had[hook[h].ev.sub] /\ hook[h].seen \in StripeState
         /\ stripe[hook[h].ev.sub] # None /\ stripe[hook[h].ev.sub] \in had[hook[h].ev.sub]
         /\ stripe[hook[h].ev.sub].user = hook[h].seen.user
         /\ stripe[hook[h].ev.sub] \in StripeState
<1>1. HookOK(hook[h]) /\ hook[h].ev \in Event /\ hook[h].seen \in had[hook[h].ev.sub]
  BY BillingParts DEF HookOK, Delivery
<1>2. hook[h].ev.sub \in Subs /\ hook[h].ev.no \in Nat
  BY <1>1 DEF Event
<1>3. HadOK(hook[h].ev.sub) /\ had[hook[h].ev.sub] \subseteq StripeState
  BY <1>2, BillingParts DEF BillingTypeOK
<1> QED
  BY <1>1, <1>2, <1>3 DEF HadOK, HookOK, Delivery

(* A step that changes only the deliveries and what they are about.        *)
LEMMA HookStep ==
  ASSUME BillingIInv,
         UNCHANGED <<row, sessions, stripe, events, stimuli, lostAcks, had>>,
         disorder \subseteq disorder', disorder' \subseteq Subs,
         NEW h \in Hooks,
         NEW d \in [at : {"idle", "sync", "paid", "unpaid", "deleted"},
                    ev : Event \cup {None}, seen : StripeState \cup {None}],
         hook' = [hook EXCEPT ![h] = d], HookOK(d), d.at # "idle",
         \A b \in Subs \ disorder' : InOrder(b)',
         d.ev.sub \notin disorder' => StoresOK(h)'
  PROVE  BillingIInv'
<1>1. hook'[h] = d /\ \A g \in Hooks \ {h} : hook'[g] = hook[g]
  BY BillingParts DEF BillingTypeOK
<1>2. BillingTypeOK'
  BY BillingParts DEF BillingTypeOK, Event
<1>3. \A b \in Subs : HadOK(b)'
  BY BillingParts DEF HadOK
<1>4. \A e : EventOK(e)' <=> EventOK(e)
  BY DEF EventOK
<1>5. \A g \in Hooks : HookOK(hook[g])'
  <2>1. ASSUME NEW g \in Hooks PROVE HookOK(hook'[g])
    BY <1>1, BillingParts
  <2> QED
    BY <1>4, <2>1 DEF HookOK
<1>6. RowCoherent'
  BY BillingParts DEF RowCoherent
<1>7. \A b \in Subs \ disorder' : (InOrder(b) /\ ChainOK(b))'
  BY BillingParts DEF ChainOK, EventsOf, After, OnlyDeletedAfter
<1>8. ASSUME NEW g \in Hooks, Delivery(g)', hook'[g].ev.sub \notin disorder'
      PROVE  StoresOK(g)'
  <2>1. CASE g = h
    BY <1>1, <1>8, <2>1
  <2>2. CASE g # h
    <3>1. StoresOK(g)
      BY <1>1, <1>8, <2>2, BillingParts DEF Delivery
    <3> QED
      BY <1>1, <2>2, <3>1 DEF StoresOK, EventsOf, After, OnlyDeletedAfter
  <2> QED
    BY <2>1, <2>2
<1>9. \A u \in Users : RowAgrees(u)'
  BY BillingParts DEF RowAgrees, EventsOf
<1>10. \A e \in events' : EventOK(e)'
  BY <1>4, BillingParts
<1> QED
  BY <1>2, <1>3, <1>5, <1>6, <1>7, <1>8, <1>9, <1>10 DEF BillingIInv

(* An event is delivered; out of turn, and its subscription is in disorder. *)
LEMMA DeliverStep ==
  ASSUME BillingIInv, NEW h \in Hooks, Deliver(h)
  PROVE  BillingIInv'
<1>1. PICK e \in events :
        /\ hook' = [hook EXCEPT ![h] = [at |-> e.type, ev |-> e, seen |-> e.snapshot]]
        /\ disorder' =
             IF \/ \E f \in events : f.sub = e.sub /\ f.no < e.no
                \/ \E g \in Hooks : hook[g].at # "idle" /\ hook[g].ev.sub = e.sub
               THEN disorder \cup {e.sub} ELSE disorder
  BY DEF Deliver
<1>2. UNCHANGED <<row, sessions, stripe, events, stimuli, lostAcks, had>>
  BY DEF Deliver, Outside
<1> DEFINE d == [at |-> e.type, ev |-> e, seen |-> e.snapshot]
<1>3. /\ e \in Event /\ EventOK(e) /\ e.sub \in Subs /\ e.no \in Nat
      /\ e.type \in {"sync", "paid", "unpaid", "deleted"} /\ e.snapshot \in StripeState
  BY BillingParts DEF Event
<1>4. /\ d \in [at : {"idle", "sync", "paid", "unpaid", "deleted"},
                ev : Event \cup {None}, seen : StripeState \cup {None}]
      /\ HookOK(d) /\ d.at # "idle" /\ d.ev = e /\ d.seen = e.snapshot /\ d.at = e.type
  BY <1>3 DEF HookOK, EventOK
<1>5. /\ disorder \subseteq disorder' /\ disorder' \subseteq Subs
      /\ hook' = [hook EXCEPT ![h] = d]
      /\ e.sub \notin disorder' =>
           /\ \A f \in EventsOf(e.sub) : e.no <= f.no
           /\ \A g \in Hooks : Delivery(g) => hook[g].ev.sub # e.sub
  <2>1. disorder \subseteq Subs /\ \A f \in events : f.no \in Nat
    BY BillingParts DEF BillingTypeOK, Event
  <2> QED
    BY <1>1, <1>3, <2>1 DEF Delivery, EventsOf
<1> HIDE DEF d
<1>6. hook'[h] = d /\ \A g \in Hooks \ {h} : hook'[g] = hook[g]
  BY <1>5, BillingParts DEF BillingTypeOK
<1>7. ASSUME NEW b \in Subs \ disorder' PROVE InOrder(b)'
  <2>1. InOrder(b) /\ events' = events
    BY <1>2, <1>5, BillingParts
  <2>2. ASSUME NEW g \in Hooks, Delivery(g)', hook'[g].ev.sub = b
        PROVE  hook'[g].ev \in events /\ \A f \in EventsOf(b) : hook'[g].ev.no <= f.no
    <3>1. CASE g = h
      BY <1>4, <1>5, <1>6, <2>2, <3>1
    <3>2. CASE g # h
      BY <1>6, <2>1, <2>2, <3>2 DEF InOrder, Delivery
    <3> QED
      BY <3>1, <3>2
  <2>3. ASSUME NEW f \in Hooks, NEW g \in Hooks, Delivery(f)', Delivery(g)',
               hook'[f].ev.sub = b, hook'[g].ev.sub = b
        PROVE  f = g
    BY <1>4, <1>5, <1>6, <2>1, <2>3 DEF InOrder, Delivery
  <2> QED
    BY <2>1, <2>2, <2>3 DEF InOrder, EventsOf
<1>8. e.sub \notin disorder' => StoresOK(h)'
  <2>1. e.sub \notin disorder' => ChainOK(e.sub)
    BY <1>3, <1>5, BillingParts
  <2>2. e \in EventsOf(e.sub)
    BY DEF EventsOf
  <2>3. e.sub \notin disorder' =>
          /\ After(e) = {} => e.snapshot = stripe[e.sub]
          /\ OnlyDeletedAfter(e) => e.snapshot.price = stripe[e.sub].price
    BY <2>1, <2>2 DEF ChainOK
  <2> QED
    BY <1>2, <1>4, <1>6, <2>3 DEF StoresOK, EventsOf, After, OnlyDeletedAfter
<1> QED
  BY <1>2, <1>4, <1>5, <1>7, <1>8, HookStep

(* invoice.payment_succeeded fetches the subscription as it is now.        *)
LEMMA PaidStep ==
  ASSUME BillingIInv, NEW h \in Hooks, HookPaid(h)
  PROVE  BillingIInv'
<1> DEFINE d == [hook[h] EXCEPT !.at = "sync", !.seen = stripe[hook[h].ev.sub]]
<1>1. /\ hook[h].at = "paid" /\ Delivery(h)
      /\ UNCHANGED <<row, sessions, stripe, events, stimuli, lostAcks, had, disorder>>
  BY DEF HookPaid, Outside, Delivery
<1>2. hook' = [hook EXCEPT ![h] = d]
  BY BillingParts DEF HookPaid, BillingTypeOK
<1>3. hook[h] \in [at : {"idle", "sync", "paid", "unpaid", "deleted"},
                   ev : Event \cup {None}, seen : StripeState \cup {None}]
  BY BillingParts DEF BillingTypeOK
<1>4. /\ d \in [at : {"idle", "sync", "paid", "unpaid", "deleted"},
                ev : Event \cup {None}, seen : StripeState \cup {None}]
      /\ d.at = "sync" /\ d.ev = hook[h].ev /\ d.seen = stripe[hook[h].ev.sub]
  BY <1>1, <1>3, DeliveryFacts
<1> HIDE DEF d
<1>5. HookOK(d)
  BY <1>1, <1>4, DeliveryFacts DEF HookOK
<1>6. hook'[h] = d /\ \A g \in Hooks \ {h} : hook'[g] = hook[g]
  BY <1>2, BillingParts DEF BillingTypeOK
<1>7. ASSUME NEW b \in Subs \ disorder' PROVE InOrder(b)'
  <2>1. \A g \in Hooks : (Delivery(g)' <=> Delivery(g)) /\ hook'[g].ev = hook[g].ev
    BY <1>1, <1>4, <1>6 DEF Delivery
  <2> QED
    BY <1>1, <2>1, BillingParts DEF InOrder, EventsOf
<1>8. StoresOK(h)'
  BY <1>1, <1>4, <1>6 DEF StoresOK
<1>9. disorder \subseteq disorder' /\ disorder' \subseteq Subs
  BY <1>1, BillingParts DEF BillingTypeOK
<1> QED
  BY <1>1, <1>2, <1>4, <1>5, <1>7, <1>8, <1>9, HookStep

(* The answer to a delivery: the event stays or is the one that goes, and  *)
(* the rows are what the handler has made of them.                         *)
LEMMA AnswerStep ==
  ASSUME BillingIInv,
         UNCHANGED <<sessions, stripe, stimuli, had, disorder>>,
         lostAcks' \in Nat,
         NEW h \in Hooks, Delivery(h), HookDone(h),
         events' = events \/ events' = events \ {hook[h].ev},
         row' \in [Users -> [customer : {"stripe", "free"}, sub : Subs \cup {None},
                             status : Statuses, tier : Tiers]],
         RowCoherent', \A u \in Users : RowAgrees(u)'
  PROVE  BillingIInv'
<1>1. hook'[h] = Unbilled /\ \A g \in Hooks \ {h} : hook'[g] = hook[g]
  BY BillingParts DEF BillingTypeOK, HookDone
<1>2. events' \subseteq events
  OBVIOUS
<1>3. BillingTypeOK'
  <2>1. hook' \in [Hooks -> [at : {"idle", "sync", "paid", "unpaid", "deleted"},
                             ev : Event \cup {None}, seen : StripeState \cup {None}]]
    BY BillingParts DEF BillingTypeOK, HookDone, Unbilled
  <2> QED
    BY <1>2, <2>1, BillingParts DEF BillingTypeOK, Event
<1>4. \A b \in Subs : HadOK(b)'
  BY BillingParts DEF HadOK
<1>5. \A e : EventOK(e)' <=> EventOK(e)
  BY DEF EventOK
<1>6. \A e \in events' : EventOK(e)'
  BY <1>2, <1>5, BillingParts
<1>7. \A g \in Hooks : HookOK(hook[g])'
  <2>1. ASSUME NEW g \in Hooks PROVE HookOK(hook'[g])
    BY <1>1, BillingParts DEF HookOK, Unbilled
  <2> QED
    BY <1>5, <2>1 DEF HookOK
<1>8. \A g \in Hooks : Delivery(g)' => g # h /\ Delivery(g) /\ hook'[g] = hook[g]
  BY <1>1 DEF Delivery, Unbilled
<1>9. ASSUME NEW b \in Subs \ disorder, hook[h].ev.sub = b
      PROVE  /\ \A g \in Hooks : Delivery(g)' => hook[g].ev.sub # b
             /\ \A e \in EventsOf(b) : hook[h].ev.no <= e.no
  BY <1>8, <1>9, BillingParts DEF InOrder
<1>10. ASSUME NEW b \in Subs, hook[h].ev.sub # b
       PROVE  EventsOf(b)' = EventsOf(b)
  BY <1>10 DEF EventsOf
<1>11. ASSUME NEW b \in Subs \ disorder, NEW e \in EventsOf(b)
       PROVE  After(e)' = After(e) /\ (OnlyDeletedAfter(e)' <=> OnlyDeletedAfter(e))
  <2>1. e \in Event /\ e.sub = b /\ e.no \in Nat
    BY BillingParts DEF EventsOf, Event
  <2>2. CASE hook[h].ev.sub # b
    BY <1>10, <2>1, <2>2 DEF After, OnlyDeletedAfter
  <2>3. CASE hook[h].ev.sub = b
    <3>1. hook[h].ev \notin After(e)
      BY <1>9, <2>1, <2>3, DeliveryFacts DEF After
    <3>2. After(e)' = After(e)
      BY <3>1 DEF After, EventsOf
    <3> QED
      BY <3>2 DEF OnlyDeletedAfter
  <2> QED
    BY <2>2, <2>3
<1>12. ASSUME NEW b \in Subs \ disorder' PROVE (InOrder(b) /\ ChainOK(b))'
  <2>0. InOrder(b) /\ ChainOK(b) /\ EventsOf(b)' \subseteq EventsOf(b)
    BY <1>2, BillingParts DEF EventsOf
  <2>1. InOrder(b)'
    <3>1. CASE hook[h].ev.sub = b
      BY <1>8, <1>9, <3>1 DEF InOrder
    <3>2. CASE hook[h].ev.sub # b
      <4>1. ASSUME NEW g \in Hooks, Delivery(g)', hook'[g].ev.sub = b
            PROVE  hook'[g].ev \in events'
        BY <1>8, <2>0, <3>2, <4>1 DEF InOrder
      <4> QED
        BY <1>8, <2>0, <4>1 DEF InOrder
    <3> QED
      BY <3>1, <3>2
  <2>2. ASSUME NEW e \in EventsOf(b)', e.type = "unpaid"
        PROVE  \/ \A f \in EventsOf(b)' : e.no <= f.no
               \/ \E f \in EventsOf(b)' : f.no = e.no /\ f.type = "sync"
    <3>1. CASE \A f \in EventsOf(b) : e.no <= f.no
      BY <2>0, <3>1
    <3>2. ASSUME NEW f \in EventsOf(b), f.no = e.no, f.type = "sync", f \notin EventsOf(b)'
          PROVE  \A g \in EventsOf(b) : e.no <= g.no
      <4>1. f = hook[h].ev /\ hook[h].ev.sub = b
        BY <3>2 DEF EventsOf
      <4> QED
        BY <1>9, <3>2, <4>1
    <3> QED
      BY <2>0, <2>2, <3>1, <3>2 DEF ChainOK
  <2>3. ChainOK(b)'
    BY <1>11, <2>0, <2>2 DEF ChainOK
  <2> QED
    BY <2>1, <2>3
<1>13. ASSUME NEW g \in Hooks, Delivery(g)', hook'[g].ev.sub \notin disorder'
       PROVE  StoresOK(g)'
  <2>1. /\ Delivery(g) /\ g # h /\ hook'[g] = hook[g] /\ hook[g].ev.sub \in Subs \ disorder
        /\ StoresOK(g)
    BY <1>8, <1>13, DeliveryFacts, BillingParts
  <2>2. hook[g].ev \in EventsOf(hook[g].ev.sub)
    BY <2>1, BillingParts DEF InOrder, EventsOf
  <2> DEFINE e == hook[g].ev
  <2>3. After(e)' = After(e) /\ (OnlyDeletedAfter(e)' <=> OnlyDeletedAfter(e))
    <3>1. \A x \in EventsOf(hook[g].ev.sub) :
             {f \in events' : f.sub = x.sub /\ f.no > x.no}
               = {f \in events : f.sub = x.sub /\ f.no > x.no}
      BY <1>11, <2>1 DEF After, EventsOf
    <3> QED
      BY <2>1, <2>2, <3>1 DEF After, EventsOf, OnlyDeletedAfter
  <2> QED
    BY <2>1, <2>3 DEF StoresOK
<1> QED
  BY <1>3, <1>4, <1>6, <1>7, <1>12, <1>13 DEF BillingIInv

(* A state is stored: it is Stripe's present one, unless a later event will *)
(* store another, or a deletion changes the status of this one.            *)
LEMMA SyncStep ==
  ASSUME BillingIInv, NEW h \in Hooks, HookSync(h)
  PROVE  BillingIInv'
<1>0. PICK e, s, b, u : e = hook[h].ev /\ s = hook[h].seen /\ b = e.sub /\ u = s.user
  OBVIOUS
<1>1. /\ hook[h].at = "sync" /\ Delivery(h) /\ HookDone(h)
      /\ UNCHANGED <<sessions, stripe, stimuli, had, disorder>>
      /\ events' = events \/ events' = events \ {e}
      /\ row' = [row EXCEPT ![u] = Synced(@, b, s)]
  BY <1>0 DEF HookSync, Outside, Acked, Delivery
<1>2. lostAcks' \in Nat
  BY BillingParts DEF HookSync, Acked, BillingTypeOK
<1>3. /\ e \in Event /\ b \in Subs /\ EventOK(e) /\ e.type \in {"sync", "paid"} /\ e.no \in Nat
      /\ s \in had[b] /\ s \in StripeState /\ u \in Users /\ b # None
      /\ stripe[b].user = u
  BY <1>0, <1>1, DeliveryFacts, SubscriptionsAssumption DEF HookOK, StripeState
<1>4. /\ row'[u] = Synced(row[u], b, s) /\ \A v \in Users \ {u} : row'[v] = row[v]
      /\ row \in [Users -> [customer : {"stripe", "free"}, sub : Subs \cup {None},
                            status : Statuses, tier : Tiers]]
  BY <1>1, <1>3, BillingParts DEF BillingTypeOK
<1>5. /\ row'[u].sub = b /\ row'[u].status = StatusOf(s.status)
      /\ row'[u].tier = TierOf(s.price)
      /\ row'[u] \in [customer : {"stripe", "free"}, sub : Subs \cup {None},
                      status : Statuses, tier : Tiers]
  <2>1. row[u] \in [customer : {"stripe", "free"}, sub : Subs \cup {None},
                    status : Statuses, tier : Tiers]
    BY <1>3, <1>4
  <2>2. StatusOf(s.status) \in Statuses /\ TierOf(s.price) \in Tiers
    BY DEF StatusOf, Statuses, TierOf, Tiers
  <2> HIDE DEF StatusOf, TierOf
  <2> QED
    BY <1>3, <1>4, <2>1, <2>2 DEF Synced
<1>6. row' \in [Users -> [customer : {"stripe", "free"}, sub : Subs \cup {None},
                          status : Statuses, tier : Tiers]]
  BY <1>1, <1>3, <1>4, <1>5
<1>7. RowCoherent'
  <2>1. had' = had
    BY <1>1
  <2>2. ASSUME NEW v \in Users
        PROVE  IF row'[v].sub = None
                 THEN row'[v].tier = "FREE" /\ row'[v].status = "ACTIVE"
                 ELSE \E x, y \in had[row'[v].sub] :
                        /\ x.user = v /\ row'[v].tier = TierOf(x.price)
                        /\ row'[v].status = StatusOf(y.status)
    <3>1. CASE v = u
      <4>1. row'[v].sub # None /\ s \in had[row'[v].sub] /\ s.user = v
        BY <1>3, <1>5, <3>1, <1>0
      <4>2. row'[v].status = StatusOf(s.status) /\ row'[v].tier = TierOf(s.price)
        BY <1>5, <3>1
      <4> QED
        BY <4>1, <4>2
    <3>2. CASE v # u
      <4>1. row'[v] = row[v] /\ RowCoherent
        BY <1>4, <3>2, BillingParts
      <4> QED
        BY <4>1 DEF RowCoherent
    <3> QED
      BY <3>1, <3>2
  <2> QED
    BY <2>1, <2>2 DEF RowCoherent
<1>8. ASSUME NEW v \in Users PROVE RowAgrees(v)'
  <2>1. CASE v = u
    <3> SUFFICES ASSUME b \notin disorder
                 PROVE  /\ (\A f \in EventsOf(b)' : f.type \in {"unpaid", "deleted"})
                             => s.price = stripe[b].price
                        /\ EventsOf(b)' = {} => s = stripe[b]
      BY <1>1, <1>5, <2>1 DEF RowAgrees, EventsOf
    <3>1. /\ After(e) = {} => s = stripe[b]
          /\ OnlyDeletedAfter(e) => s.price = stripe[b].price
      BY <1>0, <1>1, BillingParts DEF StoresOK
    <3>2. \A f \in After(e) : f # e
      BY <1>3 DEF After
    <3>3. After(e) \subseteq EventsOf(b)'
      BY <1>0, <1>1, <3>2 DEF After, EventsOf
    <3>4. ASSUME \A f \in EventsOf(b)' : f.type \in {"unpaid", "deleted"}
          PROVE  OnlyDeletedAfter(e)
      <4> SUFFICES ASSUME NEW f \in After(e), f.type = "unpaid" PROVE FALSE
        BY <3>3, <3>4 DEF OnlyDeletedAfter
      <4>1. /\ f \in EventsOf(b) /\ f.no > e.no /\ f \in Event /\ f.no \in Nat
            /\ e \in EventsOf(b) /\ ChainOK(b)
        BY <1>0, <1>1, <1>3, BillingParts DEF After, EventsOf, Event, InOrder
      <4>2. PICK g \in EventsOf(b) : g.no = f.no /\ g.type = "sync"
        BY <1>3, <4>1 DEF ChainOK
      <4>3. g \in EventsOf(b)'
        BY <1>1, <1>3, <4>1, <4>2 DEF EventsOf
      <4> QED
        BY <3>4, <4>2, <4>3
    <3> QED
      BY <3>1, <3>3, <3>4
  <2>2. CASE v # u
    <3>1. row'[v] = row[v] /\ RowAgrees(v) /\ row[v].sub \in Subs \cup {None}
      BY <1>4, <2>2, BillingParts
    <3>2. row[v].sub # b
      BY <1>3, <2>2, OneRow
    <3>3. {x \in events' : x.sub = row[v].sub} = {x \in events : x.sub = row[v].sub}
      BY <1>0, <1>1, <3>2
    <3> QED
      BY <1>1, <3>1, <3>3 DEF RowAgrees, EventsOf
  <2> QED
    BY <2>1, <2>2
<1> QED
  BY <1>1, <1>2, <1>6, <1>7, <1>8, <1>0, AnswerStep

(***************************************************************************)
(* customer.subscription.deleted and invoice.payment_failed: the status of *)
(* the rows that name the subscription.                                    *)
(***************************************************************************)
LEMMA StatusStep ==
  ASSUME BillingIInv, NEW h \in Hooks, Delivery(h), NEW status \in Statuses,
         hook[h].ev.type \in {"unpaid", "deleted"},
         status = StatusOf(hook[h].ev.snapshot.status),
         SetStatus(h, status), Outside, UNCHANGED disorder
  PROVE  BillingIInv'
<1>0. PICK e, b : e = hook[h].ev /\ b = e.sub
  OBVIOUS
<1>1. UNCHANGED <<sessions, stripe, stimuli, had, disorder>>
  BY DEF Outside
<1>2. HookDone(h) /\ (events' = events \/ events' = events \ {hook[h].ev})
  BY DEF SetStatus, Refused, Acked
<1>3. lostAcks' \in Nat
  BY BillingParts DEF SetStatus, Refused, Acked, BillingTypeOK
<1>4. /\ e \in Event /\ b \in Subs /\ EventOK(e) /\ e.no \in Nat /\ e.snapshot \in had[b]
      /\ b # None
  BY <1>0, DeliveryFacts, SubscriptionsAssumption DEF EventOK
<1>5. row \in [Users -> [customer : {"stripe", "free"}, sub : Subs \cup {None},
                        status : Statuses, tier : Tiers]]
  BY BillingParts DEF BillingTypeOK
<1>6. CASE \A u \in Users : row[u].sub # b
  <2>1. row' = row /\ events' = events
    BY <1>0, <1>6 DEF SetStatus, Refused
  <2>2. RowCoherent'
    BY <1>1, <2>1, BillingParts DEF RowCoherent
  <2>3. \A u \in Users : RowAgrees(u)'
    BY <1>1, <2>1, BillingParts DEF RowAgrees, EventsOf
  <2> QED
    BY <1>1, <1>2, <1>3, <1>5, <2>1, <2>2, <2>3, AnswerStep
<1>7. ASSUME NEW w \in Users, row[w].sub = b
      PROVE  BillingIInv'
  <2>1. row' = [u \in Users |-> IF row[u].sub = b
                               THEN [row[u] EXCEPT !.status = status] ELSE row[u]]
    BY <1>0, <1>7 DEF SetStatus
  <2>2. ASSUME NEW u \in Users
        PROVE  /\ row[u].sub = b => row'[u] = [row[u] EXCEPT !.status = status]
               /\ row[u].sub # b => row'[u] = row[u]
               /\ row'[u].sub = row[u].sub /\ row'[u].tier = row[u].tier
               /\ row[u].sub = b => row'[u].status = status
               /\ row'[u] \in [customer : {"stripe", "free"}, sub : Subs \cup {None},
                               status : Statuses, tier : Tiers]
    BY <1>5, <2>1
  <2>3. row' \in [Users -> [customer : {"stripe", "free"}, sub : Subs \cup {None},
                           status : Statuses, tier : Tiers]]
    BY <2>1, <2>2
  <2>4. ASSUME NEW u \in Users
        PROVE  IF row'[u].sub = None
                 THEN row'[u].tier = "FREE" /\ row'[u].status = "ACTIVE"
                 ELSE \E x, y \in had[row'[u].sub] :
                        /\ x.user = u /\ row'[u].tier = TierOf(x.price)
                        /\ row'[u].status = StatusOf(y.status)
    <3>0. RowCoherent
      BY BillingParts
    <3>1. CASE row[u].sub # b
      <4>1. row'[u] = row[u]
        BY <2>2, <3>1
      <4> QED
        BY <3>0, <4>1 DEF RowCoherent
    <3>2. CASE row[u].sub = b
      <4>1. PICK x \in had[b] : x.user = u /\ row[u].tier = TierOf(x.price)
        BY <1>4, <3>0, <3>2 DEF RowCoherent
      <4>2. /\ row'[u].sub = b /\ row'[u].tier = TierOf(x.price)
            /\ row'[u].status = StatusOf(e.snapshot.status)
        BY <1>0, <2>2, <3>2, <4>1
      <4> QED
        BY <1>4, <4>1, <4>2
    <3> QED
      BY <3>1, <3>2
  <2>5. RowCoherent'
    BY <1>1, <2>4 DEF RowCoherent
  <2>6. ASSUME NEW u \in Users PROVE RowAgrees(u)'
    <3>1. CASE row[u].sub # b
      <4>1. {x \in events' : x.sub = row[u].sub} = {x \in events : x.sub = row[u].sub}
        BY <1>0, <1>2, <3>1
      <4>2. row'[u] = row[u] /\ RowAgrees(u)
        BY <2>2, <3>1, BillingParts
      <4> QED
        BY <1>1, <4>1, <4>2 DEF RowAgrees, EventsOf
    <3>2. CASE row[u].sub = b
      <4> SUFFICES ASSUME b \notin disorder
                   PROVE  /\ (\A f \in EventsOf(b)' : f.type \in {"unpaid", "deleted"})
                               => row[u].tier = TierOf(stripe[b].price)
                          /\ EventsOf(b)' = {} => e.snapshot = stripe[b]
        <5>1. row'[u].sub = b /\ row'[u].tier = row[u].tier /\ row'[u].status = status
          BY <2>2, <3>2
        <5>2. stripe' = stripe /\ disorder' = disorder
          BY <1>1
        <5> QED
          BY <1>0, <5>1, <5>2 DEF RowAgrees, EventsOf
      <4>1. RowAgrees(u) /\ ChainOK(b) /\ e \in EventsOf(b)
        BY <1>0, <1>4, BillingParts DEF InOrder, EventsOf
      <4>2. EventsOf(b) \subseteq EventsOf(b)' \cup {e}
        BY <1>0, <1>2 DEF EventsOf
      <4>3. EventsOf(b)' = {} => After(e) = {}
        BY <1>0, <1>4, <4>2 DEF After
      <4>4. (\A f \in EventsOf(b)' : f.type \in {"unpaid", "deleted"})
              => row[u].tier = TierOf(stripe[b].price)
        BY <1>0, <1>4, <3>2, <4>1, <4>2 DEF RowAgrees
      <4> QED
        BY <4>1, <4>3, <4>4 DEF ChainOK
    <3> QED
      BY <3>1, <3>2
  <2> QED
    BY <1>1, <1>2, <1>3, <2>3, <2>5, <2>6, AnswerStep
<1> QED
  BY <1>6, <1>7

(* A handler that throws changes no row and keeps its event.               *)
LEMMA HookRejectsStep ==
  ASSUME BillingIInv, NEW h \in Hooks, HookRejects(h)
  PROVE  BillingIInv'
<1>1. /\ Delivery(h) /\ HookDone(h) /\ events' = events /\ lostAcks' = lostAcks /\ row' = row
      /\ UNCHANGED <<sessions, stripe, stimuli, had, disorder>>
  BY DEF HookRejects, Refused, Outside, Delivery
<1>2. RowCoherent' /\ \A u \in Users : RowAgrees(u)'
  BY <1>1, BillingParts DEF RowCoherent, RowAgrees, EventsOf
<1> QED
  BY <1>1, <1>2, AnswerStep, BillingParts DEF BillingTypeOK

(***************************************************************************)
(* The subscriptions as a whole.                                           *)
(***************************************************************************)
(* Users who have just registered.                                         *)
LEMMA BillingStarts == BillingInit => BillingIInv
<1> SUFFICES ASSUME BillingInit PROVE BillingIInv
  OBVIOUS
<1>1. /\ sessions = {} /\ stripe = [b \in Subs |-> None] /\ events = {}
      /\ hook = [h \in Hooks |-> Unbilled] /\ stimuli = 0 /\ lostAcks = 0
      /\ had = [b \in Subs |-> {}] /\ disorder = {}
  BY DEF BillingInit
<1>2. /\ \A u \in Users : row[u].sub = None /\ row[u].status = "ACTIVE" /\ row[u].tier = "FREE"
      /\ row \in [Users -> [customer : {"stripe", "free"}, sub : Subs \cup {None},
                            status : Statuses, tier : Tiers]]
  BY DEF BillingInit, FreeRow, Statuses, Tiers
<1>3. \A h \in Hooks : hook[h].at = "idle"
  BY <1>1 DEF Unbilled
<1>4. BillingTypeOK
  BY <1>1, <1>2 DEF BillingTypeOK, Unbilled
<1>5. RowCoherent /\ \A u \in Users : RowAgrees(u)
  BY <1>2 DEF RowCoherent, RowAgrees
<1>6. \A b \in Subs : HadOK(b) /\ InOrder(b) /\ ChainOK(b)
  BY <1>1, <1>3 DEF HadOK, InOrder, ChainOK, EventsOf, Delivery
<1> QED
  BY <1>1, <1>3, <1>4, <1>5, <1>6 DEF BillingIInv, HookOK, StoresOK

(* POST /create-checkout.                                                  *)
LEMMA CheckoutStep ==
  ASSUME BillingIInv, NEW u \in Users, CreateCheckout(u)
  PROVE  BillingIInv'
<1>1. stimuli' = stimuli + 1 /\ stimuli \in Nat
  BY BillingParts DEF CreateCheckout, Stimulus, BillingTypeOK
<1>2. sessions' \subseteq [user : Users, price : Prices]
  BY BillingParts DEF CreateCheckout, BillingTypeOK, Prices
<1> QED
  BY <1>1, <1>2, OutsideStep DEF CreateCheckout

(* A session is paid: a subscription that had no state gets its first.     *)
LEMMA SubscribesStep ==
  ASSUME BillingIInv, StripeSubscribes
  PROVE  BillingIInv'
<1>1. PICK x \in sessions, b \in Subs :
        /\ stripe[b] = None /\ sessions' = sessions \ {x}
        /\ StripeHas(b, [user |-> x.user, status |-> "active", price |-> x.price], {"sync"})
  BY DEF StripeSubscribes
<1>2. stimuli' = stimuli /\ stimuli \in Nat
  BY BillingParts DEF StripeSubscribes, BillingTypeOK
<1>3. sessions \subseteq [user : Users, price : Prices]
  BY BillingParts DEF BillingTypeOK
<1>4. [user |-> x.user, status |-> "active", price |-> x.price] \in StripeState
  BY <1>3 DEF StripeState
<1> QED
  BY <1>1, <1>2, <1>3, <1>4, StripeStep

(* The five ways a subscription changes.                                   *)
LEMMA ChangesStep ==
  ASSUME BillingIInv, StripeChanges
  PROVE  BillingIInv'
<1>1. PICK b \in Subs :
        /\ stripe[b] # None /\ stripe[b].status # "canceled"
        /\ \/ \E p \in Prices \ {stripe[b].price} :
                StripeHas(b, [stripe[b] EXCEPT !.price = p], {"sync"})
           \/ StripeHas(b, [stripe[b] EXCEPT !.status = "paused"], {"sync"})
           \/ StripeHas(b, [stripe[b] EXCEPT !.status = "active"], {"sync", "paid"})
           \/ StripeHas(b, [stripe[b] EXCEPT !.status = "past_due"], {"sync", "unpaid"})
           \/ StripeHas(b, [stripe[b] EXCEPT !.status = "canceled"], {"deleted"})
  BY DEF StripeChanges
<1>2. /\ stimuli' = stimuli + 1 /\ stimuli \in Nat /\ sessions' = sessions
      /\ sessions \subseteq [user : Users, price : Prices] /\ stripe[b] \in StripeState
  BY <1>1, BillingParts DEF StripeChanges, Stimulus, BillingTypeOK
<1> DEFINE Follows(s, types) ==
      /\ s \in StripeState /\ s.user = stripe[b].user
      /\ types \subseteq {"sync", "paid", "unpaid", "deleted"} /\ types # {}
      /\ "deleted" \in types =>
           types = {"deleted"} /\ s.status = "canceled" /\ s.price = stripe[b].price
      /\ "unpaid" \in types => "sync" \in types /\ s.status = "past_due"
<1>3. PICK s, types : Follows(s, types) /\ StripeHas(b, s, types)
  <2>1. ASSUME NEW p \in Prices PROVE Follows([stripe[b] EXCEPT !.price = p], {"sync"})
    BY <1>2 DEF StripeState
  <2>2. /\ Follows([stripe[b] EXCEPT !.status = "paused"], {"sync"})
        /\ Follows([stripe[b] EXCEPT !.status = "active"], {"sync", "paid"})
    BY <1>2 DEF StripeState
  <2>3. Follows([stripe[b] EXCEPT !.status = "past_due"], {"sync", "unpaid"})
    BY <1>2 DEF StripeState
  <2>4. Follows([stripe[b] EXCEPT !.status = "canceled"], {"deleted"})
    BY <1>2 DEF StripeState
  <2> HIDE DEF Follows
  <2> QED
    BY <1>1, <2>1, <2>2, <2>3, <2>4
<1> QED
  BY <1>1, <1>2, <1>3, StripeStep

(* Every step of the subscriptions.                                        *)
LEMMA BillingSteps ==
  ASSUME BillingIInv, BillingNext
  PROVE  BillingIInv'
<1>1. ASSUME NEW h \in Hooks, HookDeleted(h) PROVE BillingIInv'
  <2>1. Delivery(h) /\ SetStatus(h, "CANCELED") /\ Outside /\ UNCHANGED disorder
    BY <1>1 DEF HookDeleted, Delivery
  <2>2. hook[h].ev.type = "deleted" /\ hook[h].ev.snapshot.status = "canceled"
    BY <1>1, <2>1, DeliveryFacts DEF HookDeleted, HookOK, EventOK
  <2> QED
    BY <2>1, <2>2, StatusStep DEF StatusOf, Statuses
<1>2. ASSUME NEW h \in Hooks, HookUnpaid(h) PROVE BillingIInv'
  <2>1. Delivery(h) /\ SetStatus(h, "PAST_DUE") /\ Outside /\ UNCHANGED disorder
    BY <1>2 DEF HookUnpaid, Delivery
  <2>2. hook[h].ev.type = "unpaid" /\ hook[h].ev.snapshot.status = "past_due"
    BY <1>2, <2>1, DeliveryFacts DEF HookUnpaid, HookOK, EventOK
  <2> QED
    BY <2>1, <2>2, StatusStep DEF StatusOf, Statuses
<1> QED
  BY <1>1, <1>2, CheckoutStep, SubscribesStep, ChangesStep, DeliverStep, SyncStep, PaidStep,
     HookRejectsStep DEF BillingNext, Hooked

(* A row is always something Stripe once said, and what it says now when   *)
(* the events came in order.                                               *)
LEMMA RowIsTrue ==
  ASSUME BillingIInv
  PROVE  RowTrue
<1>1. ASSUME NEW u \in Users, row[u].sub # None, row[u].sub \notin disorder,
             ~ \E e \in events : e.sub = row[u].sub
      PROVE  /\ row[u].status = StatusOf(stripe[row[u].sub].status)
             /\ row[u].tier = TierOf(stripe[row[u].sub].price)
  <2>1. EventsOf(row[u].sub) = {}
    BY <1>1 DEF EventsOf
  <2> QED
    BY <1>1, <2>1, BillingParts DEF RowAgrees
<1> QED
  BY <1>1, BillingParts DEF RowTrue, MirrorsStripe

(***************************************************************************)
(* The keys.                                                               *)
(***************************************************************************)
LEMMA KeyParts ==
  ASSUME KeysIInv
  PROVE  /\ BillingIInv /\ BillingTypeOK /\ KeysTypeOK /\ KeysBounded
         /\ key \in [Keys -> KeyRow \cup {None}] /\ call \in [Slots -> KeyRequest]
         /\ bestTier \in [Users -> Nat] /\ active \subseteq Slots
         /\ \A s \in Slots : CallOK(s) /\ call[s] \in KeyRequest
BY BillingParts DEF KeysIInv, KeysTypeOK

(* No handler takes back a key, gives it to another user, or revives it.   *)
KeysEvolve ==
  \A k \in Keys : key[k] # None =>
    /\ key'[k] # None /\ key'[k].user = key[k].user
    /\ KeyDead(k) => key'[k].revoked \/ key'[k].expired

(* A user's best limit only grows and covers the present tier; a request in *)
(* progress stays among those whose user was ACTIVE.                       *)
LEMMA HistoriesOK ==
  ASSUME KeysIInv, BillingIInv', Histories
  PROVE  /\ bestTier' \in [Users -> Nat] /\ active' \subseteq Slots
         /\ \A u \in Users :
              bestTier[u] <= bestTier'[u] /\ MaxKeys[row'[u].tier] <= bestTier'[u]
         /\ \A s \in Slots : call'[s].at # "idle" =>
              (s \in active' <=> (s \in active /\ call[s].at # "idle")
                                \/ row'[call'[s].user].status = "ACTIVE")
<1>1. \A u \in Users : row'[u].tier \in Tiers
  BY DEF BillingIInv, BillingTypeOK
<1>2. \A u \in Users : MaxKeys[row'[u].tier] \in Nat /\ bestTier[u] \in Nat
  BY <1>1, KeyParts, ApiKeysAssumption
<1>3. \A u \in Users : bestTier'[u] =
        IF MaxKeys[row'[u].tier] > bestTier[u] THEN MaxKeys[row'[u].tier] ELSE bestTier[u]
  BY DEF Histories
<1>4. \A u \in Users :
        /\ bestTier'[u] \in Nat
        /\ bestTier[u] <= bestTier'[u] /\ MaxKeys[row'[u].tier] <= bestTier'[u]
  BY <1>2, <1>3
<1>5. bestTier' \in [Users -> Nat]
  BY <1>4 DEF Histories
<1> QED
  BY <1>4, <1>5 DEF Histories

(* What a request knows stays true until it moves.                         *)
LEMMA CallStable ==
  ASSUME KeysIInv, BillingIInv', Histories, KeysEvolve,
         NEW s \in Slots, call'[s] = call[s]
  PROVE  CallOK(s)'
<1>1. CallOK(s) /\ call[s] \in KeyRequest
  BY KeyParts
<1> DEFINE r == call[s]
<1>2. /\ r.at = "find" => r.via \in Keys /\ KeyOwned(r.via, r.user)'
      /\ r.at = "find" /\ r.late => KeyDead(r.via)'
  BY <1>1 DEF CallOK, KeyOwned, KeyDead, KeysEvolve
<1>3. r.at = "mark" => KeyOwned(r.target, r.user)'
  BY <1>1 DEF CallOK, KeyOwned, KeysEvolve
<1>4. r.via # None /\ r.at \notin {"idle", "find"} => ~r.late /\ s \in active'
  BY <1>1, HistoriesOK DEF CallOK
<1>5. r.at = "count" => r.seen \in Tiers /\ MaxKeys[r.seen] <= bestTier'[r.user]
  <2> SUFFICES ASSUME r.at = "count" PROVE MaxKeys[r.seen] <= bestTier'[r.user]
    BY <1>1 DEF CallOK
  <2>1. r.user \in Users /\ r.seen \in Tiers /\ MaxKeys[r.seen] <= bestTier[r.user]
    BY <1>1 DEF CallOK
  <2>2. /\ bestTier[r.user] \in Nat /\ bestTier'[r.user] \in Nat /\ MaxKeys[r.seen] \in Nat
        /\ bestTier[r.user] <= bestTier'[r.user]
    BY <2>1, KeyParts, HistoriesOK, ApiKeysAssumption
  <2> QED
    BY <2>1, <2>2
<1> QED
  BY <1>1, <1>2, <1>3, <1>4, <1>5 DEF CallOK, KeyOwned, KeyDead

(* The room for a user's keys.                                             *)
Room(u) ==
  Cardinality(Live(u)) + Cardinality(Inserting(u)) <= bestTier[u] + Cardinality(Slots) - 1

(* What is counted is finite, and there is a slot.                         *)
LEMMA Finite ==
  ASSUME NEW u
  PROVE  /\ IsFiniteSet(Live(u)) /\ Cardinality(Live(u)) \in Nat
         /\ IsFiniteSet(Inserting(u)) /\ Cardinality(Inserting(u)) \in Nat
         /\ Cardinality(Inserting(u)) <= Cardinality(Slots)
         /\ Cardinality(Slots) \in Nat /\ Cardinality(Slots) >= 1
<1>1. Live(u) \subseteq Keys /\ Inserting(u) \subseteq Slots
  BY DEF Live, Inserting
<1>2. IsFiniteSet(Live(u)) /\ IsFiniteSet(Inserting(u)) /\ IsFiniteSet(Slots)
  BY <1>1, ApiKeysAssumption, FS_Subset
<1>3. Cardinality(Inserting(u)) <= Cardinality(Slots)
  BY <1>1, <1>2, FS_Subset
<1>4. Cardinality(Slots) # 0
  BY <1>2, ApiKeysAssumption, FS_EmptySet
<1> QED
  BY <1>2, <1>3, <1>4, FS_CardinalityType

(* Fewer keys and fewer insertions leave the room there was.               *)
LEMMA RoomStays ==
  ASSUME KeysIInv, BillingIInv', Histories, NEW u \in Users,
         Live(u)' \subseteq Live(u), Inserting(u)' \subseteq Inserting(u)
  PROVE  Room(u)'
<1>1. Cardinality(Live(u)') <= Cardinality(Live(u)) /\ Cardinality(Live(u)') \in Nat
  BY Finite, FS_Subset, FS_CardinalityType
<1>2. /\ Cardinality(Inserting(u)') <= Cardinality(Inserting(u))
      /\ Cardinality(Inserting(u)') \in Nat
  BY Finite, FS_Subset, FS_CardinalityType
<1>3. bestTier[u] <= bestTier'[u] /\ bestTier[u] \in Nat /\ bestTier'[u] \in Nat
  BY HistoriesOK, KeyParts
<1>4. Room(u)
  BY KeyParts DEF KeysBounded, Room, Inserting
<1>5. Cardinality(Slots) \in Nat /\ Cardinality(Live(u)) \in Nat /\ Cardinality(Inserting(u)) \in Nat
  BY Finite
<1> HIDE DEF Live, Inserting
<1> QED
  BY <1>1, <1>2, <1>3, <1>4, <1>5 DEF Room

(* A step of one request.                                                  *)
LEMMA CallStep ==
  ASSUME KeysIInv, BillingIInv', Histories, KeysEvolve,
         key' \in [Keys -> KeyRow \cup {None}],
         NEW s \in Slots, NEW r \in KeyRequest, Step(s, r), CallOK(s)',
         \A u \in Users : Room(u)'
  PROVE  KeysIInv'
<1>1. call' \in [Slots -> KeyRequest] /\ \A t \in Slots \ {s} : call'[t] = call[t]
  BY KeyParts DEF Step
<1>2. \A t \in Slots : CallOK(t)'
  BY <1>1, CallStable
<1>3. KeysTypeOK'
  <2>1. BillingTypeOK' /\ bestTier' \in [Users -> Nat] /\ active' \subseteq Slots
    BY HistoriesOK DEF BillingIInv
  <2>2. (key \in [Keys -> KeyRow \cup {None}])' /\ (call \in [Slots -> KeyRequest])'
    BY <1>1 DEF KeyRow, KeyRequest
  <2> QED
    BY <2>1, <2>2 DEF KeysTypeOK
<1>4. KeysBounded'
  BY DEF KeysBounded, Room, Inserting
<1>5. \A u \in Users : (MaxKeys[row[u].tier] <= bestTier[u])'
  BY HistoriesOK
<1> QED
  BY <1>2, <1>3, <1>4, <1>5 DEF KeysIInv

(* A step that leaves the keys alone.                                      *)
LEMMA QueryStep ==
  ASSUME KeysIInv, BillingIInv', Histories, key' = key,
         NEW s \in Slots, NEW r \in KeyRequest, Step(s, r), CallOK(s)',
         r.at = "insert" => r.user \in Users /\ Cardinality(Live(r.user)) < bestTier[r.user]
  PROVE  KeysIInv'
<1>1. call'[s] = r /\ \A t \in Slots \ {s} : call'[t] = call[t]
  BY KeyParts DEF Step
<1>2. KeysEvolve
  BY DEF KeysEvolve, KeyDead
<1>3. \A u \in Users : Live(u)' = Live(u)
  BY DEF Live
<1>4. ASSUME NEW u \in Users PROVE Room(u)'
  <2>1. CASE r.at = "insert" /\ r.user = u
    <3>1. /\ Cardinality(Inserting(u)') <= Cardinality(Slots)
          /\ Cardinality(Inserting(u)') \in Nat
      <4>1. Inserting(u)' \subseteq Slots /\ IsFiniteSet(Slots)
        BY ApiKeysAssumption DEF Inserting
      <4> QED
        BY <4>1, FS_Subset, FS_CardinalityType
    <3>2. bestTier[u] <= bestTier'[u] /\ bestTier[u] \in Nat /\ bestTier'[u] \in Nat
      BY HistoriesOK, KeyParts
    <3>3. /\ Cardinality(Live(u)) < bestTier[u]
          /\ Cardinality(Slots) \in Nat /\ Cardinality(Live(u)) \in Nat
      BY <2>1, Finite
    <3> HIDE DEF Live, Inserting
    <3> QED
      BY <1>3, <3>1, <3>2, <3>3 DEF Room
  <2>2. CASE ~ (r.at = "insert" /\ r.user = u)
    <3>1. Inserting(u)' \subseteq Inserting(u)
      BY <1>1, <2>2 DEF Inserting
    <3> QED
      BY <1>3, <3>1, RoomStays
  <2> QED
    BY <2>1, <2>2
<1> QED
  BY <1>2, <1>4, CallStep, KeyParts

(* An answer that leaves the keys alone.                                   *)
LEMMA ReplyStep ==
  ASSUME KeysIInv, BillingIInv', Histories, key' = key, NEW s \in Slots, Reply(s)
  PROVE  KeysIInv'
<1>1. call'[s] = Unasked
  BY KeyParts DEF Reply, Step
<1>2. Unasked \in KeyRequest /\ Unasked.at = "idle" /\ Unasked.via = None
  BY DEF Unasked, KeyRequest
<1>3. CallOK(s)'
  BY <1>1, <1>2 DEF CallOK
<1> QED
  BY <1>2, <1>3, QueryStep DEF Reply

(* The handlers' steps leave the subscriptions as they are.                *)
LEMMA KeysOnlyStep ==
  ASSUME KeysIInv, UNCHANGED billing, stimuli' \in Nat, stimuli <= stimuli'
  PROVE  BillingIInv' /\ row' = row
<1>1. UNCHANGED <<row, sessions, stripe, events, hook, lostAcks, had, disorder>>
  BY DEF billing
<1>2. sessions' \subseteq [user : Users, price : Prices]
  BY <1>1, KeyParts DEF BillingTypeOK
<1> QED
  BY <1>1, <1>2, KeyParts, OutsideStep

(* A handler's step is no stimulus.                                        *)
LEMMA NoStimulus ==
  ASSUME KeysIInv, KeysOnly
  PROVE  BillingIInv' /\ row' = row
<1>1. stimuli' = stimuli /\ stimuli \in Nat /\ UNCHANGED billing
  BY KeyParts DEF KeysOnly, BillingTypeOK
<1> QED
  BY <1>1, KeysOnlyStep

(* A request arrives, with a session or with a key.                        *)
LEMMA AskStep ==
  ASSUME KeysIInv, Histories, NEW s \in Slots, Ask(s)
  PROVE  KeysIInv'
<1>1. stimuli' = stimuli + 1 /\ stimuli \in Nat /\ UNCHANGED billing /\ key' = key
  BY KeyParts DEF Ask, Stimulus, BillingTypeOK
<1>2. BillingIInv'
  BY <1>1, KeysOnlyStep
<1>3. PICK r :
        /\ Step(s, r) /\ r \in KeyRequest
        /\ r.op \in {"create", "revoke", "checkpoint"} /\ (r.op = "revoke" => r.target \in Keys)
        /\ r.user \in Users
        /\ \/ r.at = "load" /\ r.via = None
           \/ /\ r.at = "find" /\ r.via \in Keys /\ KeyOwned(r.via, r.user)
              /\ r.late => KeyDead(r.via)
  <2>1. PICK op \in {"create", "revoke", "checkpoint"}, target \in Keys \cup {None} :
          /\ op = "revoke" <=> target # None
          /\ \/ \E u \in Users :
                  Step(s, [Unasked EXCEPT !.at = "load", !.op = op, !.user = u, !.target = target])
             \/ \E k \in Keys :
                  /\ key[k] # None
                  /\ Step(s, [Unasked EXCEPT !.at = "find", !.op = op, !.user = key[k].user,
                                !.via = k, !.late = key[k].revoked \/ key[k].expired,
                                !.target = target])
    BY DEF Ask
  <2>2. CASE \E u \in Users :
               Step(s, [Unasked EXCEPT !.at = "load", !.op = op, !.user = u, !.target = target])
    <3>1. PICK u \in Users :
            Step(s, [Unasked EXCEPT !.at = "load", !.op = op, !.user = u, !.target = target])
      BY <2>2
    <3> DEFINE r == [Unasked EXCEPT !.at = "load", !.op = op, !.user = u, !.target = target]
    <3>2. /\ r \in KeyRequest /\ r.op = op /\ r.target = target /\ r.user = u
          /\ r.at = "load" /\ r.via = None
      BY DEF Unasked, KeyRequest
    <3> HIDE DEF r
    <3> QED
      BY <2>1, <3>1, <3>2 DEF r
  <2>3. CASE \E k \in Keys :
               /\ key[k] # None
               /\ Step(s, [Unasked EXCEPT !.at = "find", !.op = op, !.user = key[k].user,
                             !.via = k, !.late = key[k].revoked \/ key[k].expired,
                             !.target = target])
    <3>1. PICK k \in Keys :
            /\ key[k] # None
            /\ Step(s, [Unasked EXCEPT !.at = "find", !.op = op, !.user = key[k].user,
                          !.via = k, !.late = key[k].revoked \/ key[k].expired,
                          !.target = target])
      BY <2>3
    <3>2. key[k] \in KeyRow
      BY <3>1, KeyParts
    <3>3. key[k].user \in Users /\ key[k].revoked \in BOOLEAN /\ key[k].expired \in BOOLEAN
      BY <3>2 DEF KeyRow
    <3> DEFINE r == [Unasked EXCEPT !.at = "find", !.op = op, !.user = key[k].user,
                       !.via = k, !.late = key[k].revoked \/ key[k].expired, !.target = target]
    <3>4. /\ r \in KeyRequest /\ r.op = op /\ r.target = target /\ r.user = key[k].user
          /\ r.at = "find" /\ r.via = k /\ r.late = (key[k].revoked \/ key[k].expired)
      BY <3>3 DEF Unasked, KeyRequest
    <3> HIDE DEF r
    <3> QED
      BY <2>1, <3>1, <3>3, <3>4 DEF KeyOwned, KeyDead, r
  <2> QED
    BY <2>1, <2>2, <2>3
<1>4. call'[s] = r
  BY <1>3, KeyParts DEF Step
<1>5. CallOK(s)'
  BY <1>1, <1>3, <1>4 DEF CallOK, KeyOwned, KeyDead
<1> QED
  BY <1>1, <1>2, <1>3, <1>5, QueryStep

(* validateKey lets through only a key that was good when it was presented: *)
(* no key comes back to life.                                              *)
LEMMA FindKeyStep ==
  ASSUME KeysIInv, Histories, NEW s \in Slots, FindKey(s)
  PROVE  KeysIInv'
<1>1. key' = key /\ BillingIInv' /\ row' = row
  BY NoStimulus DEF FindKey
<1>2. CASE ~ KeyAccepted(call[s].via)
  BY <1>1, <1>2, ReplyStep DEF FindKey
<1>3. CASE KeyAccepted(call[s].via)
  <2> DEFINE k == call[s].via
             r == [call[s] EXCEPT !.at = "load", !.scopes = key[k].scopes]
  <2>1. /\ call[s] \in KeyRequest /\ CallOK(s) /\ call[s].at = "find" /\ k \in Keys
        /\ KeyOwned(k, call[s].user) /\ key[k] \in KeyRow
    BY KeyParts DEF FindKey, CallOK, KeyOwned
  <2>2. /\ r \in KeyRequest /\ r.at = "load" /\ r.user = call[s].user /\ r.via = k
        /\ r.late = call[s].late /\ r.op = call[s].op /\ r.target = call[s].target
    BY <2>1 DEF KeyRequest, KeyRow
  <2>3. Step(s, r)
    BY <1>3 DEF FindKey
  <2> HIDE DEF r
  <2>4. call'[s] = r
    BY <2>3, KeyParts DEF Step
  <2>5. ~ r.late
    BY <1>3, <2>1, <2>2 DEF CallOK, KeyDead, KeyAccepted
  <2>6. s \in active'
    BY <1>1, <1>3, <2>1, <2>2, <2>4, HistoriesOK DEF KeyAccepted, KeyOwned
  <2>7. CallOK(s)'
    BY <2>1, <2>2, <2>4, <2>5, <2>6 DEF CallOK
  <2> QED
    BY <1>1, <2>2, <2>3, <2>7, QueryStep
<1> QED
  BY <1>2, <1>3

(* The gate's answer holds through the steps of a handler.                 *)
LEMMA Admitted ==
  ASSUME KeysIInv, BillingIInv', Histories, NEW s \in Slots,
         call[s].at \notin {"idle", "find"}, call'[s].at # "idle",
         call'[s].via = call[s].via, call'[s].late = call[s].late
  PROVE  call'[s].via # None => ~ call'[s].late /\ s \in active'
BY KeyParts, HistoriesOK DEF CallOK

(* The gates.                                                              *)
LEMMA LoadUserStep ==
  ASSUME KeysIInv, Histories, NEW s \in Slots, LoadUser(s)
  PROVE  KeysIInv'
<1>1. key' = key /\ BillingIInv' /\ row' = row
  BY NoStimulus DEF LoadUser
<1> DEFINE q == [call[s] EXCEPT !.seen = row[call[s].user].status]
           r == [q EXCEPT !.at = q.op]
<1>2. Reply(s) \/ Step(s, r)
  BY DEF LoadUser
<1>3. /\ call[s] \in KeyRequest /\ CallOK(s) /\ call[s].at = "load" /\ call[s].user \in Users
      /\ call[s].op \in {"create", "revoke", "checkpoint"}
  BY KeyParts DEF LoadUser, CallOK
<1>4. row[call[s].user].status \in Statuses
  BY <1>3, KeyParts DEF BillingTypeOK
<1>5. /\ r \in KeyRequest /\ r.at = call[s].op /\ r.user = call[s].user /\ r.via = call[s].via
      /\ r.late = call[s].late /\ r.target = call[s].target
  BY <1>3, <1>4 DEF KeyRequest
<1> HIDE DEF r
<1>6. ASSUME Step(s, r) PROVE KeysIInv'
  <2>1. call'[s] = r
    BY <1>6, KeyParts DEF Step
  <2>2. r.via # None => ~ r.late /\ s \in active'
    BY <1>1, <1>3, <1>5, <2>1, Admitted
  <2>3. CallOK(s)'
    BY <1>3, <1>5, <2>1, <2>2 DEF CallOK
  <2>4. r.at # "insert"
    BY <1>3, <1>5
  <2> QED
    BY <1>1, <1>5, <1>6, <2>3, <2>4, QueryStep
<1> QED
  BY <1>1, <1>2, <1>6, ReplyStep

(* The tier that is read is one whose limit the user has had.              *)
LEMMA CreateReadTierStep ==
  ASSUME KeysIInv, Histories, NEW s \in Slots, CreateReadTier(s)
  PROVE  KeysIInv'
<1>1. key' = key /\ BillingIInv' /\ row' = row
  BY NoStimulus DEF CreateReadTier
<1> DEFINE r == [call[s] EXCEPT !.at = "count", !.seen = row[call[s].user].tier]
<1>2. call[s] \in KeyRequest /\ CallOK(s) /\ call[s].at = "create" /\ call[s].user \in Users
  BY KeyParts DEF CreateReadTier, CallOK
<1>3. row[call[s].user].tier \in Tiers
  BY <1>2, KeyParts DEF BillingTypeOK
<1>4. /\ r \in KeyRequest /\ r.at = "count" /\ r.user = call[s].user /\ r.via = call[s].via
      /\ r.late = call[s].late /\ r.target = call[s].target /\ r.seen = row[call[s].user].tier
  BY <1>2, <1>3 DEF KeyRequest
<1>5. Step(s, r)
  BY DEF CreateReadTier
<1> HIDE DEF r
<1>6. call'[s] = r
  BY <1>5, KeyParts DEF Step
<1>7. r.via # None => ~ r.late /\ s \in active'
  BY <1>1, <1>2, <1>4, <1>6, Admitted
<1>8. r.seen \in Tiers /\ MaxKeys[r.seen] <= bestTier'[r.user]
  BY <1>1, <1>2, <1>3, <1>4, HistoriesOK
<1>9. CallOK(s)'
  BY <1>2, <1>4, <1>6, <1>7, <1>8 DEF CallOK
<1> QED
  BY <1>1, <1>4, <1>5, <1>9, QueryStep

(* Whoever goes on to insert counted fewer keys than the limit.            *)
LEMMA CreateCountStep ==
  ASSUME KeysIInv, Histories, NEW s \in Slots, CreateCount(s)
  PROVE  KeysIInv'
<1>1. key' = key /\ BillingIInv' /\ row' = row
  BY NoStimulus DEF CreateCount
<1>2. /\ call[s] \in KeyRequest /\ CallOK(s) /\ call[s].at = "count" /\ call[s].user \in Users
      /\ call[s].seen \in Tiers /\ MaxKeys[call[s].seen] <= bestTier[call[s].user]
  BY KeyParts DEF CreateCount, CallOK
<1>3. CASE Cardinality(Live(call[s].user)) >= MaxKeys[call[s].seen]
  BY <1>1, <1>3, ReplyStep DEF CreateCount
<1>4. CASE ~ (Cardinality(Live(call[s].user)) >= MaxKeys[call[s].seen])
  <2> DEFINE r == [call[s] EXCEPT !.at = "insert"]
  <2>1. /\ r \in KeyRequest /\ r.at = "insert" /\ r.user = call[s].user /\ r.via = call[s].via
        /\ r.late = call[s].late /\ r.target = call[s].target
    BY <1>2 DEF KeyRequest
  <2>2. Step(s, r)
    BY <1>4 DEF CreateCount
  <2> HIDE DEF r
  <2>3. call'[s] = r
    BY <2>2, KeyParts DEF Step
  <2>4. Cardinality(Live(r.user)) < bestTier[r.user]
    <3>1. MaxKeys[call[s].seen] \in Nat /\ bestTier[call[s].user] \in Nat
      BY <1>2, KeyParts, ApiKeysAssumption
    <3>2. Cardinality(Live(call[s].user)) \in Nat
      BY Finite
    <3> QED
      BY <1>2, <1>4, <2>1, <3>1, <3>2
  <2>5. r.via # None => ~ r.late /\ s \in active'
    BY <1>1, <1>2, <2>1, <2>3, Admitted
  <2>6. CallOK(s)'
    BY <1>2, <2>1, <2>3, <2>5 DEF CallOK
  <2> QED
    BY <1>1, <1>2, <2>1, <2>2, <2>4, <2>6, QueryStep
<1> QED
  BY <1>3, <1>4

(* One key more, one request less that will insert one.                    *)
LEMMA CreateInsertStep ==
  ASSUME KeysIInv, Histories, NEW s \in Slots, CreateInsert(s)
  PROVE  KeysIInv'
<1>1. BillingIInv' /\ row' = row /\ Reply(s)
  BY NoStimulus DEF CreateInsert
<1>2. /\ call[s] \in KeyRequest /\ call[s].at = "insert" /\ call[s].user \in Users
  BY KeyParts DEF CreateInsert, CallOK
<1>3. PICK k \in Keys, scopes \in {{}, {"write:keys"}} :
        /\ key[k] = None
        /\ key' = [key EXCEPT ![k] = [user |-> call[s].user, scopes |-> scopes,
                                      revoked |-> FALSE, expired |-> FALSE]]
  BY DEF CreateInsert
<1> DEFINE made == [user |-> call[s].user, scopes |-> scopes, revoked |-> FALSE, expired |-> FALSE]
<1>4. made \in KeyRow /\ made.user = call[s].user
  BY <1>2 DEF KeyRow
<1>5. /\ key' \in [Keys -> KeyRow \cup {None}] /\ key'[k] = made
      /\ \A j \in Keys \ {k} : key'[j] = key[j]
  BY <1>3, <1>4, KeyParts
<1> HIDE DEF made
<1>6. KeysEvolve
  BY <1>3, <1>5 DEF KeysEvolve, KeyDead
<1>7. /\ call'[s] = Unasked /\ \A t \in Slots \ {s} : call'[t] = call[t]
      /\ Unasked \in KeyRequest /\ Unasked.at = "idle" /\ Unasked.via = None
  BY <1>1, KeyParts DEF Reply, Step, Unasked, KeyRequest
<1>8. CallOK(s)'
  BY <1>7 DEF CallOK
<1>9. ASSUME NEW u \in Users PROVE Room(u)'
  <2>1. CASE u # call[s].user
    <3>1. Live(u)' \subseteq Live(u)
      BY <1>4, <1>5, <2>1 DEF Live
    <3>2. Inserting(u)' \subseteq Inserting(u)
      BY <1>7 DEF Inserting
    <3> QED
      BY <1>1, <3>1, <3>2, RoomStays
  <2>2. CASE u = call[s].user
    <3>1. Live(u)' \subseteq Live(u) \cup {k}
      BY <1>5 DEF Live
    <3>2. Inserting(u)' \subseteq Inserting(u) \ {s} /\ s \in Inserting(u)
      BY <1>2, <1>7, <2>2 DEF Inserting
    <3>3. Cardinality(Live(u)') <= Cardinality(Live(u)) + 1 /\ Cardinality(Live(u)') \in Nat
      <4>1. IsFiniteSet(Live(u) \cup {k})
            /\ Cardinality(Live(u) \cup {k}) <= Cardinality(Live(u)) + 1
        <5>1. IsFiniteSet(Live(u)) /\ Cardinality(Live(u)) \in Nat
          BY Finite
        <5>2. /\ IsFiniteSet(Live(u) \cup {k})
              /\ Cardinality(Live(u) \cup {k}) =
                   IF k \in Live(u) THEN Cardinality(Live(u)) ELSE Cardinality(Live(u)) + 1
          BY <5>1, FS_AddElement
        <5> QED
          BY <5>1, <5>2
      <4>2. Cardinality(Live(u)') <= Cardinality(Live(u) \cup {k}) /\ IsFiniteSet(Live(u)')
        BY <3>1, <4>1, FS_Subset
      <4> QED
        BY <4>1, <4>2, Finite, FS_CardinalityType
    <3>4. /\ Cardinality(Inserting(u)') <= Cardinality(Inserting(u)) - 1
          /\ Cardinality(Inserting(u)') \in Nat
      <4>1. /\ IsFiniteSet(Inserting(u) \ {s})
            /\ Cardinality(Inserting(u) \ {s}) = Cardinality(Inserting(u)) - 1
        BY <3>2, Finite, FS_RemoveElement
      <4>2. /\ Cardinality(Inserting(u)') <= Cardinality(Inserting(u) \ {s})
            /\ IsFiniteSet(Inserting(u)')
        BY <3>2, <4>1, FS_Subset
      <4> QED
        BY <4>1, <4>2, FS_CardinalityType
    <3>5. bestTier[u] <= bestTier'[u] /\ bestTier[u] \in Nat /\ bestTier'[u] \in Nat
      BY <1>1, HistoriesOK, KeyParts
    <3>6. Room(u)
      BY KeyParts DEF KeysBounded, Room, Inserting
    <3>7. /\ Cardinality(Slots) \in Nat /\ Cardinality(Live(u)) \in Nat
          /\ Cardinality(Inserting(u)) \in Nat
      BY Finite
    <3> HIDE DEF Live, Inserting
    <3> QED
      BY <3>3, <3>4, <3>5, <3>6, <3>7 DEF Room
  <2> QED
    BY <2>1, <2>2
<1> QED
  BY <1>1, <1>5, <1>6, <1>7, <1>8, <1>9, CallStep DEF Reply

(* The key to be marked is the caller's own.                               *)
LEMMA RevokeFindStep ==
  ASSUME KeysIInv, Histories, NEW s \in Slots, RevokeFind(s)
  PROVE  KeysIInv'
<1>1. key' = key /\ BillingIInv' /\ row' = row
  BY NoStimulus DEF RevokeFind
<1>2. /\ call[s] \in KeyRequest /\ CallOK(s) /\ call[s].at = "revoke" /\ call[s].user \in Users
      /\ call[s].target \in Keys
  BY KeyParts DEF RevokeFind, CallOK
<1>3. CASE ~ KeyOwned(call[s].target, call[s].user)
  BY <1>1, <1>3, ReplyStep DEF RevokeFind, KeyOwned
<1>4. CASE KeyOwned(call[s].target, call[s].user)
  <2> DEFINE r == [call[s] EXCEPT !.at = "mark"]
  <2>1. /\ r \in KeyRequest /\ r.at = "mark" /\ r.user = call[s].user /\ r.via = call[s].via
        /\ r.late = call[s].late /\ r.target = call[s].target
    BY <1>2 DEF KeyRequest
  <2>2. Step(s, r)
    BY <1>4 DEF RevokeFind, KeyOwned
  <2> HIDE DEF r
  <2>3. call'[s] = r
    BY <2>2, KeyParts DEF Step
  <2>4. r.via # None => ~ r.late /\ s \in active'
    BY <1>1, <1>2, <2>1, <2>3, Admitted
  <2>5. CallOK(s)'
    BY <1>1, <1>2, <1>4, <2>1, <2>3, <2>4 DEF CallOK, KeyOwned
  <2> QED
    BY <1>1, <2>1, <2>2, <2>5, QueryStep
<1> QED
  BY <1>3, <1>4

(* A key that is marked keeps its owner and is not counted any longer.     *)
LEMMA MarkedKey ==
  ASSUME KeysIInv, NEW k \in Keys, key[k] # None,
         \/ key' = [key EXCEPT ![k].revoked = TRUE]
         \/ key' = [key EXCEPT ![k].expired = TRUE]
  PROVE  /\ KeysEvolve /\ key' \in [Keys -> KeyRow \cup {None}]
         /\ \A u \in Users : Live(u)' \subseteq Live(u)
<1>1. key \in [Keys -> KeyRow \cup {None}] /\ key[k] \in KeyRow
  BY KeyParts
<1>2. /\ \A j \in Keys \ {k} : key'[j] = key[j]
      /\ key'[k] \in KeyRow /\ key'[k].user = key[k].user
      /\ key[k].revoked => key'[k].revoked
      /\ key[k].expired => key'[k].expired
  <2>1. CASE key' = [key EXCEPT ![k].revoked = TRUE]
    <3>1. key'[k] = [key[k] EXCEPT !.revoked = TRUE] /\ \A j \in Keys \ {k} : key'[j] = key[j]
      BY <1>1, <2>1
    <3> QED
      BY <1>1, <3>1 DEF KeyRow
  <2>2. CASE key' = [key EXCEPT ![k].expired = TRUE]
    <3>1. key'[k] = [key[k] EXCEPT !.expired = TRUE] /\ \A j \in Keys \ {k} : key'[j] = key[j]
      BY <1>1, <2>2
    <3> QED
      BY <1>1, <3>1 DEF KeyRow
  <2> QED
    BY <2>1, <2>2
<1>3. None \notin KeyRow
  BY ApiKeysAssumption DEF KeyRow
<1>4. key' \in [Keys -> KeyRow \cup {None}]
  BY <1>1, <1>2
<1>5. KeysEvolve
  BY <1>2, <1>3 DEF KeysEvolve, KeyDead
<1> QED
  BY <1>2, <1>4, <1>5 DEF Live

(* The key is marked.                                                      *)
LEMMA RevokeMarkStep ==
  ASSUME KeysIInv, Histories, NEW s \in Slots, RevokeMark(s)
  PROVE  KeysIInv'
<1>1. BillingIInv' /\ row' = row /\ Reply(s)
  BY NoStimulus DEF RevokeMark
<1>2. call[s].target \in Keys /\ key[call[s].target] # None
  BY KeyParts DEF RevokeMark, CallOK, KeyOwned
<1>3. /\ KeysEvolve /\ key' \in [Keys -> KeyRow \cup {None}]
      /\ \A u \in Users : Live(u)' \subseteq Live(u)
  BY <1>2, MarkedKey DEF RevokeMark
<1>4. /\ call'[s] = Unasked /\ \A t \in Slots \ {s} : call'[t] = call[t]
      /\ Unasked \in KeyRequest /\ Unasked.at = "idle" /\ Unasked.via = None
  BY <1>1, KeyParts DEF Reply, Step, Unasked, KeyRequest
<1>5. CallOK(s)'
  BY <1>4 DEF CallOK
<1>6. \A u \in Users : Inserting(u)' \subseteq Inserting(u)
  BY <1>4 DEF Inserting
<1>7. \A u \in Users : Room(u)'
  BY <1>1, <1>3, <1>6, RoomStays
<1> QED
  BY <1>1, <1>3, <1>4, <1>5, <1>7, CallStep DEF Reply

(* Steps that leave the requests alone.                                    *)
LEMMA OtherStep ==
  ASSUME KeysIInv, BillingIInv', Histories, call' = call, KeysEvolve,
         key' \in [Keys -> KeyRow \cup {None}], \A u \in Users : Live(u)' \subseteq Live(u)
  PROVE  KeysIInv'
<1>1. \A s \in Slots : CallOK(s)'
  BY CallStable
<1>2. \A u \in Users : Inserting(u)' = Inserting(u)
  BY DEF Inserting
<1>3. \A u \in Users : Room(u)'
  BY <1>2, RoomStays
<1>4. KeysTypeOK'
  <2>1. BillingTypeOK' /\ bestTier' \in [Users -> Nat] /\ active' \subseteq Slots
    BY HistoriesOK DEF BillingIInv
  <2>2. (key \in [Keys -> KeyRow \cup {None}])' /\ (call \in [Slots -> KeyRequest])'
    BY KeyParts DEF KeyRow, KeyRequest
  <2> QED
    BY <2>1, <2>2 DEF KeysTypeOK
<1>5. KeysBounded'
  BY <1>3 DEF KeysBounded, Room, Inserting
<1>6. \A u \in Users : (MaxKeys[row[u].tier] <= bestTier[u])'
  BY HistoriesOK
<1> QED
  BY <1>1, <1>4, <1>5, <1>6 DEF KeysIInv

(***************************************************************************)
(* The theorems about keys and subscriptions.                              *)
(***************************************************************************)
(* No keys and no requests.                                                *)
LEMMA KeysStart == KeysInit => KeysIInv
<1> SUFFICES ASSUME KeysInit PROVE KeysIInv
  OBVIOUS
<1>1. BillingIInv /\ BillingTypeOK
  BY BillingStarts, BillingParts DEF KeysInit
<1>2. /\ \A s \in Slots : call[s] = Unasked
      /\ \A k \in Keys : key[k] = None
  BY DEF KeysInit
<1>3. Unasked \in KeyRequest /\ Unasked.at = "idle" /\ Unasked.via = None
  BY DEF Unasked, KeyRequest
<1>4. \A u \in Users : bestTier[u] = MaxKeys[row[u].tier] /\ bestTier[u] \in Nat
  BY <1>1, ApiKeysAssumption DEF KeysInit, BillingTypeOK
<1>5. KeysTypeOK
  BY <1>1, <1>3, <1>4 DEF KeysInit, KeysTypeOK
<1>6. \A s \in Slots : CallOK(s)
  BY <1>2, <1>3 DEF CallOK
<1>7. ASSUME NEW u \in Users PROVE Room(u)
  <2>1. Live(u) = {} /\ Inserting(u) = {}
    BY <1>2, <1>3 DEF Live, Inserting
  <2>2. Cardinality(Live(u)) = 0 /\ Cardinality(Inserting(u)) = 0
    BY <2>1, FS_EmptySet
  <2> QED
    BY <1>4, <2>2, Finite DEF Room
<1> QED
  BY <1>1, <1>4, <1>5, <1>6, <1>7 DEF KeysIInv, KeysBounded, Room, Inserting

(* Every step of requests, keys and subscriptions.                         *)
LEMMA KeysSteps ==
  ASSUME KeysIInv, KeysNext
  PROVE  KeysIInv'
<1>0. Histories
  BY DEF KeysNext
<1>1. CASE BillingNext /\ UNCHANGED <<key, call>>
  <2>1. BillingIInv' /\ call' = call /\ key' = key
    BY <1>1, KeyParts, BillingSteps
  <2>2. KeysEvolve /\ \A u \in Users : Live(u)' \subseteq Live(u)
    BY <2>1 DEF KeysEvolve, KeyDead, Live
  <2> QED
    BY <1>0, <2>1, <2>2, KeyParts, OtherStep
<1>2. ASSUME NEW k \in Keys, Expire(k) PROVE KeysIInv'
  <2>1. BillingIInv' /\ call' = call
    BY <1>2, NoStimulus DEF Expire
  <2>2. /\ KeysEvolve /\ key' \in [Keys -> KeyRow \cup {None}]
        /\ \A u \in Users : Live(u)' \subseteq Live(u)
    BY <1>2, MarkedKey DEF Expire
  <2> QED
    BY <1>0, <2>1, <2>2, OtherStep
<1>3. ASSUME NEW s \in Slots, Serve(s) \/ AwaitRejects(s) PROVE KeysIInv'
  <2>1. Reply(s) /\ KeysOnly /\ key' = key
    BY <1>3 DEF Serve, AwaitRejects
  <2> QED
    BY <1>0, <2>1, NoStimulus, ReplyStep
<1> QED
  BY <1>0, <1>1, <1>2, <1>3, AskStep, FindKeyStep, LoadUserStep, CreateReadTierStep,
     CreateCountStep, CreateInsertStep, RevokeFindStep, RevokeMarkStep
     DEF KeysNext, RequestsNext

(* Nothing changes.                                                        *)
LEMMA KeysStutter ==
  ASSUME KeysIInv, UNCHANGED keysVars
  PROVE  KeysIInv'
<1>1. UNCHANGED billing /\ stimuli' = stimuli /\ key' = key /\ call' = call
      /\ bestTier' = bestTier /\ active' = active
  BY DEF keysVars
<1>2. BillingIInv' /\ row' = row
  BY <1>1, KeysOnlyStep, KeyParts DEF BillingTypeOK
<1>3. KeysTypeOK'
  <2>1. BillingTypeOK'
    BY <1>2 DEF BillingIInv
  <2> QED
    BY <1>1, <2>1, KeyParts DEF KeysTypeOK, KeyRow, KeyRequest
<1>4. \A s \in Slots : CallOK(s)'
  BY <1>1, KeyParts DEF CallOK, KeyOwned, KeyDead
<1>5. KeysBounded'
  BY <1>1, KeyParts DEF KeysBounded, Live
<1>6. \A u \in Users : (MaxKeys[row[u].tier] <= bestTier[u])'
  BY <1>1, <1>2 DEF KeysIInv
<1> QED
  BY <1>2, <1>3, <1>4, <1>5, <1>6 DEF KeysIInv

(* The invariant of keys and subscriptions.                                *)
LEMMA KeysInvariantHolds == KeysSpec => []KeysIInv
<1>1. KeysIInv /\ [KeysNext]_keysVars => KeysIInv'
  BY KeysSteps, KeysStutter
<1> QED
  BY <1>1, KeysStart, PTL DEF KeysSpec

(* A row's tier and status are what Stripe once said of one subscription   *)
(* of that user, and what it says now when the events came in order,       *)
(* whichever were repeated, lost or late (stripe-webhook.ts:30-75).        *)
THEOREM RowTrueHolds == KeysSpec => []RowTrue
<1>1. KeysIInv => RowTrue
  BY KeyParts, RowIsTrue
<1> QED
  BY <1>1, KeysInvariantHolds, PTL

(* Keys are counted and then inserted (apiKey.ts:59-70): a user's keys     *)
(* exceed the best limit they had by fewer than the requests that can be   *)
(* in progress at once.                                                    *)
THEOREM KeysSoundHolds == KeysSpec => []KeysSound
<1>1. KeysIInv => KeysSound
  BY KeyParts DEF KeysSound
<1> QED
  BY <1>1, KeysInvariantHolds, PTL

(* Whoever passes validateKey (apiKey.ts:134-153) brought a key that was   *)
(* good when the request arrived, for a user who was ACTIVE at an instant  *)
(* of the request.                                                         *)
THEOREM KeyAdmissionHolds == KeysSpec => []KeyAdmission
<1>1. KeysIInv => KeyAdmission
  BY KeyParts DEF KeyAdmission, CallOK
<1> QED
  BY <1>1, KeysInvariantHolds, PTL

===============================================================================
