------------------------------ MODULE VaultProofs ------------------------------
(***************************************************************************)
(* The vault adapters behind their breaker: why a reference and its entry  *)
(* may part, that a delete answered true is final, and that the calls keep *)
(* the contract of the breaker, for any number of ids, calls and restarts. *)
(***************************************************************************)
EXTENDS Vault, BreakerLemmas

CallRecord ==
  [pc : {"idle", "running", "ok", "failed", "refused"}, step : Steps \cup {None},
   op : Ops \cup {None}, id : Ids \cup {None}, late : BOOLEAN,
   answer : Answers \cup {None}]

(***************************************************************************)
(* The inductive invariant.                                                *)
(***************************************************************************)

Written(i) == deadlines[i] # None

(* An entry is there, or has been deleted or has expired.                  *)
Kept(i) == store[i] # None \/ i \in deleted \/ Past(deadlines[i])

(* An id is written once, and its entry keeps the deadline it was given.   *)
StoreOK ==
  \A i \in Ids : store[i] # None => Written(i) /\ store[i].deadline = deadlines[i]

(* What was answered to be deleted was written and is gone.                *)
AckedOK == \A i \in acked : Written(i) /\ store[i] = None

(* Which call knows which id, and why an answer is what it is.             *)
CallOK(r) ==
  /\ r.pc = "idle" => r.step = None
  /\ r.id # None => Written(r.id)
  /\ r.op \in {"read", "delete"} => r.id # None
  /\ r.op = "write" /\ (r.pc = "ok" \/ (r.step = "answered" /\ r.answer # "error"))
       => r.id # None
  /\ r.step \in {"service", "answered"} => r.pc = "running"
  /\ r.step \in {"service", "answered"} => r.op # None
  /\ r.step = "service" => r.answer = None /\ (r.op = "write" => r.id = None)
  /\ r.step = "orphan" => r.op = "delete"
  /\ r.step = "catch" => r.pc \in {"failed", "refused"}
  /\ r.answer = "true" => r.op = "delete" /\ store[r.id] = None
  /\ r.late => r.op = "read" /\ r.id \in acked /\ r.answer # "value"
  /\ r.op = "write" /\ r.step \in {"answered", "done", "issued"} /\ r.id # None
       => Kept(r.id)

(* The key of a reference is that of the process that signed it; while the *)
(* memory of that process lasts, what became of the entry is known.        *)
RefOK(ref) ==
  /\ Written(ref.id)
  /\ ref.process <= restarts
  /\ ref.key = KeyOf(vault.keyed, ref.process)
  /\ Kept(ref.id) \/ (vault.kind # "aws" /\ ref.process < restarts)

IInv ==
  /\ TypeOK
  /\ StoreOK
  /\ AckedOK
  /\ vault.key = KeyOf(vault.keyed, restarts)
  /\ \A c \in Calls : CallOK(call[c])
  /\ \A ref \in refs : RefOK(ref)


(***************************************************************************)
(* What a step does to the entries, as far as the calls and references     *)
(* that it leaves alone can tell.                                          *)
(***************************************************************************)

Evolves ==
  /\ \A i \in Ids : Written(i) => deadlines'[i] = deadlines[i]
  /\ \A i \in Ids : Written(i) /\ store[i] = None => store'[i] = None
  /\ acked \subseteq acked'

KeepsEntries == \A i \in Ids : Written(i) /\ Kept(i) => Kept(i)'

(* Time, deletions and expiry only add reasons for an entry to be gone.    *)
LEMMA KeptStable ==
  ASSUME TypeOK, Evolves, now' \in Nat, now' >= now, deleted \subseteq deleted',
         NEW i \in Ids, Written(i), i \in deleted \/ Past(deadlines[i])
  PROVE  Kept(i)'
<1>1. deadlines[i] \in Nat \cup {Null} /\ deadlines'[i] = deadlines[i]
  BY DEF TypeOK, Deadlines, Evolves, Written
<1> QED
  BY <1>1 DEF TypeOK, Kept, Past, Null

(* A call that the step leaves alone.                                      *)
LEMMA CallOKStable ==
  ASSUME Evolves, NEW r \in CallRecord, CallOK(r),
         KeepsEntries \/ r.step \notin {"answered", "done", "issued"}
  PROVE  CallOK(r)'
<1>1. r.id \in Ids \cup {None}
  BY DEF CallRecord
<1>2. r.id # None => Written(r.id)'
  BY <1>1 DEF CallOK, Evolves, Written
<1>3. r.answer = "true" => r.op = "delete" /\ store'[r.id] = None
  BY <1>1 DEF CallOK, Evolves
<1>4. r.late => r.op = "read" /\ r.id \in acked' /\ r.answer # "value"
  BY DEF CallOK, Evolves
<1>5. r.op = "write" /\ r.step \in {"answered", "done", "issued"} /\ r.id # None
        => Kept(r.id)'
  BY <1>1 DEF CallOK, KeepsEntries
<1> QED
  BY <1>2, <1>3, <1>4, <1>5 DEF CallOK, Written

(* A reference already handed out.                                         *)
LEMMA RefOKStable ==
  ASSUME TypeOK, Evolves, NEW ref \in refs, RefOK(ref),
         restarts' \in Nat, vault'.kind = vault.kind, vault'.keyed = vault.keyed,
         \/ KeepsEntries /\ restarts' = restarts
         \/ restarts' = restarts + 1 /\ (vault.kind = "aws" => KeepsEntries)
  PROVE  RefOK(ref)'
<1>1. ref.id \in Ids /\ ref.process \in Nat /\ restarts \in Nat
  BY DEF TypeOK
<1>2. Written(ref.id)'
  BY <1>1 DEF RefOK, Evolves, Written
<1>3. ref.process <= restarts'
  BY <1>1 DEF RefOK
<1>4. Kept(ref.id)' \/ (vault'.kind # "aws" /\ ref.process < restarts')
  BY <1>1 DEF RefOK, KeepsEntries
<1> QED
  BY <1>2, <1>3, <1>4 DEF RefOK, KeyOf

(***************************************************************************)
(* The requests and what the adapters do with them.                        *)
(***************************************************************************)

(* A request is about an id that its caller was told.                      *)
Fresh(r) ==
  /\ r \in CallRecord /\ r.op \in Ops /\ r.answer = None
  /\ IF r.op \in {"read", "delete"} THEN r.id \in Ids /\ Written(r.id) ELSE r.id = None
  /\ r.late => r.op = "read" /\ r.id \in acked

(* A call that is about to start asks for an id that some write returned,  *)
(* or for none.                                                            *)
LEMMA RequestFields ==
  ASSUME IInv, NEW q \in Requests
  PROVE  Fresh(q) /\ q.step = None
<1>1. \A i \in Known : i \in Ids /\ Written(i)
  <2> SUFFICES ASSUME NEW c \in Calls, call[c].op = "write", call[c].pc = "ok"
               PROVE  call[c].id \in Ids /\ Written(call[c].id)
    BY DEF Known
  <2>1. call[c] \in CallRecord /\ CallOK(call[c])
    BY DEF IInv, TypeOK, CallRecord
  <2> QED
    BY <2>1 DEF CallOK, CallRecord
<1>2. NoCall \in CallRecord
  BY DEF NoCall, CallRecord
<1>3. /\ q \in CallRecord /\ q.op \in Ops /\ q.answer = None /\ q.step = None
      /\ q.op \in {"read", "delete"} => q.id \in Known
      /\ q.op \notin {"read", "delete"} => q.id = None
      /\ q.late => q.op = "read" /\ q.id \in acked
  <2>1. CASE \E op \in {"write", "list"} : q = [NoCall EXCEPT !.op = op]
    BY <1>2, <2>1 DEF NoCall, CallRecord, Ops
  <2>2. CASE \E i \in Known : q = [NoCall EXCEPT !.op = "read", !.id = i, !.late = i \in acked]
    <3>1. PICK i \in Known : q = [NoCall EXCEPT !.op = "read", !.id = i, !.late = i \in acked]
      BY <2>2
    <3> DEFINE b == i \in acked
    <3>2. /\ i \in Ids \cup {None} /\ "read" \in Ops \cup {None} /\ b \in BOOLEAN
          /\ q = [NoCall EXCEPT !.op = "read", !.id = i, !.late = b]
      BY <1>1, <3>1 DEF Ops
    <3> HIDE DEF b
    <3>3. /\ q \in CallRecord /\ q.op = "read" /\ q.answer = None /\ q.step = None
          /\ q.id = i /\ q.late = b
      BY <1>2, <3>2 DEF NoCall, CallRecord
    <3> QED
      BY <3>3 DEF b, Ops
  <2>3. CASE \E i \in Known : q = [NoCall EXCEPT !.op = "delete", !.id = i]
    BY <1>1, <1>2, <2>3 DEF NoCall, CallRecord, Ops
  <2> QED
    BY <2>1, <2>2, <2>3 DEF Requests
<1> QED
  BY <1>1, <1>3 DEF Fresh

(* It is sent, acted on at once or refused.                                *)
LEMMA FreshIsOK ==
  ASSUME NEW r, Fresh(r),
         \/ r.pc = "running" /\ r.step \in {None, "service"}
         \/ r.pc = "refused" /\ r.step = "catch"
  PROVE  CallOK(r)
<1>1. None \notin Ids \cup Ops \cup Steps \cup Answers
  BY VaultAssumption
<1> QED
  BY <1>1 DEF Fresh, CallOK, Ops, Steps, Answers

(* The answer to a request changes the record of one call.                 *)
LEMMA AnswerFields ==
  ASSUME call \in [Calls -> CallRecord], NEW c \in Calls, NEW r \in CallRecord,
         NEW a \in Answers, Answer(c, r, a)
  PROVE  /\ call' = [call EXCEPT ![c] = call'[c]] /\ call'[c] \in CallRecord
         /\ call'[c].step = "answered" /\ call'[c].answer = a
         /\ call'[c].pc = r.pc /\ call'[c].op = r.op
         /\ call'[c].id = r.id /\ call'[c].late = r.late
<1> DEFINE s == [r EXCEPT !.step = "answered", !.answer = a]
<1>1. s \in CallRecord /\ s.step = "answered" /\ s.answer = a
      /\ s.pc = r.pc /\ s.op = r.op /\ s.id = r.id /\ s.late = r.late
  BY DEF CallRecord, Steps
<1>2. call' = [call EXCEPT ![c] = s]
  BY DEF Answer
<1> HIDE DEF s
<1>3. call'[c] = s
  BY <1>2
<1> QED
  BY <1>1, <1>2, <1>3

(* The types of what an adapter changes.                                   *)
StoreTyped ==
  /\ store \in [Ids -> Entries \cup {None}]
  /\ deadlines \in [Ids -> Deadlines \cup {None}]
  /\ deleted \subseteq Ids

(* An adapter removes what has expired, and what it is told to.            *)
LEMMA RemovesFields ==
  ASSUME IInv, now' \in Nat, now' >= now, deadlines' = deadlines, acked' = acked,
         deleted \subseteq deleted', deleted' \subseteq Ids, DOMAIN store' = Ids,
         store' = [i \in Ids |-> store'[i]],
         \A i \in Ids : \/ store'[i] = store[i]
                        \/ store'[i] = None /\ (Resolves(i) => i \in deleted')
  PROVE  Evolves /\ KeepsEntries /\ StoreTyped' /\ StoreOK' /\ AckedOK'
<1>1. TypeOK /\ StoreOK /\ AckedOK /\ acked \subseteq Ids /\ StoreTyped
  BY DEF IInv, TypeOK, StoreTyped
<1>2. StoreTyped'
  BY <1>1 DEF StoreTyped
<1>3. Evolves
  BY <1>1 DEF Evolves
<1>4. KeepsEntries
  <2> SUFFICES ASSUME NEW i \in Ids, Written(i), Kept(i) PROVE Kept(i)'
    BY DEF KeepsEntries
  <2>1. CASE i \in deleted \/ Past(deadlines[i])
    BY <1>1, <1>3, <2>1, KeptStable
  <2>2. CASE store[i] # None /\ ~Past(deadlines[i])
    <3>1. Resolves(i)
      BY <1>1, <2>2 DEF StoreOK, Resolves
    <3>2. store'[i] # None \/ i \in deleted'
      BY <2>2, <3>1
    <3> QED
      BY <3>2 DEF Kept
  <2> QED
    BY <2>1, <2>2 DEF Kept
<1>5. StoreOK' /\ AckedOK'
  BY <1>1 DEF StoreOK, AckedOK, Written
<1> QED
  BY <1>2, <1>3, <1>4, <1>5

(* Whatever a request asks for, the adapter keeps the entries explained    *)
(* and answers as the entries are.                                         *)
LEMMA PerformFields ==
  ASSUME IInv, NEW c \in Calls, NEW r \in CallRecord, CallOK(r),
         r.pc = "running", r.op \in Ops, r.answer = None, Perform(c, r),
         UNCHANGED <<now, vault, refs, restarts, acked>>
  PROVE  /\ Evolves /\ KeepsEntries /\ StoreTyped' /\ StoreOK' /\ AckedOK'
         /\ call' = [call EXCEPT ![c] = call'[c]]
         /\ call'[c] \in CallRecord /\ CallOK(call[c])' /\ call'[c].pc = "running"
<1>1. /\ StoreTyped /\ StoreOK /\ AckedOK /\ TypeOK /\ acked \subseteq Ids
      /\ call \in [Calls -> CallRecord] /\ now \in Nat /\ acked' = acked /\ now' = now
  BY DEF IInv, TypeOK, StoreTyped, CallRecord
<1>2. None \notin Ids \cup Nat \cup {Null} \cup Ops \cup Steps \cup Answers /\ None \notin Entries
  BY VaultAssumption
<1>3. r.op = "read" \/ r.op = "delete" => r.id \in Ids /\ Written(r.id)
  BY DEF CallOK, CallRecord
<1>4. CASE r.op = "write" /\ Write(c, r)
  <2>1. PICK i \in Ids, ttl \in TTLs :
          /\ deadlines[i] = None
          /\ store' = [store EXCEPT ![i] = [deadline |-> DeadlineOf(ttl)]]
          /\ deadlines' = [deadlines EXCEPT ![i] = DeadlineOf(ttl)]
          /\ Answer(c, [r EXCEPT !.id = i], "id")
          /\ UNCHANGED deleted
    BY <1>4 DEF Write
  <2> DEFINE d == DeadlineOf(ttl)
             e == [deadline |-> d]
  <2>2. d \in Deadlines /\ e \in Entries /\ e.deadline = d /\ d # None /\ e # None
    BY <1>1, <1>2, VaultAssumption DEF DeadlineOf, Deadlines, Entries
  <2> HIDE DEF d, e
  <2>3. /\ store' = [store EXCEPT ![i] = e]
        /\ deadlines' = [deadlines EXCEPT ![i] = d] /\ deleted' = deleted
    BY <2>1 DEF d, e
  <2>4. StoreTyped' /\ store'[i] = e /\ deadlines'[i] = d
    BY <1>1, <2>2, <2>3 DEF StoreTyped
  <2>5. \A k \in Ids \ {i} : store'[k] = store[k] /\ deadlines'[k] = deadlines[k]
    BY <1>1, <2>3 DEF StoreTyped
  <2>6. Evolves /\ KeepsEntries
    BY <1>1, <2>1, <2>3, <2>5 DEF Evolves, KeepsEntries, Written, Kept, Past
  <2>7. StoreOK' /\ AckedOK'
    BY <1>1, <2>1, <2>2, <2>4, <2>5 DEF StoreOK, AckedOK, Written
  <2> DEFINE q == [r EXCEPT !.id = i]
  <2>8. /\ q \in CallRecord /\ q.id = i /\ q.pc = "running" /\ q.op = "write"
        /\ q.late = r.late /\ "id" \in Answers
    BY <1>4 DEF CallRecord, Answers
  <2>9. /\ call' = [call EXCEPT ![c] = call'[c]] /\ call'[c] \in CallRecord
        /\ call'[c].step = "answered" /\ call'[c].answer = "id"
        /\ call'[c].pc = "running" /\ call'[c].op = "write" /\ call'[c].id = i
        /\ call'[c].late = r.late
    <3>1. Answer(c, q, "id")
      BY <2>1
    <3> HIDE DEF q
    <3> QED
      BY <1>1, <2>8, <3>1, AnswerFields
  <2>10. Written(i)' /\ Kept(i)' /\ ~r.late
    BY <1>4, <2>2, <2>4 DEF Written, Kept, CallOK, CallRecord
  <2>11. CallOK(call[c])'
    BY <1>2, <2>9, <2>10 DEF CallOK, Ops
  <2> QED
    BY <2>4, <2>6, <2>7, <2>9, <2>11
<1>5. CASE r.op = "read" /\ Read(c, r)
  <2>1. r.id \in Ids /\ Written(r.id)
    BY <1>3, <1>5
  <2>2. /\ store' = [i \in Ids |-> store'[i]] /\ DOMAIN store' = Ids
        /\ deadlines' = deadlines /\ deleted' = deleted
        /\ \A i \in Ids : \/ store'[i] = store[i]
                          \/ store'[i] = None /\ ~Resolves(i)
    BY <1>1, <1>5, <2>1 DEF Read, StoreTyped
  <2>3. Evolves /\ KeepsEntries /\ StoreTyped' /\ StoreOK' /\ AckedOK'
    BY <1>1, <2>2, RemovesFields DEF StoreTyped
  <2>4. PICK a \in {"value", "null"} : Answer(c, r, a) /\ (a = "value" => Resolves(r.id))
    BY <1>5 DEF Read
  <2>5. /\ call' = [call EXCEPT ![c] = call'[c]] /\ call'[c] \in CallRecord
        /\ call'[c].step = "answered" /\ call'[c].answer = a
        /\ call'[c].pc = "running" /\ call'[c].op = "read" /\ call'[c].id = r.id
        /\ call'[c].late = r.late
    <3>1. a \in Answers
      BY DEF Answers
    <3> QED
      BY <1>1, <1>5, <2>4, <3>1, AnswerFields
  <2>6. r.late => a # "value"
    BY <1>1, <2>4 DEF CallOK, AckedOK, Resolves
  <2>7. CallOK(call[c])'
    BY <1>1, <1>2, <2>1, <2>2, <2>5, <2>6 DEF CallOK, Written, Ops
  <2> QED
    BY <2>3, <2>5, <2>7
<1>6. CASE r.op = "list" /\ (List(c, r) \/ ListAll(c, r))
  <2>1. /\ store' = [i \in Ids |-> store'[i]] /\ DOMAIN store' = Ids
        /\ deadlines' = deadlines /\ deleted' = deleted
        /\ \A i \in Ids : \/ store'[i] = store[i]
                          \/ store'[i] = None /\ ~Resolves(i)
    BY <1>1, <1>6 DEF List, ListAll, StoreTyped
  <2>2. Evolves /\ KeepsEntries /\ StoreTyped' /\ StoreOK' /\ AckedOK'
    BY <1>1, <2>1, RemovesFields DEF StoreTyped
  <2>3. /\ call' = [call EXCEPT ![c] = call'[c]] /\ call'[c] \in CallRecord
        /\ call'[c].step = "answered" /\ call'[c].answer = "keys"
        /\ call'[c].pc = "running" /\ call'[c].op = "list" /\ call'[c].id = r.id
        /\ call'[c].late = r.late
    <3>1. "keys" \in Answers /\ Answer(c, r, "keys")
      BY <1>6 DEF Answers, List, ListAll
    <3> QED
      BY <1>1, <1>6, <3>1, AnswerFields
  <2>4. (r.id # None => Written(r.id)') /\ ~r.late
    BY <1>6, <2>1 DEF CallOK, CallRecord, Written
  <2>5. CallOK(call[c])'
    BY <1>2, <2>3, <2>4 DEF CallOK, Ops
  <2> QED
    BY <2>2, <2>3, <2>5
<1>7. CASE r.op = "delete" /\ Delete(c, r)
  <2>1. r.id \in Ids /\ Written(r.id)
    BY <1>3, <1>7
  <2>2. /\ store' = [store EXCEPT ![r.id] = None] /\ deleted' = deleted \cup {r.id}
        /\ deadlines' = deadlines
    BY <1>7 DEF Delete
  <2>3. /\ store' = [i \in Ids |-> store'[i]] /\ DOMAIN store' = Ids
        /\ deleted \subseteq deleted' /\ deleted' \subseteq Ids /\ store'[r.id] = None
        /\ \A i \in Ids : \/ store'[i] = store[i]
                          \/ store'[i] = None /\ i \in deleted'
    BY <1>1, <2>1, <2>2 DEF StoreTyped
  <2>4. Evolves /\ KeepsEntries /\ StoreTyped' /\ StoreOK' /\ AckedOK'
    BY <1>1, <2>2, <2>3, RemovesFields
  <2>5. PICK a \in {"true", "false"} : Answer(c, r, a)
    BY <1>7 DEF Delete
  <2>6. /\ call' = [call EXCEPT ![c] = call'[c]] /\ call'[c] \in CallRecord
        /\ call'[c].step = "answered" /\ call'[c].answer = a
        /\ call'[c].pc = "running" /\ call'[c].op = "delete" /\ call'[c].id = r.id
        /\ call'[c].late = r.late
    <3>1. a \in Answers
      BY DEF Answers
    <3> QED
      BY <1>1, <1>7, <2>5, <3>1, AnswerFields
  <2>7. r.id # None /\ Written(r.id)' /\ ~r.late
    BY <1>2, <1>7, <2>1, <2>2 DEF CallOK, Written
  <2>8. CallOK(call[c])'
    BY <1>2, <2>3, <2>6, <2>7 DEF CallOK, Ops
  <2> QED
    BY <2>4, <2>6, <2>8
<1> QED
  BY <1>4, <1>5, <1>6, <1>7 DEF Perform

(***************************************************************************)
(* The actions preserve the invariant.                                     *)
(***************************************************************************)

(* The entries and what was answered about them stay as they are.          *)
LEMMA EntriesStay ==
  ASSUME IInv, UNCHANGED <<now, store, deadlines, deleted, acked>>
  PROVE  Evolves /\ KeepsEntries /\ StoreTyped' /\ StoreOK' /\ AckedOK'
BY DEF IInv, TypeOK, Evolves, KeepsEntries, Kept, Past, StoreTyped, StoreOK, AckedOK, Written

(* A step of one call.                                                     *)
LEMMA OneCall ==
  ASSUME IInv, NEW c \in Calls, call' = [call EXCEPT ![c] = call'[c]],
         call'[c] \in CallRecord, CallOK(call[c])', cb' \in BreakerRecord,
         Evolves, KeepsEntries, StoreTyped', StoreOK', AckedOK', acked' \subseteq Ids,
         UNCHANGED <<now, vault, refs, restarts>>
  PROVE  IInv'
<1>1. TypeOK /\ call \in [Calls -> CallRecord]
  BY DEF IInv, TypeOK, CallRecord
<1>2. call' \in [Calls -> CallRecord] /\ \A d \in Calls \ {c} : call'[d] = call[d]
  BY <1>1
<1>3. TypeOK'
  BY <1>1, <1>2 DEF TypeOK, StoreTyped, CallRecord
<1>4. \A d \in Calls : CallOK(call[d])'
  <2> SUFFICES ASSUME NEW d \in Calls \ {c} PROVE CallOK(call[d])'
    OBVIOUS
  <2>1. CallOK(call[d]) /\ call[d] \in CallRecord /\ call'[d] = call[d]
    BY <1>1, <1>2 DEF IInv
  <2> QED
    BY <2>1, CallOKStable DEF CallOK, Written, Kept, Past
<1>5. \A ref \in refs : RefOK(ref)'
  <2> SUFFICES ASSUME NEW ref \in refs PROVE RefOK(ref)'
    OBVIOUS
  <2>1. /\ RefOK(ref) /\ restarts' \in Nat /\ restarts' = restarts
        /\ vault'.kind = vault.kind /\ vault'.keyed = vault.keyed
    BY <1>1 DEF IInv, TypeOK
  <2> QED
    BY <1>1, <2>1, RefOKStable
<1> QED
  BY <1>3, <1>4, <1>5 DEF IInv

(* The record of a call that is over keeps the id that a write returned.   *)
Phases == {"idle", "running", "ok", "failed", "refused"}

Ended(r, pc, s) ==
  /\ s \in CallRecord /\ s.pc = pc /\ s.step \in {"done", "gone"}
  /\ s.answer = None /\ s.late = FALSE
  /\ IF r.op = "write" /\ pc = "ok"
       THEN s.op = "write" /\ s.id = r.id
       ELSE s.op = None /\ s.id = None

(* A call that has ended keeps its id only if it was a write that          *)
(* succeeded.                                                              *)
LEMMA OverFields ==
  ASSUME NEW r \in CallRecord, NEW pc \in Phases
  PROVE  Ended(r, pc, Over(r, pc)) /\ Over(r, pc).step = "done"
<1>1. /\ NoCall \in CallRecord /\ NoCall.answer = None /\ NoCall.late = FALSE
      /\ NoCall.op = None /\ NoCall.id = None
  BY DEF NoCall, CallRecord
<1> DEFINE s == Over(r, pc)
<1>2. CASE r.op = "write" /\ pc = "ok"
  <2>1. s = [NoCall EXCEPT !.pc = pc, !.step = "done", !.op = r.op, !.id = r.id]
    BY <1>2 DEF Over
  <2> HIDE DEF s
  <2>2. s \in CallRecord /\ s.pc = pc /\ s.step = "done" /\ s.answer = None
        /\ s.late = FALSE /\ s.op = r.op /\ s.id = r.id
    BY <1>1, <2>1 DEF CallRecord, Steps, Phases
  <2> QED
    BY <1>2, <2>2 DEF s, Ended
<1>3. CASE ~ (r.op = "write" /\ pc = "ok")
  <2>1. s = [NoCall EXCEPT !.pc = pc, !.step = "done"]
    BY <1>3 DEF Over
  <2> HIDE DEF s
  <2>2. s \in CallRecord /\ s.pc = pc /\ s.step = "done" /\ s.answer = None
        /\ s.late = FALSE /\ s.op = None /\ s.id = None
    BY <1>1, <2>1 DEF CallRecord, Steps, Phases
  <2> QED
    BY <1>3, <2>2 DEF s, Ended
<1> QED
  BY <1>2, <1>3

(* So does that of a call whose process has ended.                         *)
LEMMA GoneFields ==
  ASSUME NEW r \in CallRecord, NEW pc \in Phases
  PROVE  /\ Ended(r, pc, [Over(r, pc) EXCEPT !.step = "gone"])
         /\ [Over(r, pc) EXCEPT !.step = "gone"].step = "gone"
<1> DEFINE o == Over(r, pc)
           s == [o EXCEPT !.step = "gone"]
<1>1. Ended(r, pc, o)
  BY OverFields
<1> HIDE DEF o
<1>2. /\ s \in CallRecord /\ s.pc = o.pc /\ s.step = "gone" /\ s.answer = o.answer
      /\ s.late = o.late /\ s.op = o.op /\ s.id = o.id
  BY <1>1 DEF Ended, CallRecord, Steps
<1> HIDE DEF s
<1>3. Ended(r, pc, s)
  BY <1>1, <1>2 DEF Ended
<1> QED
  BY <1>2, <1>3 DEF o, s

(* The breaker admits the call: a request is sent, or acted on at once.    *)
LEMMA CallAdmittedStep ==
  ASSUME IInv, NEW c \in Calls, CallAdmitted(c)
  PROVE  IInv' /\ call' = [call EXCEPT ![c] = call'[c]] /\ call'[c].pc = "running"
<1>1. /\ call \in [Calls -> CallRecord] /\ cb \in BreakerRecord /\ now \in Nat
      /\ acked \subseteq Ids
  BY DEF IInv, TypeOK, CallRecord
<1>2. cb' \in BreakerRecord
  BY <1>1, GetStateFields, AdmitFields DEF CallAdmitted
<1>3. CASE vault.kind = "aws"
  <2>1. PICK q \in Requests :
          /\ call' = [call EXCEPT ![c] = [q EXCEPT !.pc = "running", !.step = "service"]]
          /\ UNCHANGED <<store, deadlines, deleted>>
    BY <1>3 DEF CallAdmitted
  <2> DEFINE r == [q EXCEPT !.pc = "running", !.step = "service"]
  <2>2. r \in CallRecord /\ CallOK(r) /\ r.pc = "running"
    <3>1. Fresh(q) /\ Fresh(r) /\ r.pc = "running" /\ r.step = "service"
      BY RequestFields DEF Fresh, CallRecord, Steps
    <3> HIDE DEF r
    <3> QED
      BY <3>1, FreshIsOK DEF Fresh
  <2>3. call'[c] = r /\ call' = [call EXCEPT ![c] = call'[c]]
    BY <1>1, <2>1
  <2>4. UNCHANGED <<now, store, deadlines, deleted, acked, vault, refs, restarts>>
    BY <2>1 DEF CallAdmitted
  <2> HIDE DEF r
  <2>5. CallOK(call[c])'
    BY <2>2, <2>3, <2>4 DEF CallOK, Written, Kept, Past
  <2> QED
    BY <1>1, <1>2, <2>2, <2>3, <2>4, <2>5, EntriesStay, OneCall
<1>4. CASE vault.kind # "aws"
  <2>1. PICK q \in Requests : Perform(c, [q EXCEPT !.pc = "running"])
    BY <1>4 DEF CallAdmitted
  <2> DEFINE r == [q EXCEPT !.pc = "running"]
  <2>2. r \in CallRecord /\ CallOK(r) /\ r.pc = "running" /\ r.op \in Ops /\ r.answer = None
    <3>1. Fresh(q) /\ Fresh(r) /\ r.pc = "running" /\ r.step = None
      BY RequestFields DEF Fresh, CallRecord
    <3> HIDE DEF r
    <3> QED
      BY <3>1, FreshIsOK DEF Fresh
  <2>3. UNCHANGED <<now, vault, refs, restarts, acked>>
    BY DEF CallAdmitted
  <2> HIDE DEF r
  <2> QED
    BY <1>1, <1>2, <2>1, <2>2, <2>3, PerformFields, OneCall DEF r
<1> QED
  BY <1>3, <1>4

(* The breaker refuses the call.                                           *)
LEMMA CallRefusedStep ==
  ASSUME IInv, NEW c \in Calls, CallRefused(c)
  PROVE  IInv' /\ call' = [call EXCEPT ![c] = call'[c]] /\ call'[c].pc = "refused"
<1>1. /\ call \in [Calls -> CallRecord] /\ cb \in BreakerRecord /\ now \in Nat
      /\ acked \subseteq Ids
  BY DEF IInv, TypeOK, CallRecord
<1>2. cb' \in BreakerRecord
  BY <1>1, GetStateFields DEF CallRefused
<1>3. PICK q \in Requests :
        call' = [call EXCEPT ![c] = [q EXCEPT !.pc = "refused", !.step = "catch"]]
  BY DEF CallRefused
<1> DEFINE r == [q EXCEPT !.pc = "refused", !.step = "catch"]
<1>4. r \in CallRecord /\ CallOK(r) /\ r.pc = "refused"
  <2>1. Fresh(q) /\ Fresh(r) /\ r.pc = "refused" /\ r.step = "catch"
    BY RequestFields DEF Fresh, CallRecord, Steps
  <2> HIDE DEF r
  <2> QED
    BY <2>1, FreshIsOK DEF Fresh
<1>5. call'[c] = r /\ call' = [call EXCEPT ![c] = call'[c]]
  BY <1>1, <1>3
<1>6. UNCHANGED <<now, store, deadlines, deleted, acked, vault, refs, restarts>>
  BY DEF CallRefused
<1> HIDE DEF r
<1>7. CallOK(call[c])'
  BY <1>4, <1>5, <1>6 DEF CallOK, Written, Kept, Past
<1> QED
  BY <1>1, <1>2, <1>4, <1>5, <1>6, <1>7, EntriesStay, OneCall

(* The service acts and answers.                                           *)
LEMMA ServiceAnswersStep ==
  ASSUME IInv, NEW c \in Calls, ServiceAnswers(c)
  PROVE  IInv' /\ call' = [call EXCEPT ![c] = call'[c]] /\ call'[c].pc = call[c].pc
<1>1. /\ call \in [Calls -> CallRecord] /\ cb \in BreakerRecord /\ acked \subseteq Ids
      /\ call[c] \in CallRecord /\ CallOK(call[c])
  BY DEF IInv, TypeOK, CallRecord
<1>2. call[c].pc = "running" /\ call[c].op \in Ops
  BY <1>1 DEF ServiceAnswers, CallOK, CallRecord
<1>3. UNCHANGED <<cb, now, vault, refs, restarts, acked>> /\ Perform(c, call[c])
  BY DEF ServiceAnswers
<1>4. call[c].answer = None
  BY <1>1 DEF ServiceAnswers, CallOK
<1>5. /\ Evolves /\ KeepsEntries /\ StoreTyped' /\ StoreOK' /\ AckedOK'
      /\ call' = [call EXCEPT ![c] = call'[c]]
      /\ call'[c] \in CallRecord /\ CallOK(call[c])' /\ call'[c].pc = "running"
  BY <1>1, <1>2, <1>3, <1>4, PerformFields
<1> QED
  BY <1>1, <1>2, <1>3, <1>5, OneCall

(* The service does not answer: what it has done is not undone.            *)
LEMMA ServiceFailsStep ==
  ASSUME IInv, NEW c \in Calls, ServiceFails(c)
  PROVE  IInv' /\ call' = [call EXCEPT ![c] = call'[c]] /\ call'[c].pc = call[c].pc
<1>1. /\ call \in [Calls -> CallRecord] /\ cb \in BreakerRecord /\ acked \subseteq Ids
      /\ call[c] \in CallRecord /\ CallOK(call[c]) /\ StoreTyped /\ now \in Nat
  BY DEF IInv, TypeOK, CallRecord, StoreTyped
<1>2. None \notin Ids \cup Nat \cup {Null} \cup Ops \cup Steps \cup Answers
  BY VaultAssumption
<1>3. call[c].pc = "running" /\ call[c].op \in Ops /\ call[c].step = "service"
  BY <1>1 DEF ServiceFails, CallOK, CallRecord
<1>4. UNCHANGED <<cb, now, vault, refs, restarts, acked, deadlines>>
  BY DEF ServiceFails
<1>5. /\ deleted \subseteq deleted' /\ deleted' \subseteq Ids /\ DOMAIN store' = Ids
      /\ store' = [i \in Ids |-> store'[i]]
      /\ \A i \in Ids : \/ store'[i] = store[i]
                        \/ store'[i] = None /\ i \in deleted'
  <2>1. CASE UNCHANGED <<store, deleted>>
    BY <1>1, <2>1 DEF StoreTyped
  <2>2. CASE /\ call[c].op = "delete"
             /\ store' = [store EXCEPT ![call[c].id] = None]
             /\ deleted' = deleted \cup {call[c].id}
    <3>1. call[c].id \in Ids
      BY <1>1, <2>2 DEF CallOK, CallRecord
    <3> QED
      BY <1>1, <2>2, <3>1 DEF StoreTyped
  <2> QED
    BY <2>1, <2>2 DEF ServiceFails
<1>6. Evolves /\ KeepsEntries /\ StoreTyped' /\ StoreOK' /\ AckedOK'
  BY <1>1, <1>4, <1>5, RemovesFields
<1> DEFINE a == Swallowed(call[c].op)
<1>7. /\ a \in Answers /\ a # "true" /\ a # "value"
      /\ call[c].op = "write" => a = "error"
  BY DEF Swallowed, Answers
<1>8. Answer(c, call[c], a)
  BY DEF ServiceFails
<1> HIDE DEF a
<1>9. /\ call' = [call EXCEPT ![c] = call'[c]] /\ call'[c] \in CallRecord
      /\ call'[c].step = "answered" /\ call'[c].answer = a
      /\ call'[c].pc = "running" /\ call'[c].op = call[c].op
      /\ call'[c].id = call[c].id /\ call'[c].late = call[c].late
  BY <1>1, <1>3, <1>7, <1>8, AnswerFields
<1>10. CallOK(call[c])'
  <2>1. call[c].op = "write" => call[c].id = None
    BY <1>1, <1>3 DEF CallOK
  <2> QED
    BY <1>1, <1>2, <1>3, <1>4, <1>7, <1>9, <2>1 DEF CallOK, Written, Ops
<1> QED
  BY <1>1, <1>3, <1>4, <1>6, <1>9, <1>10, OneCall

(* The caller learns the answer: what is answered to be deleted is gone.   *)
LEMMA SucceedsStep ==
  ASSUME IInv, NEW c \in Calls, Succeeds(c)
  PROVE  IInv' /\ call' = [call EXCEPT ![c] = call'[c]] /\ call'[c].pc = "ok"
<1>1. /\ call \in [Calls -> CallRecord] /\ cb \in BreakerRecord /\ acked \subseteq Ids
      /\ call[c] \in CallRecord /\ CallOK(call[c]) /\ StoreTyped /\ StoreOK /\ AckedOK
  BY DEF IInv, TypeOK, CallRecord, StoreTyped
<1>2. None \notin Ids \cup Ops \cup Steps \cup Answers
  BY VaultAssumption
<1>3. cb' \in BreakerRecord
  BY <1>1, OnSuccessFields DEF Succeeds
<1>4. UNCHANGED <<now, vault, store, refs, restarts, deadlines, deleted>>
  BY DEF Succeeds
<1>5. /\ acked \subseteq acked' /\ acked' \subseteq Ids
      /\ \A i \in acked' \ acked : Written(i) /\ store[i] = None
  BY <1>1 DEF Succeeds, CallOK, CallRecord
<1>6. Evolves /\ KeepsEntries /\ StoreTyped' /\ StoreOK' /\ AckedOK'
  BY <1>1, <1>4, <1>5
     DEF Evolves, KeepsEntries, Kept, Past, StoreTyped, StoreOK, AckedOK, Written
<1> DEFINE s == Over(call[c], "ok")
<1>7. /\ s \in CallRecord /\ s.pc = "ok" /\ s.step = "done"
      /\ s.answer = None /\ s.late = FALSE
      /\ IF call[c].op = "write"
           THEN s.op = "write" /\ s.id = call[c].id
           ELSE s.op = None /\ s.id = None
  <2>1. Ended(call[c], "ok", s) /\ s.step = "done"
    BY <1>1, OverFields DEF Phases
  <2> HIDE DEF s
  <2> QED
    BY <2>1 DEF Ended
<1> HIDE DEF s
<1>8. call'[c] = s /\ call' = [call EXCEPT ![c] = call'[c]]
  BY <1>1 DEF Succeeds, s
<1>9. CallOK(s)
  <2>1. call[c].op = "write" => call[c].id # None /\ Written(s.id) /\ Kept(s.id)
    BY <1>1, <1>7 DEF Succeeds, CallOK
  <2> QED
    BY <1>2, <1>7, <2>1 DEF CallOK, Ops, Answers, Steps
<1>10. CallOK(call[c])'
  BY <1>4, <1>7, <1>8, <1>9 DEF CallOK, Written, Kept, Past
<1> QED
  BY <1>1, <1>3, <1>4, <1>5, <1>6, <1>7, <1>8, <1>10, OneCall

(* The breaker hears of a failure.                                         *)
LEMMA FailsStep ==
  ASSUME IInv, NEW c \in Calls, Fails(c)
  PROVE  IInv' /\ call' = [call EXCEPT ![c] = call'[c]] /\ call'[c].pc = "failed"
<1>1. /\ call \in [Calls -> CallRecord] /\ cb \in BreakerRecord /\ now \in Nat
      /\ call[c] \in CallRecord /\ CallOK(call[c]) /\ acked \subseteq Ids
  BY DEF IInv, TypeOK, CallRecord
<1>2. cb' \in BreakerRecord
  BY <1>1, OnFailureFields DEF Fails
<1>3. UNCHANGED <<now, vault, store, refs, restarts, deadlines, deleted, acked>>
  BY DEF Fails
<1>4. /\ call' = [call EXCEPT ![c] = call'[c]]
      /\ call'[c] = [call[c] EXCEPT !.step = "catch", !.pc = "failed"]
  BY <1>1 DEF Fails
<1>5. /\ call'[c] \in CallRecord /\ call'[c].step = "catch" /\ call'[c].pc = "failed"
      /\ call'[c].op = call[c].op /\ call'[c].id = call[c].id
      /\ call'[c].late = call[c].late /\ call'[c].answer = call[c].answer
  BY <1>1, <1>4 DEF CallRecord, Steps
<1>6. CallOK(call[c])'
  BY <1>1, <1>3, <1>5 DEF CallOK, Written, Kept, Past
<1> QED
  BY <1>1, <1>2, <1>3, <1>4, <1>5, <1>6, EntriesStay, OneCall

(* The catch block is done with the call.                                  *)
LEMMA WrapsStep ==
  ASSUME IInv, NEW c \in Calls, Wraps(c)
  PROVE  IInv' /\ call' = [call EXCEPT ![c] = call'[c]] /\ call'[c].pc = call[c].pc
<1>1. /\ call \in [Calls -> CallRecord] /\ cb \in BreakerRecord /\ now \in Nat
      /\ call[c] \in CallRecord /\ CallOK(call[c]) /\ acked \subseteq Ids
  BY DEF IInv, TypeOK, CallRecord
<1>2. None \notin Ids \cup Ops \cup Steps \cup Answers
  BY VaultAssumption
<1>3. cb' \in BreakerRecord
  BY <1>1, GetStateFields DEF Wraps
<1>4. UNCHANGED <<now, vault, store, refs, restarts, deadlines, deleted, acked>>
  BY DEF Wraps
<1> DEFINE s == Over(call[c], call[c].pc)
<1>5. call[c].pc \in {"failed", "refused"}
  BY <1>1 DEF Wraps, CallOK
<1>6. /\ s \in CallRecord /\ s.pc = call[c].pc /\ s.step = "done"
      /\ s.answer = None /\ s.late = FALSE /\ s.op = None /\ s.id = None
  <2>1. call[c].pc \in Phases
    BY <1>5 DEF Phases
  <2>2. Ended(call[c], call[c].pc, s) /\ s.step = "done"
    BY <1>1, <2>1, OverFields
  <2> HIDE DEF s
  <2> QED
    BY <1>5, <2>2 DEF Ended
<1> HIDE DEF s
<1>7. call'[c] = s /\ call' = [call EXCEPT ![c] = call'[c]]
  BY <1>1 DEF Wraps, s
<1>8. CallOK(call[c])'
  BY <1>2, <1>5, <1>6, <1>7 DEF CallOK, Ops, Answers, Steps
<1> QED
  BY <1>1, <1>3, <1>4, <1>6, <1>7, <1>8, EntriesStay, OneCall

(* A service acts on a deletion whose sender has ended.                    *)
LEMMA OrphanActsStep ==
  ASSUME IInv, NEW c \in Calls, OrphanActs(c)
  PROVE  IInv' /\ call' = [call EXCEPT ![c] = call'[c]] /\ call'[c].pc = call[c].pc
<1>1. /\ call \in [Calls -> CallRecord] /\ cb \in BreakerRecord /\ now \in Nat
      /\ call[c] \in CallRecord /\ CallOK(call[c]) /\ acked \subseteq Ids /\ StoreTyped
  BY DEF IInv, TypeOK, CallRecord, StoreTyped
<1>2. None \notin Ids \cup Ops \cup Steps \cup Answers
  BY VaultAssumption
<1>3. /\ UNCHANGED <<cb, now, vault, refs, restarts, deadlines, acked>>
      /\ store' = [store EXCEPT ![call[c].id] = None]
      /\ deleted' = deleted \cup {call[c].id}
      /\ call[c].id \in Ids /\ call[c].op = "delete" /\ call[c].pc # "idle"
  BY <1>1, <1>2 DEF OrphanActs, CallOK, CallRecord, Steps
<1>4. /\ deleted \subseteq deleted' /\ deleted' \subseteq Ids /\ DOMAIN store' = Ids
      /\ store' = [i \in Ids |-> store'[i]]
      /\ \A i \in Ids : \/ store'[i] = store[i]
                        \/ store'[i] = None /\ i \in deleted'
  BY <1>1, <1>3 DEF StoreTyped
<1>5. Evolves /\ KeepsEntries /\ StoreTyped' /\ StoreOK' /\ AckedOK'
  BY <1>1, <1>3, <1>4, RemovesFields
<1> DEFINE s == [Over(call[c], call[c].pc) EXCEPT !.step = "gone"]
<1>6. /\ s \in CallRecord /\ s.pc = call[c].pc /\ s.step = "gone"
      /\ s.answer = None /\ s.late = FALSE /\ s.op = None /\ s.id = None
  <2>1. call[c].pc \in Phases
    BY <1>1 DEF CallRecord, Phases
  <2>2. Ended(call[c], call[c].pc, s) /\ s.step = "gone"
    BY <1>1, <2>1, GoneFields
  <2> HIDE DEF s
  <2> QED
    BY <1>3, <2>2 DEF Ended
<1> HIDE DEF s
<1>7. call'[c] = s /\ call' = [call EXCEPT ![c] = call'[c]]
  BY <1>1 DEF OrphanActs, s
<1>8. CallOK(call[c])'
  BY <1>2, <1>3, <1>6, <1>7 DEF CallOK, Ops, Answers, Steps
<1> QED
  BY <1>1, <1>3, <1>5, <1>6, <1>7, <1>8, OneCall

(* An id that a write returned gets a reference, signed with today's key.  *)
LEMMA GenerateRefStep ==
  ASSUME IInv, NEW c \in Calls, GenerateRef(c)
  PROVE  IInv' /\ call' = [call EXCEPT ![c] = call'[c]] /\ call'[c].pc = call[c].pc
<1>1. /\ TypeOK /\ call \in [Calls -> CallRecord] /\ now \in Nat /\ restarts \in Nat
      /\ call[c] \in CallRecord /\ CallOK(call[c]) /\ vault.key = KeyOf(vault.keyed, restarts)
  BY DEF IInv, TypeOK, CallRecord
<1>2. UNCHANGED <<cb, now, vault, store, restarts, deadlines, deleted, acked>>
  BY DEF GenerateRef
<1>3. PICK ttl \in RefTTLs :
        refs' = refs \cup {[id |-> call[c].id, expiry |-> now + ttl, key |-> vault.key,
                            process |-> restarts]}
  BY DEF GenerateRef
<1> DEFINE ref == [id |-> call[c].id, expiry |-> now + ttl, key |-> vault.key,
                   process |-> restarts]
<1>4. /\ call[c].id \in Ids /\ Written(call[c].id) /\ Kept(call[c].id)
      /\ call[c].op = "write" /\ call[c].pc = "ok"
  BY <1>1 DEF GenerateRef, CallOK, CallRecord
<1>5. /\ ref \in [id : Ids, expiry : Nat, key : Nat \cup {None}, process : Nat]
      /\ ref.id = call[c].id /\ ref.key = vault.key /\ ref.process = restarts
  <2>1. ttl \in Nat /\ vault.key \in Nat \cup {None}
    BY <1>1, VaultAssumption DEF TypeOK
  <2> QED
    BY <1>1, <1>4, <2>1
<1> HIDE DEF ref
<1>6. refs' = refs \cup {ref}
  BY <1>3 DEF ref
<1>7. /\ call' = [call EXCEPT ![c] = call'[c]]
      /\ call'[c] = [call[c] EXCEPT !.step = "issued"]
  BY <1>1 DEF GenerateRef
<1>8. /\ call'[c] \in CallRecord /\ call'[c].step = "issued"
      /\ call'[c].pc = call[c].pc /\ call'[c].op = call[c].op /\ call'[c].id = call[c].id
      /\ call'[c].late = call[c].late /\ call'[c].answer = call[c].answer
  BY <1>1, <1>7 DEF CallRecord, Steps
<1>9. call' \in [Calls -> CallRecord] /\ \A d \in Calls \ {c} : call'[d] = call[d]
  BY <1>1, <1>7, <1>8
<1>10. Evolves /\ KeepsEntries /\ StoreOK' /\ AckedOK'
  BY <1>2, EntriesStay
<1>11. \A d \in Calls : CallOK(call[d])'
  <2>1. CallOK(call[c])'
    BY <1>1, <1>2, <1>4, <1>8 DEF CallOK, Written, Kept, Past
  <2>2. ASSUME NEW d \in Calls \ {c} PROVE CallOK(call[d])'
    <3>1. CallOK(call[d]) /\ call[d] \in CallRecord /\ call'[d] = call[d]
      BY <1>1, <1>9 DEF IInv
    <3> QED
      BY <1>2, <3>1 DEF CallOK, Written, Kept, Past
  <2> QED
    BY <2>1, <2>2
<1>12. \A q \in refs' : RefOK(q)'
  <2>1. ASSUME NEW q, RefOK(q) PROVE RefOK(q)'
    BY <1>2, <2>1 DEF RefOK, Written, Kept, Past
  <2>2. RefOK(ref)
    BY <1>1, <1>4, <1>5 DEF RefOK
  <2> QED
    BY <1>6, <2>1, <2>2 DEF IInv
<1>13. TypeOK'
  BY <1>1, <1>2, <1>5, <1>6, <1>9 DEF TypeOK, CallRecord
<1> QED
  BY <1>1, <1>2, <1>7, <1>8, <1>10, <1>11, <1>12, <1>13 DEF IInv

(* A new process: its memory and its breaker are new, its key may be, and  *)
(* of the old calls only a deletion that was sent can still do anything.   *)
LEMMA RestartStep ==
  ASSUME IInv, Restart
  PROVE  IInv' /\ \A c \in Calls : call'[c].pc = call[c].pc
<1>1. /\ TypeOK /\ StoreTyped /\ StoreOK /\ AckedOK /\ call \in [Calls -> CallRecord]
      /\ restarts \in Nat /\ vault.keyed \in BOOLEAN
  BY DEF IInv, TypeOK, StoreTyped, CallRecord
<1>2. /\ UNCHANGED <<now, refs, deadlines, deleted, acked>>
      /\ restarts' = restarts + 1 /\ cb' = ResetBreaker
      /\ store' = IF vault.kind = "aws" THEN store ELSE [i \in Ids |-> None]
  BY DEF Restart
<1>3. None \notin Ids \cup Ops \cup Steps \cup Answers
  BY VaultAssumption
<1>4. Evolves /\ StoreTyped' /\ StoreOK' /\ AckedOK'
  <2>1. CASE vault.kind = "aws"
    BY <1>2, <2>1, EntriesStay
  <2>2. CASE vault.kind # "aws"
    <3>1. /\ store' = [i \in Ids |-> None] /\ acked \subseteq Ids
          /\ \A i \in Ids : store'[i] = None
      BY <1>1, <1>2, <2>2 DEF TypeOK
    <3> QED
      BY <1>1, <1>2, <3>1 DEF Evolves, StoreTyped, StoreOK, AckedOK, Written
  <2> QED
    BY <2>1, <2>2
<1>5. vault.kind = "aws" => KeepsEntries
  BY <1>2 DEF KeepsEntries, Kept, Past
<1>6. ASSUME NEW c \in Calls
      PROVE  call'[c] \in CallRecord /\ CallOK(call[c])' /\ call'[c].pc = call[c].pc
  <2> DEFINE r == call[c]
             s == call'[c]
  <2>1. r \in CallRecord /\ CallOK(r) /\ r.pc \in Phases
    BY <1>1 DEF IInv, CallRecord, Phases
  <2>2. s = IF r.pc = "idle" THEN r
            ELSE IF r.step = "service" /\ r.op = "delete" THEN [r EXCEPT !.step = "orphan"]
            ELSE [Over(r, r.pc) EXCEPT !.step = "gone"]
    BY DEF Restart
  <2>3. CASE r.pc = "idle"
    <3>1. s = r /\ r.step = None
      BY <2>1, <2>2, <2>3 DEF CallOK
    <3>2. r.step \notin {"answered", "done", "issued"}
      BY <1>3, <3>1 DEF Steps
    <3> HIDE DEF r
    <3>3. CallOK(r)'
      <4> USE DEF r
      <4> QED
        BY <1>2, <1>4, <2>1, <3>1, <3>2 DEF CallOK, Evolves, Written, CallRecord
    <3> QED
      BY <2>1, <3>1, <3>3 DEF r
  <2>4. CASE r.pc # "idle" /\ r.step = "service" /\ r.op = "delete"
    <3>1. s = [r EXCEPT !.step = "orphan"]
      BY <2>2, <2>4
    <3>2. /\ s \in CallRecord /\ s.step = "orphan" /\ s.pc = r.pc /\ s.op = "delete"
          /\ s.id = r.id /\ s.late = r.late /\ s.answer = r.answer
      BY <2>1, <2>4, <3>1 DEF CallRecord, Steps
    <3>3. r.id \in Ids /\ Written(r.id) /\ r.answer = None /\ ~ r.late
      BY <2>1, <2>4 DEF CallOK, CallRecord
    <3>4. CallOK(call[c])'
      BY <1>2, <1>3, <2>4, <3>2, <3>3 DEF CallOK, Written, Answers
    <3> QED
      BY <3>2, <3>4
  <2>5. CASE r.pc # "idle" /\ ~ (r.step = "service" /\ r.op = "delete")
    <3>1. s = [Over(r, r.pc) EXCEPT !.step = "gone"]
      BY <2>2, <2>5
    <3>2. Ended(r, r.pc, s) /\ s.step = "gone"
      BY <2>1, <3>1, GoneFields
    <3>3. r.op = "write" /\ r.pc = "ok" => r.id \in Ids /\ Written(r.id)
      BY <2>1 DEF CallOK, CallRecord
    <3>4. CallOK(call[c])'
      BY <1>2, <1>3, <2>5, <3>2, <3>3 DEF Ended, CallOK, Written, Ops, Steps, Answers
    <3> QED
      BY <3>2, <3>4 DEF Ended
  <2> QED
    BY <2>3, <2>4, <2>5
<1>7. call' \in [Calls -> CallRecord]
  <2>1. call' = [c \in Calls |-> call'[c]]
    BY DEF Restart
  <2> QED
    BY <1>6, <2>1
<1>8. /\ vault' = [vault EXCEPT !.key = vault'.key]
      /\ vault'.key = KeyOf(vault.keyed, restarts')
  BY <1>1 DEF Restart, TypeOK
<1>9. /\ vault'.kind = vault.kind /\ vault'.keyed = vault.keyed
      /\ vault' \in [kind : Kinds, keyed : BOOLEAN, key : Nat \cup {None}, down : BOOLEAN]
  <2>1. vault'.key \in Nat \cup {None}
    BY <1>1, <1>2, <1>8 DEF KeyOf
  <2> QED
    BY <1>1, <1>8, <2>1 DEF TypeOK
<1>10. cb' \in BreakerRecord /\ restarts' \in Nat
  BY <1>1, <1>2 DEF ResetBreaker, BreakerRecord, CircuitState, Null
<1>11. TypeOK'
  BY <1>1, <1>2, <1>4, <1>7, <1>9, <1>10 DEF TypeOK, StoreTyped, CallRecord
<1>12. \A ref \in refs : RefOK(ref)'
  <2> SUFFICES ASSUME NEW ref \in refs PROVE RefOK(ref)'
    OBVIOUS
  <2>1. RefOK(ref)
    BY DEF IInv
  <2> QED
    BY <1>1, <1>2, <1>4, <1>5, <1>9, <1>10, <2>1, RefOKStable
<1> QED
  BY <1>2, <1>4, <1>6, <1>8, <1>9, <1>11, <1>12 DEF IInv

(* The service goes away or comes back; time passes.                       *)
LEMMA OutsideStep ==
  ASSUME IInv, Outage \/ Tick
  PROVE  IInv' /\ call' = call
<1>1. /\ TypeOK /\ StoreTyped /\ StoreOK /\ AckedOK /\ call \in [Calls -> CallRecord]
      /\ restarts \in Nat /\ now \in Nat /\ vault.key = KeyOf(vault.keyed, restarts)
  BY DEF IInv, TypeOK, StoreTyped, CallRecord
<1>2. UNCHANGED <<cb, store, call, refs, restarts, deadlines, deleted, acked>>
  BY DEF Outage, Tick
<1>3. now' \in Nat /\ now' >= now
  BY <1>1 DEF Outage, Tick
<1>4. /\ vault' \in [kind : Kinds, keyed : BOOLEAN, key : Nat \cup {None}, down : BOOLEAN]
      /\ vault'.kind = vault.kind /\ vault'.keyed = vault.keyed /\ vault'.key = vault.key
  BY <1>1 DEF Outage, Tick, TypeOK
<1>5. Evolves /\ StoreOK' /\ AckedOK'
  BY <1>1, <1>2 DEF Evolves, StoreOK, AckedOK, Written
<1>6. KeepsEntries
  <2> SUFFICES ASSUME NEW i \in Ids, Written(i), Kept(i) PROVE Kept(i)'
    BY DEF KeepsEntries
  <2>1. CASE store[i] # None
    BY <1>2, <2>1 DEF Kept
  <2>2. CASE i \in deleted \/ Past(deadlines[i])
    BY <1>1, <1>2, <1>3, <1>5, <2>2, KeptStable
  <2> QED
    BY <2>1, <2>2 DEF Kept
<1>7. \A c \in Calls : CallOK(call[c])'
  <2> SUFFICES ASSUME NEW c \in Calls PROVE CallOK(call[c])'
    OBVIOUS
  <2>1. CallOK(call[c]) /\ call[c] \in CallRecord /\ call'[c] = call[c]
    BY <1>1, <1>2 DEF IInv
  <2> DEFINE r == call[c]
  <2>2. r.op = "write" /\ r.step \in {"answered", "done", "issued"} /\ r.id # None
          => Kept(r.id)'
    BY <1>6, <2>1 DEF CallOK, CallRecord, KeepsEntries
  <2> QED
    BY <1>2, <2>1, <2>2 DEF CallOK, Written
<1>8. \A ref \in refs : RefOK(ref)'
  <2> SUFFICES ASSUME NEW ref \in refs PROVE RefOK(ref)'
    OBVIOUS
  <2>1. RefOK(ref)
    BY DEF IInv
  <2> QED
    BY <1>1, <1>2, <1>4, <1>5, <1>6, <2>1, RefOKStable
<1>9. TypeOK'
  BY <1>1, <1>2, <1>3, <1>4 DEF TypeOK
<1> QED
  BY <1>1, <1>2, <1>4, <1>5, <1>7, <1>8, <1>9 DEF IInv

(* A new vault is empty and has been asked for nothing.                    *)
LEMMA InitIInv == Init => IInv
<1> SUFFICES ASSUME Init PROVE IInv
  OBVIOUS
<1>1. None \notin Ids \cup Nat \cup {Null} \cup Ops \cup Steps \cup Answers
  BY VaultAssumption
<1>2. PICK kind \in Kinds, keyed \in BOOLEAN :
        vault = [kind |-> kind, keyed |-> keyed, key |-> KeyOf(keyed, 0), down |-> FALSE]
  BY DEF Init
<1>3. /\ vault \in [kind : Kinds, keyed : BOOLEAN, key : Nat \cup {None}, down : BOOLEAN]
      /\ vault.key = KeyOf(vault.keyed, 0)
  <2>1. KeyOf(keyed, 0) \in Nat \cup {None}
    BY DEF KeyOf
  <2> QED
    BY <1>2, <2>1
<1>4. NoCall \in CallRecord /\ CallOK(NoCall)
  BY <1>1 DEF NoCall, CallRecord, CallOK, Ops, Steps, Answers
<1>5. cb \in BreakerRecord
  BY DEF Init, ResetBreaker, BreakerRecord, CircuitState, Null
<1>6. call \in [Calls -> CallRecord] /\ \A c \in Calls : CallOK(call[c])
  BY <1>4 DEF Init
<1>7. TypeOK
  BY <1>3, <1>5, <1>6 DEF Init, TypeOK, CallRecord
<1> QED
  BY <1>3, <1>6, <1>7 DEF Init, IInv, StoreOK, AckedOK

(* Every step preserves the invariant.                                     *)
LEMMA Inductive == IInv /\ [Next]_vars => IInv'
<1> SUFFICES ASSUME IInv, [Next]_vars PROVE IInv'
  OBVIOUS
<1>1. CASE UNCHANGED vars
  BY <1>1 DEF vars, IInv, TypeOK, StoreOK, AckedOK, CallOK, RefOK, Written, Kept, Past
<1>2. CASE Next
  BY <1>2, OutsideStep, RestartStep, CallAdmittedStep, CallRefusedStep,
     ServiceAnswersStep, ServiceFailsStep, SucceedsStep, FailsStep, WrapsStep,
     GenerateRefStep, OrphanActsStep DEF Next
<1> QED
  BY <1>1, <1>2

(***************************************************************************)
(* The theorems.                                                           *)
(***************************************************************************)

(* The invariant holds throughout.                                         *)
LEMMA InvariantHolds == Spec => []IInv
<1> QED
  BY InitIInv, Inductive, PTL DEF Spec

(* A read that begins after a delete of the same id was answered true      *)
(* never returns the secret, whatever the service does in an outage and    *)
(* whatever deletions outlive the process that asked for them.             *)
THEOREM DeleteIsFinalHolds == Spec => []DeleteIsFinal
<1>1. IInv => DeleteIsFinal
  BY DEF IInv, CallOK, DeleteIsFinal
<1> QED
  BY <1>1, InvariantHolds, PTL

(* Where verifyRef and the store disagree about a reference, a deletion, a *)
(* deadline of its own or a restart is why.                                *)
THEOREM RefsExplainedHolds == Spec => []RefsExplained
<1>1. ASSUME IInv, NEW ref \in refs
      PROVE  /\ ref.id \in Ids /\ ref.process \in Nat /\ ref.expiry \in Nat
             /\ restarts \in Nat /\ now \in Nat /\ RefOK(ref)
             /\ vault.key = KeyOf(vault.keyed, restarts)
             /\ ref.key = vault.key => vault.keyed \/ ref.process = restarts
  BY <1>1 DEF IInv, TypeOK, RefOK, KeyOf
<1>2. IInv => DanglingExplained
  <2> SUFFICES ASSUME IInv, NEW ref \in refs, Verifies(ref), ~ Resolves(ref.id)
               PROVE  \/ ref.id \in deleted
                      \/ Past(deadlines[ref.id])
                      \/ vault.keyed /\ vault.kind # "aws" /\ ref.process < restarts
    BY DEF DanglingExplained
  <2>1. CASE Kept(ref.id)
    BY <1>1, <2>1 DEF IInv, StoreOK, Kept, Resolves
  <2>2. CASE ~ Kept(ref.id)
    BY <1>1, <2>2 DEF RefOK, Verifies, SignedHere
  <2> QED
    BY <2>1, <2>2
<1>3. IInv => RefusedOnlyAfterRestart
  <2> SUFFICES ASSUME IInv, NEW ref \in refs, ref.expiry >= now, ~ Verifies(ref)
               PROVE  ~ vault.keyed /\ ref.process < restarts
    BY DEF RefusedOnlyAfterRestart
  <2> QED
    BY <1>1 DEF RefOK, Verifies, SignedHere, KeyOf
<1>4. IInv => RefsExplained
  BY <1>2, <1>3 DEF IInv, RefsExplained
<1> QED
  BY <1>4, InvariantHolds, PTL

(***************************************************************************)
(* Refinement: each call of a vault is a call of BreakerContract.          *)
(***************************************************************************)
Callers == [c \in Calls |-> call[c].pc]

(* A step of one call changes the phase of no other.                       *)
LEMMA CallersStep ==
  ASSUME call \in [Calls -> CallRecord], NEW c \in Calls,
         call' = [call EXCEPT ![c] = call'[c]]
  PROVE  Callers' = [Callers EXCEPT ![c] = call'[c].pc]
<1>1. \A d \in Calls : Callers'[d] = IF d = c THEN call'[c].pc ELSE Callers[d]
  BY DEF Callers
<1> QED
  BY <1>1 DEF Callers

(* What the vault's breaker does to its gate, in the words of the contract.*)
LEMMA GateSteps ==
  /\ SameGate(cb, cb') => Contract!Hold
  /\ Passing(cb') => Contract!Pass
  /\ Blocking(cb', now) => Contract!Block
  /\ \A left : Probing(cb', left) => Contract!Probe(left)
  /\ WaitOver(cb, now) => Contract!Waited
BY DEF SameGate, Passing, Blocking, Probing, WaitOver, Contract!Hold, Contract!Pass,
   Contract!Block, Contract!Probe, Contract!Waited

(* A call that guardedCall lets through.                                   *)
LEMMA AdmittedRefines ==
  ASSUME IInv, NEW c \in Calls, CallAdmitted(c)
  PROVE  Contract!Start(c)
<1>1. /\ cb \in BreakerRecord /\ now \in Nat /\ now' = now
      /\ call \in [Calls -> CallRecord] /\ Callers[c] = "idle"
      /\ Admits(GetState(cb, now)) /\ cb' = Admit(GetState(cb, now))
  BY DEF IInv, TypeOK, CallRecord, CallAdmitted, Callers
<1>2. Callers' = [Callers EXCEPT ![c] = "running"]
  BY <1>1, CallAdmittedStep, CallersStep
<1>3. \/ GateMode(cb) = "passing" /\ Contract!Hold
      \/ /\ GateMode(cb) = "probing" /\ GateQuota(cb) > 0
         /\ Contract!Probe(GateQuota(cb) - 1)
      \/ /\ Contract!Waited /\ HalfOpenMaxRequests > 0
         /\ Contract!Probe(HalfOpenMaxRequests - 1)
  BY <1>1, AdmitGate, GateSteps
<1> QED
  BY <1>1, <1>2, <1>3 DEF Contract!Start, Callers

(* A call that it refuses.                                                 *)
LEMMA RefusedRefines ==
  ASSUME IInv, NEW c \in Calls, CallRefused(c)
  PROVE  Contract!Refuse(c)
<1>1. /\ cb \in BreakerRecord /\ now \in Nat /\ now' = now
      /\ call \in [Calls -> CallRecord] /\ Callers[c] = "idle"
      /\ ~ Admits(GetState(cb, now)) /\ cb' = GetState(cb, now)
  BY DEF IInv, TypeOK, CallRecord, CallRefused, Callers
<1>2. Callers' = [Callers EXCEPT ![c] = "refused"]
  BY <1>1, CallRefusedStep, CallersStep
<1>3. Contract!Hold \/ (Contract!Waited /\ Contract!Probe(HalfOpenMaxRequests))
  BY <1>1, GetStateGate, GateSteps
<1>4. GateMode(cb) # "passing"
  BY <1>1, RefuseGate
<1> QED
  BY <1>1, <1>2, <1>3, <1>4 DEF Contract!Refuse, Callers

(* An answer that the breaker hears of.                                    *)
LEMMA SettledRefines ==
  ASSUME IInv, NEW c \in Calls, Succeeds(c) \/ Fails(c)
  PROVE  Contract!Settle(c)
<1>1. /\ cb \in BreakerRecord /\ now \in Nat /\ now' = now
      /\ call \in [Calls -> CallRecord] /\ Callers[c] = "running"
      /\ GateMode(cb) \in {"passing", "probing", "blocking"}
  BY DEF IInv, TypeOK, CallRecord, CallOK, Succeeds, Fails, Callers, GateMode
<1> DEFINE effect ==
             \/ GateMode(cb) = "passing" /\ (Contract!Hold \/ Contract!Block)
             \/ GateMode(cb) = "probing" /\ (Contract!Pass \/ Contract!Block)
             \/ GateMode(cb) = "blocking" /\ Contract!Hold
<1>2. ASSUME Succeeds(c)
      PROVE  Callers' = [Callers EXCEPT ![c] = "ok"] /\ effect
  <2>1. Callers' = [Callers EXCEPT ![c] = "ok"]
    BY <1>1, <1>2, SucceedsStep, CallersStep
  <2>2. IF GateMode(cb) = "probing" THEN Passing(cb') ELSE SameGate(cb, cb')
    BY <1>1, <1>2, OnSuccessGate DEF Succeeds
  <2> QED
    BY <1>1, <2>1, <2>2, GateSteps
<1>3. ASSUME Fails(c)
      PROVE  Callers' = [Callers EXCEPT ![c] = "failed"] /\ effect
  <2>1. Callers' = [Callers EXCEPT ![c] = "failed"]
    BY <1>1, <1>3, FailsStep, CallersStep
  <2>2. /\ GateMode(cb) = "probing" => Blocking(cb', now)
        /\ GateMode(cb) = "passing" => SameGate(cb, cb') \/ Blocking(cb', now)
        /\ GateMode(cb) = "blocking" => SameGate(cb, cb')
    BY <1>1, <1>3, OnFailureGate DEF Fails
  <2> QED
    BY <1>1, <2>1, <2>2, GateSteps
<1>4. \E result \in {"ok", "failed"} : Callers' = [Callers EXCEPT ![c] = result]
  BY <1>2, <1>3
<1>5. effect
  BY <1>2, <1>3
<1> HIDE DEF effect
<1>6. Contract!Settle(c) <=>
        /\ Callers[c] = "running"
        /\ \E result \in {"ok", "failed"} : Callers' = [Callers EXCEPT ![c] = result]
        /\ effect
        /\ UNCHANGED now
  BY DEF Contract!Settle, Callers, effect
<1> QED
  BY <1>1, <1>4, <1>5, <1>6

(* The catch block looks at the gate once more.                            *)
LEMMA WrappedRefines ==
  ASSUME IInv, NEW c \in Calls, Wraps(c)
  PROVE  Contract!Look \/ (Callers' = Callers /\ now' = now /\ Contract!Hold)
<1>1. /\ cb \in BreakerRecord /\ now \in Nat /\ now' = now
      /\ call \in [Calls -> CallRecord] /\ cb' = GetState(cb, now)
  BY DEF IInv, TypeOK, CallRecord, Wraps
<1>2. Callers' = Callers
  BY <1>1, WrapsStep, CallersStep DEF Callers
<1>3. Contract!Hold \/ (Contract!Waited /\ Contract!Probe(HalfOpenMaxRequests))
  BY <1>1, GetStateGate, GateSteps
<1> QED
  BY <1>1, <1>2, <1>3 DEF Contract!Look, Callers

(* What a vault does between the calls and their settlement is not seen by *)
(* the breaker, and a restart is a new breaker.                            *)
LEMMA UnseenRefines ==
  ASSUME IInv,
         \/ \E c \in Calls : \/ ServiceAnswers(c) \/ ServiceFails(c)
                            \/ GenerateRef(c) \/ OrphanActs(c)
         \/ Outage
  PROVE  Callers' = Callers /\ now' = now /\ cb' = cb
<1>1. call \in [Calls -> CallRecord]
  BY DEF IInv, TypeOK, CallRecord
<1>2. now' = now /\ cb' = cb
  BY DEF ServiceAnswers, ServiceFails, GenerateRef, OrphanActs, Outage
<1>3. ASSUME NEW c \in Calls,
             ServiceAnswers(c) \/ ServiceFails(c) \/ GenerateRef(c) \/ OrphanActs(c)
      PROVE  Callers' = Callers
  <2>1. call' = [call EXCEPT ![c] = call'[c]] /\ call'[c].pc = call[c].pc
    BY <1>3, ServiceAnswersStep, ServiceFailsStep, GenerateRefStep, OrphanActsStep
  <2> QED
    BY <1>1, <2>1, CallersStep DEF Callers
<1>4. Outage => Callers' = Callers
  BY DEF Outage, Callers
<1> QED
  BY <1>2, <1>3, <1>4

(* The calls of a vault drive its breaker as the contract allows, although *)
(* the catch block looks at the state once more, an answer may come in any *)
(* later state of the gate, and a restart replaces the breaker.            *)
THEOREM GuardsItsVaultHolds == Spec => GuardsItsVault
<1>1. Init => Contract!Init
  <2> SUFFICES ASSUME Init PROVE Contract!Init
    OBVIOUS
  <2>1. Callers = [c \in Calls |-> "idle"]
    BY DEF Init, NoCall, Callers
  <2> QED
    BY <2>1 DEF Init, ResetBreaker, Contract!Init, Callers, GateMode, GateUntil, GateQuota
<1>2. IInv /\ [Next]_vars => [Contract!Next]_(Contract!vars)
  <2> DEFINE stutter ==
               UNCHANGED <<Callers, now, GateMode(cb), GateUntil(cb), GateQuota(cb)>>
  <2> SUFFICES ASSUME IInv, [Next]_vars PROVE Contract!Next \/ stutter
    BY DEF Contract!vars, Callers
  <2>1. ASSUME NEW c \in Calls, CallAdmitted(c) \/ CallRefused(c) \/ Succeeds(c) \/ Fails(c)
        PROVE  Contract!Next
    BY <2>1, AdmittedRefines, RefusedRefines, SettledRefines DEF Contract!Next
  <2>2. ASSUME NEW c \in Calls, Wraps(c) PROVE Contract!Next \/ stutter
    BY <2>2, WrappedRefines DEF Contract!Next, Contract!Hold
  <2>3. ASSUME \/ \E c \in Calls : \/ ServiceAnswers(c) \/ ServiceFails(c)
                                  \/ GenerateRef(c) \/ OrphanActs(c)
               \/ Outage
        PROVE  stutter
    BY <2>3, UnseenRefines
  <2>4. ASSUME Restart PROVE Contract!Next
    <3>1. Callers' = Callers
      BY <2>4, RestartStep DEF Callers
    <3>2. Contract!Pass /\ now' = now
      BY <2>4 DEF Restart, ResetBreaker, Contract!Pass, GateMode, GateUntil, GateQuota
    <3> QED
      BY <3>1, <3>2 DEF Contract!Next, Contract!Override, Callers
  <2>5. ASSUME Tick PROVE Contract!Next
    BY <2>5 DEF Tick, IInv, TypeOK, Contract!Next, Contract!Tick
  <2>6. ASSUME UNCHANGED vars PROVE stutter
    BY <2>6 DEF vars, Callers
  <2> QED
    BY <2>1, <2>2, <2>3, <2>4, <2>5, <2>6 DEF Next
<1> QED
  BY <1>1, <1>2, InvariantHolds, PTL DEF Spec, GuardsItsVault, Contract!Spec

================================================================================
