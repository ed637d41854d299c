------------------------------ MODULE GuardProofs ------------------------------
(***************************************************************************)
(* The parts of a KeySpot instance, for every limit and any number of      *)
(* values, secrets, streams, checkpoints, dictionaries and rules.  Each    *)
(* part is proved about by itself, the audit log first; PartsStep shows    *)
(* that a behaviour of the whole is one of each part.                      *)
(***************************************************************************)
EXTENDS Guard, SequenceTheorems, FiniteSetTheorems, NaturalsInduction, WellFoundedInduction, TLAPS

(***************************************************************************)
(* The audit log: one chain, verified while undisturbed, and a log that    *)
(* verifies and ends in lastHash agrees with the log that was written in   *)
(* all that is hashed.                                                     *)
(***************************************************************************)

IsSeq(s) == s \in Seq({s[i] : i \in 1 .. Len(s)})

(***************************************************************************)
(* Sequences.                                                              *)
(***************************************************************************)

(* A sequence of anything is a sequence of its own elements.               *)
LEMMA SeqIsSeq ==
  ASSUME NEW S, NEW s \in Seq(S)
  PROVE  IsSeq(s)
BY DEF IsSeq

(* Append keeps the elements there are and adds one.                       *)
LEMMA AppendIsSeq ==
  ASSUME NEW s, IsSeq(s), NEW e
  PROVE  /\ IsSeq(Append(s, e))
         /\ Len(s) \in Nat
         /\ Len(Append(s, e)) = Len(s) + 1
         /\ \A i \in 1 .. Len(s) : Append(s, e)[i] = s[i]
         /\ Append(s, e)[Len(s) + 1] = e
<1> DEFINE S == {s[i] : i \in 1 .. Len(s)} \cup {e}
<1>1. s \in Seq(S)
  BY SeqMonotonic DEF IsSeq
<1>2. Append(s, e) \in Seq(S)
  BY <1>1
<1>3. IsSeq(Append(s, e))
  BY <1>2, SeqIsSeq
<1> QED
  BY <1>1, <1>3

(* A sequence that is not empty is its front and its last element.         *)
LEMMA FrontIsSeq ==
  ASSUME NEW s, IsSeq(s), s # <<>>,
         NEW f, f = SubSeq(s, 1, Len(s) - 1)
  PROVE  /\ Len(s) \in Nat \ {0}
         /\ IsSeq(f)
         /\ Len(f) = Len(s) - 1
         /\ \A i \in 1 .. Len(f) : f[i] = s[i]
         /\ s = Append(f, s[Len(s)])
<1> DEFINE S == {s[i] : i \in 1 .. Len(s)}
<1>1. s \in Seq(S) /\ Len(s) \in Nat \ {0}
  BY EmptySeq DEF IsSeq
<1>2. /\ f \in Seq(S)
      /\ Len(f) = Len(s) - 1
      /\ \A i \in 1 .. Len(f) : f[i] = s[i]
  <2> DEFINE n == Len(s) - 1
  <2>1. n \in Nat /\ \A i \in 1 .. n : s[i] \in S
    BY <1>1
  <2>2. /\ SubSeq(s, 1, n) \in Seq(S)
        /\ Len(SubSeq(s, 1, n)) = IF 1 <= n THEN n - 1 + 1 ELSE 0
        /\ \A i \in 1 .. n - 1 + 1 : SubSeq(s, 1, n)[i] = s[1 + i - 1]
    <3> HIDE DEF n, S
    <3> QED
      BY <2>1, SubSeqProperties
  <2>3. \A i \in 1 .. n : s[1 + i - 1] = s[i]
    BY <2>1
  <2>4. f = SubSeq(s, 1, n)
    OBVIOUS
  <2> HIDE DEF n, S
  <2>5. f \in Seq(S) /\ Len(f) = n
    BY <2>1, <2>2, <2>4
  <2>6. \A i \in 1 .. Len(f) : f[i] = s[i]
    BY <2>1, <2>2, <2>3, <2>4, <2>5
  <2> QED
    BY <2>5, <2>6 DEF n
<1>3. IsSeq(f)
  BY <1>2, SeqIsSeq
<1>4. s = Append(f, s[Len(s)])
  <2>1. s[Len(s)] \in S
    BY <1>1
  <2>2. Append(f, s[Len(s)]) \in Seq(S) /\ Len(Append(f, s[Len(s)])) = Len(s)
    BY SMTT(30), <1>1, <1>2, <2>1
  <2>3. \A i \in 1 .. Len(s) : s[i] = Append(f, s[Len(s)])[i]
    BY SMTT(30), <1>1, <1>2, <2>1
  <2> QED
    BY <1>1, <2>2, <2>3, SeqEqual
<1> QED
  BY <1>1, <1>2, <1>3, <1>4

(***************************************************************************)
(* The inductive invariant.                                                *)
(***************************************************************************)

(* How many entries are kept depends on nothing but how many were logged.  *)
(* Without it, a log at capacity and one that lost entries look the same.  *)
KeptCount ==
  Len(entries) =
    IF MaxEntries = 0 \/ Len(logged) <= MaxEntries THEN Len(logged) ELSE MaxEntries

KeptAreNewest ==
  \A i \in 1 .. Len(entries) : entries[i] = logged[Len(logged) - Len(entries) + i]

Chained == \A i \in 1 .. Len(logged) : LinkOK(logged, i) /\ HashOK(logged, i)

IInv ==
  /\ TypeOK
  /\ IsSeq(logged) /\ IsSeq(entries)
  /\ KeptCount
  /\ KeptAreNewest
  /\ Chained
  /\ lastHash = LastHashOf(logged)

(* log() keeps the newest entries of the longer log.                       *)
LEMMA LogKeepsNewest ==
  ASSUME IInv, NEW event \in Events, Log(event)
  PROVE  IsSeq(entries') /\ KeptCount' /\ KeptAreNewest'
<1> DEFINE e == NewEntry(event, clock, lastHash)
           both == Append(entries, e)
<1>0. MaxEntries \in Nat
  BY AuditLogAssumption
<1>1. /\ entries' = Newest(both)
      /\ logged' = Append(logged, e)
  BY DEF Log
<1> HIDE DEF e
<1>2. /\ IsSeq(both) /\ Len(entries) \in Nat /\ Len(both) = Len(entries) + 1
      /\ \A i \in 1 .. Len(entries) : both[i] = entries[i]
      /\ both[Len(entries) + 1] = e
  BY AppendIsSeq DEF IInv
<1>3. /\ Len(logged) \in Nat /\ Len(logged') = Len(logged) + 1
      /\ \A i \in 1 .. Len(logged) : logged'[i] = logged[i]
      /\ logged'[Len(logged) + 1] = e
  BY <1>1, AppendIsSeq DEF IInv
<1>4. \A i \in 1 .. Len(both) : both[i] = logged'[Len(logged') - Len(both) + i]
  <2> TAKE i \in 1 .. Len(both)
  <2>1. CASE i = Len(both)
    BY <1>2, <1>3, <2>1
  <2>2. CASE i < Len(both)
    <3>1. i \in 1 .. Len(entries) /\ both[i] = entries[i]
      BY <1>2, <2>2
    <3>2. entries[i] = logged[Len(logged) - Len(entries) + i]
      BY <3>1 DEF IInv, KeptAreNewest
    <3>3. /\ Len(logged) - Len(entries) + i \in 1 .. Len(logged)
          /\ Len(logged) - Len(entries) + i = Len(logged') - Len(both) + i
      <4> HIDE DEF both
      <4>1. Len(entries) <= Len(logged)
        BY <1>0, <1>2, <1>3 DEF IInv, KeptCount
      <4> QED
        BY <1>2, <1>3, <3>1, <4>1
    <3> QED
      BY <1>3, <3>1, <3>2, <3>3
  <2> QED
    BY <1>2, <2>1, <2>2
<1>5. CASE MaxEntries = 0 \/ Len(both) <= MaxEntries
  <2>1. entries' = both
    BY <1>1, <1>5 DEF Newest
  <2>2. KeptCount'
    BY <1>0, <1>2, <1>3, <1>5, <2>1 DEF IInv, KeptCount
  <2> QED
    BY <1>2, <1>4, <2>1, <2>2 DEF KeptAreNewest
<1>6. CASE MaxEntries # 0 /\ Len(both) > MaxEntries
  <2> DEFINE S == {both[i] : i \in 1 .. Len(both)}
             m == Len(both) - MaxEntries + 1
             n == Len(both)
  <2>1. Len(both) = MaxEntries + 1 /\ m = 2 /\ n - m + 1 = MaxEntries
    BY <1>0, <1>2, <1>3, <1>6 DEF IInv, KeptCount
  <2>2. entries' = SubSeq(both, m, n)
    <3> HIDE DEF both
    <3>1. ~ (Len(both) <= MaxEntries)
      BY <1>0, <1>2, <1>6
    <3> QED
      BY <1>1, <1>6, <3>1 DEF Newest
  <2>3. m \in Int /\ n \in Int /\ \A i \in m .. n : both[i] \in S
    BY <1>0, <1>2, <2>1
  <2>4. /\ SubSeq(both, m, n) \in Seq(S)
        /\ Len(SubSeq(both, m, n)) = IF m <= n THEN n - m + 1 ELSE 0
        /\ \A i \in 1 .. n - m + 1 : SubSeq(both, m, n)[i] = both[m + i - 1]
    <3> HIDE DEF S, m, n, both
    <3> QED
      BY <2>3, SubSeqProperties
  <2>5. /\ entries' \in Seq(S)
        /\ Len(entries') = MaxEntries
        /\ \A i \in 1 .. MaxEntries : entries'[i] = both[i + 1]
    BY SMTT(30), <1>0, <1>2, <1>6, <2>1, <2>2, <2>4
  <2>6. IsSeq(entries')
    BY <2>5, SeqIsSeq
  <2>7. KeptCount'
    BY <1>0, <1>2, <1>3, <1>6, <2>1, <2>5 DEF IInv, KeptCount
  <2>8. KeptAreNewest'
    <3>1. ASSUME NEW i \in 1 .. Len(entries')
          PROVE  entries'[i] = logged'[Len(logged') - Len(entries') + i]
      <4> HIDE DEF both
      <4>1. entries'[i] = both[i + 1] /\ i + 1 \in 1 .. Len(both)
        BY <1>0, <2>1, <2>5
      <4>2. Len(logged') - Len(both) + (i + 1) = Len(logged') - Len(entries') + i
        BY <1>0, <1>3, <2>1, <2>5
      <4> QED
        BY <1>4, <4>1, <4>2
    <3> QED
      BY <3>1 DEF KeptAreNewest
  <2> QED
    BY <2>6, <2>7, <2>8
<1> QED
  BY <1>0, <1>2, <1>5, <1>6

(* log() adds a link to the end of the chain.                              *)
LEMMA LogExtendsChain ==
  ASSUME IInv, NEW event \in Events, Log(event)
  PROVE  IsSeq(logged') /\ Chained' /\ lastHash' = LastHashOf(logged')
<1> DEFINE e == NewEntry(event, clock, lastHash)
           n == Len(logged)
<1>1. logged' = Append(logged, e) /\ lastHash' = e.hash
  BY DEF Log
<1>2. /\ e.prevHash = LastHashOf(logged)
      /\ e.hash = Recomputed(e)
  BY DEF NewEntry, Recomputed, IInv
<1> HIDE DEF e
<1>3. /\ IsSeq(logged') /\ n \in Nat /\ Len(logged') = n + 1
      /\ \A i \in 1 .. n : logged'[i] = logged[i]
      /\ logged'[n + 1] = e
  BY <1>1, AppendIsSeq DEF IInv
<1>4. lastHash' = LastHashOf(logged')
  <2>1. logged' # <<>>
    BY <1>3
  <2> QED
    BY <1>1, <1>3, <2>1 DEF LastHashOf
<1>5. ASSUME NEW i \in 1 .. Len(logged')
      PROVE  LinkOK(logged', i) /\ HashOK(logged', i)
  <2>1. CASE i \in 1 .. n
    <3>1. LinkOK(logged, i) /\ HashOK(logged, i)
      BY <2>1 DEF IInv, Chained
    <3>2. logged'[i] = logged[i] /\ (i # 1 => logged'[i - 1] = logged[i - 1])
      BY <1>3, <2>1
    <3> QED
      BY <3>1, <3>2 DEF LinkOK, HashOK
  <2>2. CASE i = n + 1
    <3>1. HashOK(logged', i)
      BY <1>2, <1>3, <2>2 DEF HashOK
    <3>2. LastHashOf(logged) = IF i = 1 THEN Genesis ELSE Recomputed(logged'[i - 1])
      <4>1. CASE n = 0
        <5>1. logged = <<>>
          BY <1>3, <4>1, EmptySeq DEF IInv, IsSeq
        <5> QED
          BY <2>2, <4>1, <5>1 DEF LastHashOf
      <4>2. CASE n # 0
        <5>1. n \in 1 .. n /\ logged # <<>> /\ i - 1 = n /\ i # 1
          BY <1>3, <2>2, <4>2
        <5>2. HashOK(logged, n)
          BY <5>1 DEF IInv, Chained
        <5> QED
          BY <1>3, <5>1, <5>2 DEF LastHashOf, HashOK
      <4> QED
        BY <4>1, <4>2
    <3> QED
      BY <1>2, <1>3, <2>2, <3>1, <3>2 DEF LinkOK
  <2> QED
    BY <1>3, <2>1, <2>2
<1> QED
  BY <1>3, <1>4, <1>5 DEF Chained

(* What is kept was logged, and what is logged is an entry.                *)
LEMMA LogTyped ==
  ASSUME IInv, NEW event \in Events, Log(event)
  PROVE  TypeOK'
<1> DEFINE e == NewEntry(event, clock, lastHash)
<1>1. logged' = Append(logged, e) /\ clock' = clock
  BY DEF Log
<1>2. LogEntry(e)
  BY DEF LogEntry, NewEntry, IInv, TypeOK
<1> HIDE DEF e
<1>3. /\ Len(logged) \in Nat /\ Len(logged') = Len(logged) + 1
      /\ \A i \in 1 .. Len(logged) : logged'[i] = logged[i]
      /\ logged'[Len(logged) + 1] = e
  BY <1>1, AppendIsSeq DEF IInv
<1>4. ASSUME NEW i \in 1 .. Len(logged')
      PROVE  LogEntry(logged'[i])
  <2>1. CASE i \in 1 .. Len(logged)
    BY <1>3, <2>1 DEF IInv, TypeOK
  <2>2. CASE i = Len(logged) + 1
    BY <1>2, <1>3, <2>2
  <2> QED
    BY <1>3, <2>1, <2>2
<1>5. ASSUME NEW i \in 1 .. Len(entries')
      PROVE  LogEntry(entries'[i])
  <2>1. IsSeq(entries') /\ KeptCount' /\ KeptAreNewest'
    BY LogKeepsNewest
  <2>2. Len(logged') - Len(entries') + i \in 1 .. Len(logged')
    BY <1>3, <2>1, AuditLogAssumption DEF KeptCount
  <2> QED
    BY <1>4, <2>1, <2>2 DEF KeptAreNewest
<1> QED
  BY <1>1, <1>4, <1>5 DEF IInv, TypeOK

(* A log that was just built satisfies the invariant.                      *)
LEMMA InitIInv == Init => IInv
<1> SUFFICES ASSUME Init PROVE IInv
  OBVIOUS
<1>1. entries = <<>> /\ logged = <<>> /\ lastHash = Genesis /\ clock = 1
  BY DEF Init
<1>2. Len(entries) = 0 /\ Len(logged) = 0 /\ IsSeq(entries) /\ IsSeq(logged)
  BY <1>1 DEF IsSeq
<1> QED
  BY <1>1, <1>2, AuditLogAssumption
  DEF IInv, TypeOK, KeptCount, KeptAreNewest, Chained, LastHashOf

(* Logging, clearing and the passing of time keep it.                      *)
LEMMA NextIInv == IInv /\ [Next]_vars => IInv'
<1> SUFFICES ASSUME IInv, [Next]_vars PROVE IInv'
  OBVIOUS
<1>1. ASSUME NEW event \in Events, Log(event) PROVE IInv'
  <2>1. IsSeq(entries') /\ KeptCount' /\ KeptAreNewest'
    BY <1>1, LogKeepsNewest
  <2>2. IsSeq(logged') /\ Chained' /\ lastHash' = LastHashOf(logged')
    BY <1>1, LogExtendsChain
  <2>3. TypeOK'
    BY <1>1, LogTyped
  <2>4. (lastHash = LastHashOf(logged))'
    BY <2>2
  <2> QED
    BY <2>1, <2>2, <2>3, <2>4 DEF IInv
<1>2. CASE Clear
  <2>1. entries' = <<>> /\ logged' = <<>> /\ lastHash' = Genesis /\ clock' = clock
    BY <1>2 DEF Clear
  <2>2. Len(entries') = 0 /\ Len(logged') = 0 /\ IsSeq(entries') /\ IsSeq(logged')
    BY <2>1 DEF IsSeq
  <2> QED
    BY <2>1, <2>2, AuditLogAssumption
    DEF IInv, TypeOK, KeptCount, KeptAreNewest, Chained, LastHashOf
<1>3. CASE SetClock
  <2>1. clock' \in Nat /\ UNCHANGED <<entries, logged, lastHash>>
    BY <1>3, AuditLogAssumption DEF SetClock
  <2> QED
    BY <2>1 DEF IInv, TypeOK, KeptCount, KeptAreNewest, Chained, LastHashOf, LinkOK, HashOK
<1>4. CASE UNCHANGED vars
  BY <1>4 DEF vars, IInv, TypeOK, KeptCount, KeptAreNewest, Chained, LastHashOf, LinkOK, HashOK
<1> QED
  BY <1>1, <1>2, <1>3, <1>4 DEF Next

(***************************************************************************)
(* The theorems.                                                           *)
(***************************************************************************)

(* The invariant holds at every moment (security.ts:71-139).               *)
THEOREM Inductive == Spec => []IInv
BY InitIInv, NextIInv, PTL DEF Spec

(* Every entry kept or ever logged is an entry, at every capacity.         *)
THEOREM TypeCorrect == Spec => []TypeOK
<1>1. IInv => TypeOK
  BY DEF IInv
<1> QED
  BY <1>1, Inductive, PTL

(* The log is one chain of which the newest part is kept, and lastHash is  *)
(* its end, whatever the capacity and however the clock jumps.             *)
THEOREM OneChainHolds == Spec => []OneChain
<1>1. IInv => OneChain
  <2> SUFFICES ASSUME IInv PROVE OneChain
    OBVIOUS
  <2> DEFINE k == Len(logged) - Len(entries)
             S == {logged[i] : i \in 1 .. Len(logged)}
  <2>1. /\ Len(logged) \in Nat /\ Len(entries) \in Nat
        /\ k \in Nat /\ MaxEntries \in Nat
    BY AuditLogAssumption DEF IInv, IsSeq, KeptCount
  <2>2. entries = SubSeq(logged, k + 1, Len(logged))
    <3> DEFINE newest == SubSeq(logged, k + 1, Len(logged))
    <3>1. k + 1 \in Int /\ Len(logged) \in Int
          /\ \A i \in k + 1 .. Len(logged) : logged[i] \in S
      BY <2>1
    <3>2. /\ newest \in Seq(S)
          /\ Len(newest) = IF k + 1 <= Len(logged) THEN Len(logged) - (k + 1) + 1 ELSE 0
          /\ \A i \in 1 .. Len(logged) - (k + 1) + 1 : newest[i] = logged[(k + 1) + i - 1]
      <4> HIDE DEF k, S
      <4> QED
        BY <3>1, SubSeqProperties
    <3>3. Len(newest) = Len(entries)
      BY <2>1, <3>2
    <3>4. \A i \in 1 .. Len(entries) : entries[i] = newest[i]
      <4> TAKE i \in 1 .. Len(entries)
      <4>1. newest[i] = logged[(k + 1) + i - 1] /\ (k + 1) + i - 1 = k + i
        BY <2>1, <3>2
      <4> QED
        BY <4>1 DEF IInv, KeptAreNewest
    <3>5. entries \in Seq(S)
      <4>1. \A i \in 1 .. Len(entries) : entries[i] \in S
        <5> TAKE i \in 1 .. Len(entries)
        <5>1. k + i \in 1 .. Len(logged)
          BY <2>1
        <5> QED
          BY <5>1 DEF IInv, KeptAreNewest
      <4>2. {entries[i] : i \in 1 .. Len(entries)} \subseteq S
        BY <4>1
      <4> HIDE DEF S
      <4> QED
        BY <4>2, SeqMonotonic DEF IInv, IsSeq
    <3> HIDE DEF S, newest
    <3>6. entries = newest
      BY <3>2, <3>3, <3>4, <3>5, SeqEqual
    <3> QED
      BY <3>6 DEF newest
  <2>3. Len(entries) < Len(logged) => Len(entries) = MaxEntries
    BY <2>1 DEF IInv, KeptCount
  <2> QED
    BY <2>2, <2>3 DEF OneChain, IInv, Chained, LastHashOf
<1> QED
  BY <1>1, Inductive, PTL

(* A log from which nothing was dropped, kept by a clock that never went   *)
(* back, verifies: verifyChain gives no false alarm.                       *)
THEOREM NoFalseAlarmHolds == Spec => []NoFalseAlarm
<1>1. IInv => NoFalseAlarm
  <2> SUFFICES ASSUME IInv, entries = logged, SteadyClock
               PROVE  VerifyChain(logged)
    BY DEF NoFalseAlarm
  <2> SUFFICES ASSUME NEW i \in 1 .. Len(logged)
               PROVE  TimeOK(logged, i)
    BY DEF VerifyChain, IInv, Chained
  <2>1. Len(logged) \in Nat
    BY DEF IInv, IsSeq
  <2>2. i # 1 => i \in 2 .. Len(logged)
    BY <2>1
  <2> QED
    BY <2>2 DEF TimeOK, SteadyClock
<1> QED
  BY <1>1, Inductive, PTL

(***************************************************************************)
(* Tamper evidence.                                                        *)
(***************************************************************************)

(* A sequence of entries that verifyChain accepts.                         *)
Accepted(t) == IsSeq(t) /\ VerifyChain(t)

(* A log that verifies and ends in lastHash agrees with the log that was   *)
(* written: nothing that is hashed can be changed in it, and no entry      *)
(* dropped, added or moved.                                                *)
Unforgeable == \A t : Accepted(t) /\ LastHashOf(t) = lastHash => Agree(t, logged)

(* The front of an accepted log is accepted and ends in the hash that its  *)
(* last entry names.                                                       *)
LEMMA FrontAccepted ==
  ASSUME NEW t, Accepted(t), t # <<>>,
         NEW f, f = SubSeq(t, 1, Len(t) - 1)
  PROVE  Accepted(f) /\ LastHashOf(f) = t[Len(t)].prevHash
<1> DEFINE n == Len(t)
<1>1. /\ n \in Nat \ {0} /\ IsSeq(f) /\ Len(f) = n - 1
      /\ \A i \in 1 .. Len(f) : f[i] = t[i]
  BY FrontIsSeq DEF Accepted
<1>2. ASSUME NEW i \in 1 .. Len(f)
      PROVE  LinkOK(f, i) /\ TimeOK(f, i) /\ HashOK(f, i)
  <2>1. i \in 1 .. n /\ f[i] = t[i] /\ (i # 1 => f[i - 1] = t[i - 1])
    BY <1>1
  <2>2. LinkOK(t, i) /\ TimeOK(t, i) /\ HashOK(t, i)
    BY <2>1 DEF Accepted, VerifyChain
  <2> QED
    BY <2>1, <2>2 DEF LinkOK, TimeOK, HashOK
<1>3. LinkOK(t, n)
  BY <1>1 DEF Accepted, VerifyChain
<1>4. CASE n = 1
  <2>1. f = <<>>
    BY <1>1, <1>4, EmptySeq DEF IsSeq
  <2> QED
    BY <1>1, <1>2, <1>3, <1>4, <2>1 DEF Accepted, VerifyChain, LastHashOf, LinkOK
<1>5. CASE n # 1
  <2>1. n - 1 \in 1 .. n /\ n - 1 \in 1 .. Len(f) /\ f[n - 1] = t[n - 1]
    BY <1>1, <1>5
  <2>2. f # <<>>
    <3>1. Len(<<>>) = 0
      OBVIOUS
    <3>2. Len(f) # 0
      BY <1>1, <1>5
    <3> QED
      BY ONLY <3>1, <3>2
  <2>3. HashOK(t, n - 1)
    BY <2>1 DEF Accepted, VerifyChain
  <2>4. LastHashOf(f) = t[n].prevHash
    BY <1>1, <1>3, <1>5, <2>1, <2>2, <2>3 DEF LastHashOf, LinkOK, HashOK
  <2> QED
    BY <1>1, <1>2, <2>4 DEF Accepted, VerifyChain
<1> QED
  BY <1>4, <1>5

(* No entry hashes to the genesis hash.                                    *)
LEMMA OnlyEmptyEndsInGenesis ==
  ASSUME NEW t, Accepted(t), LastHashOf(t) = Genesis
  PROVE  t = <<>>
<1> SUFFICES ASSUME t # <<>> PROVE FALSE
  OBVIOUS
<1>1. Len(t) \in Nat \ {0}
  BY FrontIsSeq DEF Accepted
<1>2. HashOK(t, Len(t))
  BY <1>1 DEF Accepted, VerifyChain
<1> QED
  BY <1>2 DEF LastHashOf, HashOK, Recomputed, Hash, Genesis

(* Unforgeability is an invariant of its own: each call of log() extends   *)
(* the accepted logs there were.                                           *)
LEMMA LogUnforgeable ==
  ASSUME Unforgeable, IsSeq(logged), NEW event \in Events, Log(event)
  PROVE  Unforgeable'
<1> DEFINE e == NewEntry(event, clock, lastHash)
<1>1. logged' = Append(logged, e) /\ lastHash' = e.hash
  BY DEF Log
<1>2. e.hash = <<event.json, clock, lastHash>> /\ Recomputed(e) = e.hash
  BY DEF NewEntry, Recomputed, Hash
<1> HIDE DEF e
<1> SUFFICES ASSUME NEW t, Accepted(t), LastHashOf(t) = lastHash'
             PROVE  Agree(t, logged')
  BY DEF Unforgeable, Accepted, VerifyChain, LinkOK, TimeOK, HashOK, LastHashOf, Agree
<1>3. t # <<>>
  BY <1>1, <1>2 DEF LastHashOf, Genesis
<1> DEFINE f == SubSeq(t, 1, Len(t) - 1)
           last == t[Len(t)]
<1>4. /\ Len(t) \in Nat \ {0} /\ Len(f) = Len(t) - 1
      /\ \A i \in 1 .. Len(f) : t[i] = f[i]
      /\ Accepted(f) /\ LastHashOf(f) = last.prevHash
  BY <1>3, FrontIsSeq, FrontAccepted DEF Accepted
<1>5. last.hash = Recomputed(last)
  BY <1>4 DEF Accepted, VerifyChain, HashOK
<1>6. last.hash = e.hash
  BY <1>1, <1>3 DEF LastHashOf
<1>7. last.prevHash = lastHash
  <2>1. Recomputed(last) = <<last.event.json, last.timestamp, last.prevHash>>
    BY DEF Recomputed, Hash
  <2>2. <<last.event.json, last.timestamp, last.prevHash>> = <<event.json, clock, lastHash>>
    BY <1>2, <1>5, <1>6, <2>1
  <2> HIDE DEF last
  <2>3. \A a1, a2, a3, b1, b2, b3 : <<a1, a2, a3>> = <<b1, b2, b3>> => a3 = b3
    OBVIOUS
  <2> QED
    BY ONLY <2>2, <2>3
<1>8. Agree(f, logged)
  BY <1>4, <1>7 DEF Unforgeable
<1>9. PICK more : more = logged'
  OBVIOUS
<1>10. /\ Len(logged) \in Nat /\ Len(more) = Len(logged) + 1
       /\ \A i \in 1 .. Len(logged) : more[i] = logged[i]
       /\ more[Len(logged) + 1] = e
  BY <1>1, <1>9, AppendIsSeq
<1> HIDE DEF f, last
<1>11. Len(t) = Len(more)
  BY <1>4, <1>8, <1>10 DEF Agree
<1>12. ASSUME NEW i \in 1 .. Len(t)
       PROVE  Recomputed(t[i]) = Recomputed(more[i]) /\ t[i].hash = more[i].hash
  <2>1. CASE i \in 1 .. Len(f)
    BY <1>4, <1>8, <1>10, <2>1 DEF Agree
  <2>2. CASE i = Len(t)
    <3>1. t[i] = last /\ more[i] = e
      BY <1>4, <1>8, <1>10, <2>2 DEF last, Agree
    <3> QED
      BY <1>2, <1>5, <1>6, <3>1
  <2> QED
    BY <1>4, <2>1, <2>2
<1>13. Agree(t, more)
  BY <1>11, <1>12 DEF Agree
<1> QED
  BY <1>9, <1>13

(* Nothing agrees with nothing.                                            *)
LEMMA NothingAgrees == Agree(<<>>, <<>>)
BY DEF Agree

(* Whoever holds lastHash notices all that verifyChain accepts and that    *)
(* differs from what was hashed: the reason for getLastHash() and for      *)
(* anchoring it (security.ts:81-129).                                      *)
THEOREM TamperEvidence == Spec => []Unforgeable
<1>1. Init => Unforgeable
  BY OnlyEmptyEndsInGenesis, NothingAgrees DEF Init, Unforgeable
<1>2. IInv /\ Unforgeable /\ [Next]_vars => Unforgeable'
  <2> SUFFICES ASSUME IInv, Unforgeable, [Next]_vars PROVE Unforgeable'
    OBVIOUS
  <2>1. ASSUME NEW event \in Events, Log(event) PROVE Unforgeable'
    BY <2>1, LogUnforgeable DEF IInv
  <2>2. ASSUME UNCHANGED <<logged, lastHash>> PROVE Unforgeable'
    <3> SUFFICES ASSUME NEW t, Accepted(t), LastHashOf(t) = lastHash
                 PROVE  Agree(t, logged)
      BY <2>2 DEF Unforgeable, Accepted, VerifyChain, LinkOK, TimeOK, HashOK, LastHashOf, Agree
    <3> QED
      BY DEF Unforgeable
  <2>3. CASE Clear
    <3>1. logged' = <<>> /\ lastHash' = Genesis
      BY <2>3 DEF Clear
    <3> SUFFICES ASSUME NEW t, Accepted(t), LastHashOf(t) = Genesis
                 PROVE  Agree(t, <<>>)
      BY <3>1 DEF Unforgeable, Accepted, VerifyChain, LinkOK, TimeOK, HashOK, LastHashOf, Agree
    <3> QED
      BY OnlyEmptyEndsInGenesis, NothingAgrees
  <2> QED
    BY <2>1, <2>2, <2>3 DEF Next, SetClock, vars
<1> QED
  BY <1>1, <1>2, Inductive, PTL DEF Spec

(* At every capacity and whatever was evicted and cleared, the log is one  *)
(* chain that verifies while it is whole.                                  *)
THEOREM LogSoundHolds == Spec => []LogSound
BY TypeCorrect, OneChainHolds, NoFalseAlarmHolds, PTL DEF LogSound

(* What a log may be edited from: its entries, and these with another      *)
(* event or timestamp.                                                     *)
Pieces(s) ==
  {s[i] : i \in 1 .. Len(s)}
  \cup {[s[i] EXCEPT !.event = e] : i \in 1 .. Len(s), e \in Events}
  \cup {[s[i] EXCEPT !.timestamp = t] : i \in 1 .. Len(s), t \in 1 .. MaxTime}

(* Every edited log is a sequence of such pieces.                          *)
LEMMA EditedOfPieces ==
  ASSUME NEW s, IsSeq(s), NEW t \in Edited(s)
  PROVE  t \in Seq(Pieces(s))
<1> DEFINE n == Len(s)
           P == Pieces(s)
<1>1. n \in Nat /\ DOMAIN s = 1 .. n /\ s = [i \in 1 .. n |-> s[i]]
  BY DEF IsSeq
<1>2. \A i \in 1 .. n :
        /\ s[i] \in P
        /\ \A e \in Events : [s[i] EXCEPT !.event = e] \in P
        /\ \A k \in 1 .. MaxTime : [s[i] EXCEPT !.timestamp = k] \in P
  BY DEF Pieces
<1>3. s \in Seq(P)
  <2>1. {s[i] : i \in 1 .. Len(s)} \subseteq P
    BY DEF Pieces
  <2> HIDE DEF P
  <2> QED
    BY <2>1, SeqMonotonic DEF IsSeq
<1> SUFFICES t \in Seq(P)
  OBVIOUS
<1> HIDE DEF P
<1>4. ASSUME NEW i \in DOMAIN s, NEW e \in Events, t = [s EXCEPT ![i].event = e] PROVE t \in Seq(P)
  <2>1. [s[i] EXCEPT !.event = e] \in P
    BY <1>1, <1>2
  <2>2. t = [s EXCEPT ![i] = [s[i] EXCEPT !.event = e]]
    BY <1>4
  <2> QED
    BY <1>1, <1>3, <2>1, <2>2
<1>11. ASSUME NEW i \in DOMAIN s, NEW k \in 1 .. MaxTime, t = [s EXCEPT ![i].timestamp = k]
       PROVE  t \in Seq(P)
  <2>1. [s[i] EXCEPT !.timestamp = k] \in P
    BY <1>1, <1>2
  <2>2. t = [s EXCEPT ![i] = [s[i] EXCEPT !.timestamp = k]]
    BY <1>11
  <2> QED
    BY <1>1, <1>3, <2>1, <2>2
<1>5. ASSUME NEW i \in DOMAIN s, t = SubSeq(s, 1, i - 1) \o SubSeq(s, i + 1, Len(s)) PROVE t \in Seq(P)
  <2>1. i \in 1 .. n /\ \A k \in 1 .. n : s[k] \in P
    BY <1>1, <1>2
  <2>2. SubSeq(s, 1, i - 1) \in Seq(P)
    <3>1. i - 1 \in Nat /\ \A k \in 1 .. i - 1 : s[k] \in P
      BY <1>1, <2>1
    <3> QED
      BY <3>1, SubSeqProperties
  <2>3. SubSeq(s, i + 1, Len(s)) \in Seq(P)
    <3>1. i + 1 \in Nat /\ Len(s) \in Nat /\ \A k \in i + 1 .. Len(s) : s[k] \in P
      BY <1>1, <2>1
    <3> QED
      BY <3>1, SubSeqProperties
  <2> QED
    BY <1>5, <2>2, <2>3
<1>6. ASSUME NEW i \in DOMAIN s, NEW j \in DOMAIN s, t = [s EXCEPT ![i] = s[j], ![j] = s[i]]
      PROVE  t \in Seq(P)
  <2>1. s[i] \in P /\ s[j] \in P
    BY <1>1, <1>2
  <2> QED
    BY <1>1, <1>3, <1>6, <2>1
<1> DEFINE Changed == {[s EXCEPT ![i].event = e] : i \in DOMAIN s, e \in Events}
           Dated == {[s EXCEPT ![i].timestamp = k] : i \in DOMAIN s, k \in 1 .. MaxTime}
           Removed == {SubSeq(s, 1, i - 1) \o SubSeq(s, i + 1, Len(s)) : i \in DOMAIN s}
           Exchanged == {[s EXCEPT ![i] = s[j], ![j] = s[i]] : i \in DOMAIN s, j \in DOMAIN s}
<1>7. Edited(s) = Changed \cup Dated \cup Removed \cup Exchanged
  BY DEF Edited
<1>8. CASE t \in Changed
  BY <1>4, <1>8
<1>12. CASE t \in Dated
  BY <1>11, <1>12
<1>9. CASE t \in Removed
  BY <1>5, <1>9
<1>10. CASE t \in Exchanged
  BY <1>6, <1>10
<1> HIDE DEF Changed, Dated, Removed, Exchanged
<1> QED
  BY <1>7, <1>8, <1>9, <1>10, <1>12

(* A log stays one however it is forged.                                   *)
LEMMA ForgedIsSeq ==
  ASSUME NEW s, IsSeq(s), NEW t \in Forged(s)
  PROVE  IsSeq(t)
<1>1. ASSUME NEW u \in Edited(s) PROVE IsSeq(u) /\ Len(u) \in Nat
  <2>1. u \in Seq(Pieces(s))
    BY EditedOfPieces
  <2> QED
    BY <2>1, SeqIsSeq
<1>2. ASSUME NEW u \in Edited(s), t = Rehashed(u) PROVE IsSeq(t)
  <2> DEFINE hash == CHOOSE h : h = [i \in 0 .. Len(u) |->
                       IF i = 0 THEN Genesis ELSE Hash(u[i].event, u[i].timestamp, h[i - 1])]
             entry(i) == NewEntry(u[i].event, u[i].timestamp, hash[i - 1])
             E == {entry(i) : i \in 1 .. Len(u)}
  <2>1. t = [i \in 1 .. Len(u) |-> entry(i)]
    BY <1>2 DEF Rehashed
  <2> HIDE DEF entry
  <2>2. Len(u) \in Nat
    BY <1>1
  <2>3. t \in Seq(E)
    BY <2>1, <2>2
  <2> QED
    BY <2>3, SeqIsSeq
<1> QED
  BY <1>1, <1>2 DEF Forged

(* So whoever edits one entry, removes one or exchanges two in the log or  *)
(* in its kept part, with the hashes left or computed anew, and gets past  *)
(* verifyChain with the lastHash that getLastHash gave out, presents all   *)
(* that was hashed, in its order (security.ts:81-129).                     *)
THEOREM TamperEvidentHolds == Spec => []TamperEvident
<1>1. Unforgeable /\ IInv => TamperEvident
  <2> SUFFICES ASSUME Unforgeable, IInv, NEW s \in {logged, entries},
                      NEW t \in Forged(s) \cup {s}, VerifyChain(t), LastHashOf(t) = lastHash
               PROVE  Agree(t, logged)
    BY DEF TamperEvident
  <2>1. IsSeq(s)
    BY DEF IInv
  <2>2. IsSeq(t)
    BY <2>1, ForgedIsSeq
  <2> QED
    BY <2>2 DEF Unforgeable, Accepted
<1> QED
  BY <1>1, TamperEvidence, Inductive, PTL

all == <<part, auditing, hosted, streaming, tainting, registries, matching, shielding, walking>>

(***************************************************************************)
(* What a step of the whole is to each part.                               *)
(***************************************************************************)

(* Each part starts as it would alone.                                     *)
LEMMA PartsStart ==
  GuardInit =>
    /\ Init /\ HostedInit /\ StreamInit /\ TaintInit /\ RegistryInit /\ TrieInit
    /\ ShieldInit /\ WalkInit
BY DEF GuardInit

(* A step is a step of one part, and the others stand still.               *)
LEMMA PartsStep ==
  [GuardNext]_all =>
    /\ [Next]_vars /\ [HostedNext]_hosted /\ [StreamNext]_streaming
    /\ [TaintNext]_tainting /\ [RegistryNext]_registries /\ [MatchingNext]_matching
    /\ [ShieldNext]_shielding /\ [WalkNext]_walking
<1> SUFFICES ASSUME [GuardNext]_all
             PROVE  /\ [Next]_vars /\ [HostedNext]_hosted /\ [StreamNext]_streaming
                    /\ [TaintNext]_tainting /\ [RegistryNext]_registries /\ [MatchingNext]_matching
                    /\ [ShieldNext]_shielding /\ [WalkNext]_walking
  OBVIOUS
<1>1. CASE UNCHANGED all
  BY <1>1 DEF all, auditing
<1>2. CASE GuardNext
  BY <1>2 DEF GuardNext, Still, GuardParts, auditing
<1> QED
  BY <1>1, <1>2

(***************************************************************************)
(* The audit log.                                                          *)
(***************************************************************************)

(* The audit log of an instance behaves as AuditLog says, so that all that *)
(* is proved of AuditLog holds of it (compliance.ts, security.ts:60-139).  *)
THEOREM LogIsAuditLog == GuardSpec => Spec
BY PartsStart, PartsStep, PTL DEF GuardSpec, Spec, all

(* What was logged in an instance is one chain, and verifies while whole.  *)
THEOREM LogOfInstanceSound == GuardSpec => []LogSound
BY LogIsAuditLog, LogSoundHolds, PTL

(* The same of the log of an instance.                                     *)
THEOREM LogOfInstanceTamperEvident == GuardSpec => []TamperEvident
BY LogIsAuditLog, TamperEvidentHolds, PTL

(***************************************************************************)
(* The access token.                                                       *)
(***************************************************************************)
HostedShape == accessTime \in Nat /\ expiry \in Int \cup {NoToken}

(* A token is never set for longer than MAX_TOKEN_TTL.                     *)
LEMMA ClampedBounded ==
  ASSUME HostedShape, NEW e \in Int
  PROVE  Clamped(e) \in Int /\ Clamped(e) <= accessTime + MaxTTL
BY HostedAssumption DEF Clamped, HostedShape

(* A step of the hosted check keeps the types, never clears a token that   *)
(* is valid, and sets one that lives at most MaxTTL from now.              *)
LEMMA HostedInductive ==
  ASSUME HostedShape, [HostedNext]_hosted
  PROVE  /\ HostedShape'
         /\ Valid(expiry) => expiry' # NoToken
         /\ expiry' \in {expiry, NoToken} \/ expiry' <= accessTime + MaxTTL
<1> DEFINE Effect == /\ HostedShape'
                     /\ Valid(expiry) => expiry' # NoToken
                     /\ expiry' \in {expiry, NoToken} \/ expiry' <= accessTime + MaxTTL
<1>1. ASSUME expiry' = expiry, accessTime' \in Nat PROVE Effect
  BY <1>1 DEF HostedShape, Valid
<1>2. ASSUME NEW e \in Int, expiry' = Clamped(e), accessTime' = accessTime PROVE Effect
  BY <1>2, ClampedBounded, HostedAssumption DEF HostedShape
<1>3. ASSUME SetAccessToken PROVE Effect
  <2>1. PICK e \in 0 .. MaxAccessTime + 2 * MaxTTL :
          expiry' = Clamped(e) /\ accessTime' = accessTime
    BY <1>3 DEF SetAccessToken
  <2>2. e \in Int
    BY HostedAssumption
  <2> QED
    BY <1>2, <2>1, <2>2
<1>4. ASSUME NEW c \in Checks, CheckAccess(c) PROVE Effect
  BY <1>4 DEF CheckAccess, HostedShape, Valid
<1>5. ASSUME NEW c \in Checks, FacilitatorGrants(c) PROVE Effect
  <2>1. PICK ttl \in Lifetimes \cup {DefaultTTL} :
          expiry' = Clamped(accessTime + ttl) /\ accessTime' = accessTime
    BY <1>5 DEF FacilitatorGrants
  <2>2. accessTime + ttl \in Int
    BY HostedAssumption DEF HostedShape
  <2> QED
    BY <1>2, <2>1, <2>2
<1>6. ASSUME NEW c \in Checks, FacilitatorRefuses(c) PROVE Effect
  BY <1>1, <1>6 DEF FacilitatorRefuses, HostedShape
<1>7. ASSUME AccessTick PROVE Effect
  BY <1>1, <1>7 DEF AccessTick, HostedShape
<1>8. ASSUME UNCHANGED hosted PROVE Effect
  BY <1>1, <1>8 DEF hosted, HostedShape
<1> QED
  BY <1>3, <1>4, <1>5, <1>6, <1>7, <1>8 DEF HostedNext

(* A token that is still valid is never dropped, only replaced, and by     *)
(* none that outlives MAX_TOKEN_TTL, whatever the facilitator answers and  *)
(* however many checks wait for it (index.ts:401-455).                     *)
THEOREM TokenKeptHolds == GuardSpec => TokenKept
<1>1. GuardInit => HostedShape
  BY PartsStart DEF HostedInit, HostedShape
<1>2. HostedShape /\ [GuardNext]_all => HostedShape'
  BY PartsStep, HostedInductive
<1>3. HostedShape /\ [GuardNext]_all =>
        [/\ Valid(expiry) => expiry' # NoToken
         /\ expiry' \in {expiry, NoToken} \/ expiry' <= accessTime + MaxTTL]_hosted
  BY PartsStep, HostedInductive
<1> QED
  BY <1>1, <1>2, <1>3, PTL DEF GuardSpec, TokenKept, all

(***************************************************************************)
(* Sequences that are cut.                                                 *)
(***************************************************************************)

(* The two parts of a sequence that is cut in two.                         *)
LEMMA Halves ==
  ASSUME NEW S, NEW s \in Seq(S), NEW k \in 0 .. Len(s)
  PROVE  /\ SubSeq(s, 1, k) \in Seq(S) /\ Len(SubSeq(s, 1, k)) = k
         /\ \A i \in 1 .. k : SubSeq(s, 1, k)[i] = s[i]
         /\ SubSeq(s, k + 1, Len(s)) \in Seq(S)
         /\ Len(SubSeq(s, k + 1, Len(s))) = Len(s) - k
         /\ \A i \in 1 .. Len(s) - k : SubSeq(s, k + 1, Len(s))[i] = s[k + i]
<1> DEFINE n == Len(s)
           h == SubSeq(s, 1, k)
           t == SubSeq(s, k + 1, n)
<1>1. n \in Nat /\ \A i \in 1 .. n : s[i] \in S
  OBVIOUS
<1>2. h \in Seq(S) /\ Len(h) = k /\ \A i \in 1 .. k : h[i] = s[i]
  <2>1. k \in Nat /\ k <= n /\ \A i \in 1 .. k : s[i] \in S
    BY <1>1
  <2>2. /\ h \in Seq(S) /\ Len(h) = IF 1 <= k THEN k - 1 + 1 ELSE 0
        /\ \A i \in 1 .. k - 1 + 1 : h[i] = s[1 + i - 1]
    BY <2>1, SubSeqProperties
  <2> HIDE DEF h
  <2>3. \A i \in 1 .. k : h[i] = s[i]
    BY <2>1, <2>2
  <2> QED
    BY <2>1, <2>2, <2>3
<1>3. t \in Seq(S) /\ Len(t) = n - k /\ \A i \in 1 .. n - k : t[i] = s[k + i]
  <2>1. k + 1 \in Int /\ n \in Int /\ \A i \in k + 1 .. n : s[i] \in S
    BY <1>1
  <2>2. /\ t \in Seq(S) /\ Len(t) = IF k + 1 <= n THEN n - (k + 1) + 1 ELSE 0
        /\ \A i \in 1 .. n - (k + 1) + 1 : t[i] = s[k + 1 + i - 1]
    <3> HIDE DEF n
    <3> QED
      BY <2>1, SubSeqProperties
  <2> HIDE DEF t
  <2> QED
    BY <1>1, <2>2
<1> QED
  BY <1>2, <1>3

(***************************************************************************)
(* The taint map.  Its keys are the tainted values, each at one place.     *)
(***************************************************************************)

(* The places of a list of keys, and the keys.                             *)
LEMMA KeyRange ==
  ASSUME NEW s \in Seq(Values)
  PROVE  /\ Len(s) \in Nat /\ DOMAIN s = 1 .. Len(s)
         /\ \A i \in 1 .. Len(s) : s[i] \in Values /\ s[i] \in Range(s)
         /\ \A v : v \in Range(s) <=> \E i \in 1 .. Len(s) : s[i] = v
         /\ IsInjective(s) <=> \A i, j \in 1 .. Len(s) : s[i] = s[j] => i = j
<1>1. Len(s) \in Nat /\ DOMAIN s = 1 .. Len(s)
  OBVIOUS
<1> QED
  BY <1>1 DEF Range, IsInjective

(* Cutting a list of keys in two.                                          *)
LEMMA CutKeys ==
  ASSUME NEW s \in Seq(Values), IsInjective(s), NEW k \in 0 .. Len(s)
  PROVE  /\ SubSeq(s, k + 1, Len(s)) \in Seq(Values) /\ IsInjective(SubSeq(s, k + 1, Len(s)))
         /\ Len(SubSeq(s, 1, k)) = k
         /\ Range(SubSeq(s, k + 1, Len(s))) = Range(s) \ Range(SubSeq(s, 1, k))
         /\ \A i \in 1 .. Len(s) : s[i] \in Range(SubSeq(s, 1, k)) <=> i <= k
<1> DEFINE n == Len(s)
           h == SubSeq(s, 1, k)
           t == SubSeq(s, k + 1, n)
<1>1. /\ n \in Nat /\ \A i, j \in 1 .. n : s[i] = s[j] => i = j
      /\ \A i \in 1 .. n : s[i] \in Values
      /\ \A v : v \in Range(s) <=> \E i \in 1 .. n : s[i] = v
  BY KeyRange
<1>2. h \in Seq(Values) /\ Len(h) = k /\ \A i \in 1 .. k : h[i] = s[i]
  BY Halves
<1>3. t \in Seq(Values) /\ Len(t) = n - k /\ \A i \in 1 .. n - k : t[i] = s[k + i]
  BY Halves
<1> HIDE DEF h, t
<1>4. /\ \A v : v \in Range(h) <=> \E i \in 1 .. k : h[i] = v
      /\ \A v : v \in Range(t) <=> \E i \in 1 .. n - k : t[i] = v
  <2>1. \A v : v \in Range(h) <=> \E i \in 1 .. Len(h) : h[i] = v
    BY ONLY <1>2, KeyRange
  <2>2. \A v : v \in Range(t) <=> \E i \in 1 .. Len(t) : t[i] = v
    BY ONLY <1>3, KeyRange
  <2> HIDE DEF n
  <2> QED
    BY <1>2, <1>3, <2>1, <2>2
<1>5. IsInjective(t)
  <2>1. ASSUME NEW i \in 1 .. n - k, NEW j \in 1 .. n - k, t[i] = t[j]
        PROVE  i = j
    BY <1>1, <1>3, <2>1
  <2> QED
    BY <1>3, <2>1, KeyRange
<1>6. ASSUME NEW i \in 1 .. n
      PROVE  s[i] \in Range(h) <=> i <= k
  BY <1>1, <1>2, <1>4
<1>7. ASSUME NEW v
      PROVE  v \in Range(t) <=> v \in Range(s) /\ v \notin Range(h)
  <2>1. ASSUME v \in Range(t) PROVE v \in Range(s) /\ v \notin Range(h)
    <3>1. PICK i \in 1 .. n - k : t[i] = v
      BY <1>4, <2>1
    <3>2. k + i \in 1 .. n /\ s[k + i] = v /\ ~ (k + i <= k)
      BY <1>1, <1>3, <3>1
    <3> QED
      BY <1>1, <1>6, <3>2
  <2>2. ASSUME v \in Range(s), v \notin Range(h) PROVE v \in Range(t)
    <3>1. PICK i \in 1 .. n : s[i] = v
      BY <1>1, <2>2
    <3>2. ~ (i <= k)
      BY <1>6, <2>2, <3>1
    <3>3. i - k \in 1 .. n - k /\ k + (i - k) = i
      BY <1>1, <3>2
    <3> QED
      BY <1>3, <1>4, <3>1, <3>3
  <2> QED
    BY <2>1, <2>2
<1>8. Range(t) = Range(s) \ Range(h)
  BY <1>7
<1> QED
  BY <1>2, <1>3, <1>5, <1>6, <1>8 DEF h, t

(* A key that is new goes to the end.                                      *)
LEMMA AddKey ==
  ASSUME NEW s \in Seq(Values), IsInjective(s), NEW v \in Values, v \notin Range(s)
  PROVE  /\ Append(s, v) \in Seq(Values) /\ IsInjective(Append(s, v))
         /\ Len(Append(s, v)) = Len(s) + 1
         /\ Range(Append(s, v)) = Range(s) \cup {v}
         /\ \A i \in 1 .. Len(s) : Append(s, v)[i] = s[i]
<1> DEFINE t == Append(s, v)
           n == Len(s)
<1>1. /\ n \in Nat /\ \A i, j \in 1 .. n : s[i] = s[j] => i = j
      /\ \A x : x \in Range(s) <=> \E i \in 1 .. n : s[i] = x
  BY KeyRange
<1>2. /\ t \in Seq(Values) /\ Len(t) = n + 1 /\ t[n + 1] = v
      /\ \A i \in 1 .. n : t[i] = s[i]
  OBVIOUS
<1> HIDE DEF t
<1>3. \A x : x \in Range(t) <=> \E i \in 1 .. n + 1 : t[i] = x
  BY <1>2, KeyRange
<1>4. ASSUME NEW i \in 1 .. n + 1, NEW j \in 1 .. n + 1, t[i] = t[j]
      PROVE  i = j
  <2>1. \A l \in 1 .. n + 1 : l \in 1 .. n \/ l = n + 1
    BY <1>1
  <2> QED
    BY <1>1, <1>2, <1>4, <2>1
<1>5. IsInjective(t)
  BY <1>2, <1>4, KeyRange
<1>6. ASSUME NEW x PROVE x \in Range(t) <=> x \in Range(s) \cup {v}
  <2>1. n + 1 \in 1 .. n + 1 /\ \A l \in 1 .. n + 1 : l \in 1 .. n \/ l = n + 1
    BY <1>1
  <2>2. \A l \in 1 .. n : l \in 1 .. n + 1
    BY <1>1
  <2> QED
    BY <1>1, <1>2, <1>3, <2>1, <2>2
<1> QED
  BY <1>2, <1>5, <1>6 DEF t

(* Deleting a key.                                                         *)
LEMMA DeleteKey ==
  ASSUME NEW s \in Seq(Values), IsInjective(s), NEW v
  PROVE  /\ RemoveFirst(s, v) \in Seq(Values) /\ IsInjective(RemoveFirst(s, v))
         /\ Range(RemoveFirst(s, v)) = Range(s) \ {v}
<1> DEFINE n == Len(s)
<1>1. /\ n \in Nat /\ \A i, j \in 1 .. n : s[i] = s[j] => i = j
      /\ \A x : x \in Range(s) <=> \E i \in 1 .. n : s[i] = x
  BY KeyRange
<1>2. CASE ~ \E i \in 1 .. n : s[i] = v
  BY <1>1, <1>2 DEF RemoveFirst
<1>3. ASSUME NEW i \in 1 .. n, s[i] = v
      PROVE  /\ RemoveFirst(s, v) \in Seq(Values) /\ IsInjective(RemoveFirst(s, v))
             /\ Range(RemoveFirst(s, v)) = Range(s) \ {v}
  <2> DEFINE t == RemoveAt(s, i)
  <2>1. RemoveFirst(s, v) = t
    <3>1. {j \in 1 .. n : s[j] = v} = {i}
      BY <1>1, <1>3
    <3>2. Min({i}) = i
      BY <1>1 DEF Min
    <3>3. SelectInSeq(s, LAMBDA x : x = v) = i
      BY <3>1, <3>2 DEF SelectInSeq
    <3> QED
      BY <1>3, <3>3 DEF RemoveFirst
  <2>2. /\ t \in Seq(Values) /\ Len(t) = n - 1
        /\ \A j \in 1 .. n - 1 : t[j] = IF j < i THEN s[j] ELSE s[j + 1]
    <3> DEFINE a == SubSeq(s, 1, i - 1)
               b == SubSeq(s, i + 1, n)
    <3>1. a \in Seq(Values) /\ Len(a) = i - 1 /\ \A j \in 1 .. i - 1 : a[j] = s[j]
      <4>1. i - 1 \in 0 .. n
        BY <1>1
      <4> QED
        BY <4>1, Halves
    <3>2. b \in Seq(Values) /\ Len(b) = n - i /\ \A j \in 1 .. n - i : b[j] = s[i + j]
      <4>1. i \in 0 .. n
        BY <1>1
      <4> QED
        BY <4>1, Halves
    <3>3. t = a \o b
      BY DEF RemoveAt
    <3> HIDE DEF a, b, t
    <3>4. /\ t \in Seq(Values) /\ Len(t) = Len(a) + Len(b)
          /\ \A j \in 1 .. Len(a) + Len(b) :
               t[j] = IF j <= Len(a) THEN a[j] ELSE b[j - Len(a)]
      BY <3>1, <3>2, <3>3, ConcatProperties
    <3> HIDE DEF n
    <3>5. Len(a) + Len(b) = n - 1
      BY <1>1, <3>1, <3>2
    <3>6. ASSUME NEW j \in 1 .. n - 1 PROVE t[j] = IF j < i THEN s[j] ELSE s[j + 1]
      <4>1. CASE j < i
        <5>1. j \in 1 .. i - 1 /\ j \in 1 .. Len(a) + Len(b) /\ j <= Len(a)
          BY <1>1, <3>1, <3>5, <4>1
        <5>2. t[j] = a[j]
          BY <3>4, <5>1
        <5>3. a[j] = s[j]
          BY <3>1, <5>1
        <5> QED
          BY <4>1, <5>2, <5>3
      <4>2. CASE ~ (j < i)
        <5>1. j - (i - 1) \in 1 .. n - i /\ i + (j - (i - 1)) = j + 1
          BY <1>1, <4>2
        <5>2. t[j] = b[j - (i - 1)]
          BY SMTT(30), <1>1, <3>1, <3>4, <3>5, <4>2
        <5>3. b[j - (i - 1)] = s[i + (j - (i - 1))]
          BY <3>2, <5>1
        <5> QED
          BY <4>2, <5>1, <5>2, <5>3
      <4> QED
        BY <4>1, <4>2
    <3> QED
      BY <3>4, <3>5, <3>6
  <2> HIDE DEF t
  <2>3. \A x : x \in Range(t) <=> \E j \in 1 .. n - 1 : t[j] = x
    BY <2>2, KeyRange
  <2>4. ASSUME NEW j \in 1 .. n - 1, NEW l \in 1 .. n - 1, t[j] = t[l]
        PROVE  j = l
    BY <1>1, <2>2, <2>4
  <2>5. IsInjective(t)
    BY <2>2, <2>4, KeyRange
  <2>6. ASSUME NEW x PROVE x \in Range(t) <=> x \in Range(s) \ {v}
    <3>1. ASSUME x \in Range(t) PROVE x \in Range(s) \ {v}
      BY <1>1, <1>3, <2>2, <2>3, <3>1
    <3>2. ASSUME x \in Range(s), x # v PROVE x \in Range(t)
      <4>1. PICK j \in 1 .. n : s[j] = x
        BY <1>1, <3>2
      <4>2. j # i
        BY <1>3, <3>2, <4>1
      <4>3. CASE j < i
        BY <1>1, <2>2, <2>3, <4>1, <4>3
      <4>4. CASE j > i
        <5>1. j - 1 \in 1 .. n - 1 /\ (j - 1) + 1 = j /\ ~ (j - 1 < i)
          BY <1>1, <4>4
        <5> QED
          BY <2>2, <2>3, <4>1, <5>1
      <4> QED
        BY <1>1, <4>2, <4>3, <4>4
    <3> QED
      BY <3>1, <3>2
  <2> QED
    BY <2>1, <2>2, <2>5, <2>6
<1> QED
  BY <1>2, <1>3

(* The keys are the tainted values, and while nothing was evicted or       *)
(* replaced each carries just what it should.                              *)
TaintShape ==
  /\ order \in Seq(Values) /\ IsInjective(order)
  /\ taints \in [Values -> SUBSET Secrets] /\ kept \in [Values -> SUBSET Secrets]
  /\ lossy \in BOOLEAN
  /\ \A v \in Values : v \in Range(order) <=> taints[v] # {}

TaintIInv == TaintShape /\ ExactWithinLimit

(* Inserting a key leaves the others where they are.                       *)
LEMMA InsertedKeys ==
  ASSUME TaintShape, NEW v \in Values
  PROVE  /\ Inserted(v) \in Seq(Values) /\ IsInjective(Inserted(v))
         /\ Range(Inserted(v)) = Range(order) \cup {v}
         /\ Len(order) \in Nat /\ Len(Inserted(v)) \in {Len(order), Len(order) + 1}
         /\ \A i \in 1 .. Len(order) : Inserted(v)[i] = order[i]
<1>1. order \in Seq(Values) /\ IsInjective(order) /\ Len(order) \in Nat
  BY DEF TaintShape
<1>2. CASE v \in Range(order)
  <2>1. Inserted(v) = order /\ Range(order) = Range(order) \cup {v}
    BY <1>2 DEF Inserted
  <2> QED
    BY <1>1, <2>1
<1>3. CASE v \notin Range(order)
  <2>1. Inserted(v) = Append(order, v)
    BY <1>3 DEF Inserted
  <2> QED
    BY <1>1, <1>3, <2>1, AddKey
<1> QED
  BY <1>2, <1>3

(* What evictIfNeeded drops is a beginning, never one of the newest        *)
(* MaxTaints - Drop keys there were before the insertion.                  *)
LEMMA EvictedKeys ==
  ASSUME NEW keys \in Seq(Values), IsInjective(keys)
  PROVE  /\ Evicted(keys) = <<>> \/ Len(keys) > MaxTaints
         /\ Len(Evicted(keys)) \in Nat /\ Len(Evicted(keys)) <= Len(keys)
         /\ SubSeq(keys, Len(Evicted(keys)) + 1, Len(keys)) \in Seq(Values)
         /\ IsInjective(SubSeq(keys, Len(Evicted(keys)) + 1, Len(keys)))
         /\ Range(SubSeq(keys, Len(Evicted(keys)) + 1, Len(keys))) = Range(keys) \ Range(Evicted(keys))
         /\ \A i \in 1 .. Len(keys) : keys[i] \in Range(Evicted(keys)) => i <= Drop
<1> DEFINE out == Evicted(keys)
           n == Len(keys)
<1>1. MaxTaints \in Nat /\ Drop \in Nat /\ Drop <= MaxTaints + 1 /\ n \in Nat
  BY TaintAssumption DEF Drop
<1>2. CASE n > MaxTaints
  <2>1. out = SubSeq(keys, 1, Drop) /\ Drop \in 0 .. n
    BY <1>1, <1>2 DEF Evicted
  <2>2. /\ Len(out) = Drop
        /\ SubSeq(keys, Drop + 1, n) \in Seq(Values) /\ IsInjective(SubSeq(keys, Drop + 1, n))
        /\ Range(SubSeq(keys, Drop + 1, n)) = Range(keys) \ Range(out)
        /\ \A i \in 1 .. n : keys[i] \in Range(out) <=> i <= Drop
    BY <2>1, CutKeys
  <2> HIDE DEF out
  <2> QED
    BY <1>1, <1>2, <2>1, <2>2 DEF out
<1>3. CASE ~ (n > MaxTaints)
  <2>1. out = <<>>
    BY <1>3 DEF Evicted
  <2>2. Len(out) = 0 /\ Range(out) = {}
    BY <2>1 DEF Range
  <2>3. SubSeq(keys, 1, n) = keys
    BY SubSeqFull
  <2>4. Len(out) + 1 = 1 /\ Range(keys) = Range(keys) \ Range(out)
    BY <2>2
  <2>5. SubSeq(keys, Len(out) + 1, n) = keys
    BY <2>3, <2>4
  <2> HIDE DEF out
  <2>6. /\ out = <<>> \/ n > MaxTaints
        /\ Len(out) \in Nat /\ Len(out) <= n
        /\ SubSeq(keys, Len(out) + 1, n) \in Seq(Values)
        /\ IsInjective(SubSeq(keys, Len(out) + 1, n))
        /\ Range(SubSeq(keys, Len(out) + 1, n)) = Range(keys) \ Range(out)
        /\ \A i \in 1 .. n : keys[i] \in Range(out) => i <= Drop
    <3>1. /\ out = <<>> /\ Len(out) \in Nat /\ Len(out) <= n
          /\ \A i \in 1 .. n : keys[i] \in Range(out) => i <= Drop
      BY <1>1, <2>1, <2>2
    <3>2. /\ SubSeq(keys, Len(out) + 1, n) \in Seq(Values)
          /\ IsInjective(SubSeq(keys, Len(out) + 1, n))
      BY <2>5
    <3>3. Range(SubSeq(keys, Len(out) + 1, n)) = Range(keys) \ Range(out)
      BY <2>4, <2>5
    <3> QED
      BY <3>1, <3>2, <3>3
  <2> QED
    BY <2>6 DEF out
<1> QED
  BY <1>2, <1>3

(* A tag: the value is a key unless it is itself evicted.                  *)
LEMMA TagStep ==
  ASSUME TaintIInv, NEW v \in Values, NEW s \in Secrets, Tag(v, s)
  PROVE  /\ TaintIInv'
         /\ \A i \in 1 .. Len(order) :
              i > Len(order) - (MaxTaints - Drop) => taints'[order[i]] # {}
<1>1. /\ order \in Seq(Values) /\ IsInjective(order) /\ Len(order) \in Nat
      /\ taints \in [Values -> SUBSET Secrets] /\ kept \in [Values -> SUBSET Secrets]
      /\ lossy \in BOOLEAN
      /\ \A x \in Values : x \in Range(order) <=> taints[x] # {}
      /\ \A i \in 1 .. Len(order) : order[i] \in Values /\ order[i] \in Range(order)
  BY KeyRange DEF TaintIInv, TaintShape
<1>2. /\ kept' = [kept EXCEPT ![v] = @ \cup {s}]
      /\ lossy' = (lossy \/ (s \notin taints[v] /\ Len(Inserted(v)) > MaxTaints))
  BY DEF Tag
<1>3. kept' \in [Values -> SUBSET Secrets] /\ lossy' \in BOOLEAN
  BY <1>1, <1>2
<1>4. CASE s \in taints[v]
  <2>1. UNCHANGED <<order, taints>> /\ lossy' = lossy
    BY <1>1, <1>2, <1>4 DEF Tag
  <2>2. TaintShape'
    BY <1>1, <1>3, <2>1 DEF TaintShape
  <2>3. ExactWithinLimit'
    BY <1>1, <1>2, <1>4, <2>1 DEF TaintIInv, ExactWithinLimit
  <2> QED
    BY <1>1, <2>1, <2>2, <2>3 DEF TaintIInv
<1>5. CASE s \notin taints[v]
  <2> DEFINE keys == Inserted(v)
             out  == Evicted(keys)
  <2>1. /\ order' = SubSeq(keys, Len(out) + 1, Len(keys))
        /\ taints' = [x \in Values |->
             IF x \in Range(out) THEN {}
             ELSE IF x = v THEN taints[v] \cup {s} ELSE taints[x]]
    BY <1>5 DEF Tag
  <2>2. /\ keys \in Seq(Values) /\ IsInjective(keys) /\ Len(keys) \in Nat
        /\ Range(keys) = Range(order) \cup {v}
        /\ Len(keys) \in {Len(order), Len(order) + 1}
        /\ \A i \in 1 .. Len(order) : keys[i] = order[i]
    BY InsertedKeys DEF TaintIInv
  <2> HIDE DEF keys
  <2>3. /\ out = <<>> \/ Len(keys) > MaxTaints
        /\ order' \in Seq(Values) /\ IsInjective(order')
        /\ Range(order') = Range(keys) \ Range(out)
        /\ \A i \in 1 .. Len(keys) : keys[i] \in Range(out) => i <= Drop
    BY <2>1, <2>2, EvictedKeys
  <2>4. Range(<<>>) = {}
    BY DEF Range
  <2> HIDE DEF out
  <2>5. TaintShape'
    <3>1. taints' \in [Values -> SUBSET Secrets]
      BY <1>1, <2>1
    <3>2. \A x \in Values : x \in Range(order') <=> taints'[x] # {}
      BY <1>1, <2>1, <2>2, <2>3
    <3> QED
      BY <1>3, <2>3, <3>1, <3>2 DEF TaintShape
  <2>6. ExactWithinLimit'
    <3> SUFFICES ASSUME ~ lossy' PROVE taints' = kept'
      BY DEF ExactWithinLimit
    <3>1. out = <<>> /\ taints = kept
      BY <1>1, <1>2, <1>5, <2>3 DEF TaintIInv, ExactWithinLimit, keys
    <3>2. \A x \in Values : taints'[x] = kept'[x]
      BY <1>1, <1>2, <2>1, <2>4, <3>1
    <3>3. taints' = [x \in Values |-> taints'[x]] /\ kept' = [x \in Values |-> kept'[x]]
      BY <1>3, <2>5 DEF TaintShape
    <3> QED
      BY <3>2, <3>3
  <2>7. ASSUME NEW i \in 1 .. Len(order), i > Len(order) - (MaxTaints - Drop)
        PROVE  taints'[order[i]] # {}
    <3>1. order[i] \notin Range(out)
      <4>1. CASE out = <<>>
        BY <2>4, <4>1
      <4>2. CASE Len(keys) > MaxTaints
        <5>1. MaxTaints \in Nat /\ Drop \in Nat
          BY TaintAssumption DEF Drop
        <5>2. ~ (i <= Drop) /\ i \in 1 .. Len(keys)
          BY <1>1, <2>2, <2>7, <4>2, <5>1
        <5> QED
          BY <2>2, <2>3, <5>2
      <4> QED
        BY <2>3, <4>1, <4>2
    <3> QED
      BY <1>1, <2>1, <3>1
  <2> QED
    BY <2>5, <2>6, <2>7 DEF TaintIInv
<1> QED
  BY <1>4, <1>5

(* A propagate: no value but the derived one changes, and that one keeps   *)
(* or gains a taint.                                                       *)
LEMMA PropagateStep ==
  ASSUME TaintIInv, NEW sources \in SUBSET Values, NEW v \in Values, Propagate(sources, v)
  PROVE  /\ TaintIInv'
         /\ \A x \in Values : taints[x] # {} => taints'[x] # {}
<1> DEFINE carried == UNION {taints[x] : x \in sources}
           due     == UNION {kept[x] : x \in sources}
<1>1. /\ order \in Seq(Values) /\ IsInjective(order)
      /\ taints \in [Values -> SUBSET Secrets] /\ kept \in [Values -> SUBSET Secrets]
      /\ lossy \in BOOLEAN
      /\ \A x \in Values : x \in Range(order) <=> taints[x] # {}
  BY DEF TaintIInv, TaintShape
<1>2. carried \in SUBSET Secrets /\ due \in SUBSET Secrets
  BY <1>1
<1>3. /\ kept' = [kept EXCEPT ![v] = @ \cup due]
      /\ lossy' = (lossy \/ (carried # {} /\ ~ (taints[v] \subseteq carried)))
      /\ carried = {} => UNCHANGED <<order, taints>>
      /\ carried # {} => order' = Inserted(v) /\ taints' = [taints EXCEPT ![v] = carried]
  BY DEF Propagate
<1>4. taints = kept => carried = due
  OBVIOUS
<1> HIDE DEF carried, due
<1>5. kept' \in [Values -> SUBSET Secrets] /\ lossy' \in BOOLEAN
  BY <1>1, <1>2, <1>3
<1>6. CASE carried = {}
  <2>1. TaintShape'
    BY <1>1, <1>3, <1>5, <1>6 DEF TaintShape
  <2>2. ExactWithinLimit'
    <3> SUFFICES ASSUME ~ lossy' PROVE taints' = kept'
      BY DEF ExactWithinLimit
    <3>1. taints = kept /\ due = {}
      BY <1>1, <1>3, <1>4, <1>6 DEF TaintIInv, ExactWithinLimit
    <3>2. kept' = kept
      BY <1>1, <1>3, <3>1
    <3> QED
      BY <1>3, <1>6, <3>1, <3>2
  <2> QED
    BY <1>3, <1>6, <2>1, <2>2 DEF TaintIInv
<1>7. CASE carried # {}
  <2>1. /\ order' \in Seq(Values) /\ IsInjective(order')
        /\ Range(order') = Range(order) \cup {v}
    BY <1>3, <1>7, InsertedKeys DEF TaintIInv
  <2>2. /\ taints' \in [Values -> SUBSET Secrets] /\ taints'[v] = carried
        /\ \A x \in Values : x # v => taints'[x] = taints[x]
    BY <1>1, <1>2, <1>3, <1>7
  <2>3. TaintShape'
    BY <1>1, <1>5, <1>7, <2>1, <2>2 DEF TaintShape
  <2>4. ExactWithinLimit'
    <3> SUFFICES ASSUME ~ lossy' PROVE taints' = kept'
      BY DEF ExactWithinLimit
    <3>1. taints = kept /\ carried = due /\ taints[v] \subseteq carried
      BY <1>1, <1>3, <1>4, <1>7 DEF TaintIInv, ExactWithinLimit
    <3>2. \A x \in Values : taints'[x] = kept'[x]
      BY <1>1, <1>3, <2>2, <3>1
    <3>3. taints' = [x \in Values |-> taints'[x]] /\ kept' = [x \in Values |-> kept'[x]]
      BY <1>5, <2>2
    <3> QED
      BY <3>2, <3>3
  <2> QED
    BY <1>7, <2>2, <2>3, <2>4 DEF TaintIInv
<1> QED
  BY <1>6, <1>7

(* An untaint touches its own value only.                                  *)
LEMMA UntaintStep ==
  ASSUME TaintIInv, NEW v \in Values, Untaint(v)
  PROVE  /\ TaintIInv'
         /\ \A x \in Values : x # v => taints'[x] = taints[x]
<1>1. /\ order \in Seq(Values) /\ IsInjective(order)
      /\ taints \in [Values -> SUBSET Secrets] /\ kept \in [Values -> SUBSET Secrets]
      /\ lossy \in BOOLEAN
      /\ \A x \in Values : x \in Range(order) <=> taints[x] # {}
  BY DEF TaintIInv, TaintShape
<1>2. /\ order' = RemoveFirst(order, v) /\ lossy' = lossy
      /\ taints' = [taints EXCEPT ![v] = {}] /\ kept' = [kept EXCEPT ![v] = {}]
  BY DEF Untaint
<1>3. /\ order' \in Seq(Values) /\ IsInjective(order') /\ Range(order') = Range(order) \ {v}
  BY <1>1, <1>2, DeleteKey
<1>4. /\ taints' \in [Values -> SUBSET Secrets] /\ kept' \in [Values -> SUBSET Secrets]
      /\ taints'[v] = {} /\ \A x \in Values : x # v => taints'[x] = taints[x]
  BY <1>1, <1>2
<1>5. TaintShape'
  BY <1>1, <1>2, <1>3, <1>4 DEF TaintShape
<1>6. ExactWithinLimit'
  BY <1>1, <1>2 DEF TaintIInv, ExactWithinLimit
<1> QED
  BY <1>4, <1>5, <1>6 DEF TaintIInv

(* Whatever a step does, it keeps the invariant and the taint of the       *)
(* newest values.                                                          *)
LEMMA TaintStep ==
  ASSUME TaintIInv, [TaintNext]_tainting
  PROVE  /\ TaintIInv'
         /\ \/ \A i \in DOMAIN order :
                 i > Len(order) - (MaxTaints - Drop) =>
                   taints'[order[i]] # {} \/ Untaint(order[i])
            \/ UNCHANGED tainting
<1>1. /\ DOMAIN order = 1 .. Len(order)
      /\ \A i \in 1 .. Len(order) : order[i] \in Values /\ taints[order[i]] # {}
  BY KeyRange DEF TaintIInv, TaintShape
<1>2. CASE UNCHANGED tainting
  BY <1>2 DEF tainting, TaintIInv, TaintShape, ExactWithinLimit
<1>3. ASSUME NEW v \in Values, NEW s \in Secrets, Tag(v, s)
      PROVE  /\ TaintIInv'
             /\ \A i \in 1 .. Len(order) :
                  i > Len(order) - (MaxTaints - Drop) => taints'[order[i]] # {}
  BY <1>3, TagStep
<1>4. ASSUME NEW sources \in SUBSET Values, NEW v \in Values, Propagate(sources, v)
      PROVE  TaintIInv' /\ \A i \in 1 .. Len(order) : taints'[order[i]] # {}
  BY <1>1, <1>4, PropagateStep
<1>5. ASSUME NEW v \in Values, Untaint(v)
      PROVE  /\ TaintIInv'
             /\ \A i \in 1 .. Len(order) : taints'[order[i]] # {} \/ Untaint(order[i])
  <2>1. \A i \in 1 .. Len(order) : order[i] # v => taints'[order[i]] = taints[order[i]]
    BY <1>1, <1>5, UntaintStep
  <2> QED
    BY <1>1, <1>5, <2>1, UntaintStep
<1> QED
  BY <1>1, <1>2, <1>3, <1>4, <1>5 DEF TaintNext

(* An instance starts with nothing tainted.                                *)
LEMMA TaintStart == TaintInit => TaintIInv
<1> SUFFICES ASSUME TaintInit PROVE TaintIInv
  OBVIOUS
<1>1. order = <<>> /\ taints = [v \in Values |-> {}] /\ kept = taints /\ lossy = FALSE
  BY DEF TaintInit
<1>2. order \in Seq(Values) /\ IsInjective(order) /\ Range(order) = {}
  BY <1>1 DEF IsInjective, Range
<1> QED
  BY <1>1, <1>2 DEF TaintIInv, TaintShape, ExactWithinLimit

(* The taint map's invariant holds throughout.                             *)
LEMMA TaintHolds == GuardSpec => []TaintIInv
<1>1. GuardInit => TaintIInv
  BY PartsStart, TaintStart
<1>2. TaintIInv /\ [GuardNext]_all => TaintIInv'
  BY PartsStep, TaintStep
<1> QED
  BY <1>1, <1>2, PTL DEF GuardSpec, all

(* While nothing was evicted and no propagate replaced a taint, the map    *)
(* says of each value exactly which secrets reached it, for any number of  *)
(* values, secrets and operations (taint.ts:36-83).                        *)
THEOREM ExactWithinLimitHolds == GuardSpec => []ExactWithinLimit
BY TaintHolds, PTL DEF TaintIInv

(* No operation but its own untaint takes the taint of one of the newest   *)
(* values, however full propagation has made the map (taint.ts:25-34).     *)
THEOREM NewestSurviveHolds == GuardSpec => NewestSurvive
<1>1. TaintIInv /\ [GuardNext]_all =>
        [\A i \in DOMAIN order :
           i > Len(order) - (MaxTaints - Drop) =>
             taints'[order[i]] # {} \/ Untaint(order[i])]_tainting
  BY PartsStep, TaintStep
<1> QED
  BY <1>1, TaintHolds, PTL DEF GuardSpec, NewestSurvive, all

(***************************************************************************)
(* The prompt shield.                                                      *)
(***************************************************************************)

(* A rule whose pattern remembers a place has found a match there.         *)
ShieldIInv ==
  /\ \A r \in Global : lastIndex[r] # 0 => r \in foundLast
  /\ \A s \in Shields : Range(rules[s]) \subseteq Range(DefaultRules \o CustomRules)
  /\ PassesOnlyAfterFound

(* The custom rules come after the default ones.                           *)
LEMMA RulesKnown ==
  Range(DefaultRules) \cup Range(CustomRules) \subseteq Range(DefaultRules \o CustomRules)
<1> DEFINE S == Range(DefaultRules) \cup Range(CustomRules)
           d == DefaultRules
           c == CustomRules
<1>1. d \in Seq(S) /\ c \in Seq(S)
  <2>1. d \in Seq(Range(d)) /\ c \in Seq(Range(c))
    BY PromptShieldAssumption
  <2> QED
    BY <2>1, SeqMonotonic
<1> HIDE DEF S
<1>2. /\ d \o c \in Seq(S) /\ Len(d \o c) = Len(d) + Len(c)
      /\ \A i \in 1 .. Len(d) + Len(c) :
           (d \o c)[i] = IF i <= Len(d) THEN d[i] ELSE c[i - Len(d)]
  BY <1>1, ConcatProperties
<1>3. Len(d) \in Nat /\ Len(c) \in Nat
  BY <1>1
<1>4. \A i \in 1 .. Len(d) : d[i] \in Range(d \o c)
  <2>1. \A i \in 1 .. Len(d) : i \in 1 .. Len(d \o c) /\ d[i] = (d \o c)[i]
    BY <1>2, <1>3
  <2> QED
    BY <1>2, <2>1 DEF Range
<1>5. \A i \in 1 .. Len(c) : c[i] \in Range(d \o c)
  <2>1. ASSUME NEW i \in 1 .. Len(c)
        PROVE  \E j \in 1 .. Len(d \o c) : c[i] = (d \o c)[j]
    <3>1. /\ Len(d) + i \in 1 .. Len(d) + Len(c) /\ ~ (Len(d) + i <= Len(d))
          /\ (Len(d) + i) - Len(d) = i
      BY <1>3
    <3>2. (d \o c)[Len(d) + i] = c[i] /\ Len(d) + i \in 1 .. Len(d \o c)
      BY <1>2, <3>1
    <3> QED
      BY <3>2
  <2>2. DOMAIN (d \o c) = 1 .. Len(d \o c)
    BY <1>2
  <2> QED
    BY <2>1, <2>2 DEF Range
<1>6. DOMAIN d = 1 .. Len(d) /\ DOMAIN c = 1 .. Len(c)
  BY <1>1
<1> QED
  BY <1>4, <1>5, <1>6 DEF Range

(* A rule that misses although it matches remembers a place in an earlier  *)
(* prompt: it found a match when it was last tried.                        *)
LEMMA ShieldStep ==
  ASSUME ShieldIInv, NEW s \in Shields, NEW p \in Prompts, ValidatePrompt(s, p)
  PROVE  ShieldIInv'
<1> DEFINE found == {r \in Tested(s, p) : Tests(r, p)}
<1>1. /\ lastIndex' = [r \in Global |->
           IF r \in found THEN FirstEnd(r, p)
           ELSE IF r \in Tested(s, p) THEN 0 ELSE lastIndex[r]]
      /\ answer' = [rules |-> rules[s], prompt |-> p, findings |-> found,
                    blocked |-> found \cap Blocking # {}, foundBefore |-> foundLast]
      /\ foundLast' = (foundLast \ Tested(s, p)) \cup found
      /\ rules' = rules
  BY DEF ValidatePrompt
<1>2. \A r \in Global : lastIndex'[r] # 0 => r \in foundLast'
  BY <1>1 DEF ShieldIInv
<1>3. ASSUME NEW r \in Range(rules[s]), p[r] # {}, r \notin found
      PROVE  r \in Global /\ r \in foundLast
  <2>1. r \in Range(DefaultRules \o CustomRules)
    BY DEF ShieldIInv
  <2>2. InReach(r, p) = {}
    BY <1>3 DEF Tested, Tests
  <2>3. r \in Global
    BY <1>3, <2>2 DEF InReach
  <2>4. PICK m \in p[r] : m[1] \in Nat
    BY <1>3, <2>1, PromptShieldAssumption
  <2>5. ~ (m[1] >= lastIndex[r])
    BY <2>2, <2>3, <2>4 DEF InReach
  <2>6. lastIndex[r] # 0
    BY <2>4, <2>5
  <2> QED
    BY <2>3, <2>6 DEF ShieldIInv
<1>4. PassesOnlyAfterFound'
  <2> SUFFICES ASSUME NEW r \in Blocking \cap Range(rules[s]), p[r] # {},
                      ~ (found \cap Blocking # {})
               PROVE  r \in Global \cap foundLast
    BY <1>1 DEF PassesOnlyAfterFound
  <2> QED
    BY <1>3
<1> QED
  BY <1>1, <1>2, <1>4 DEF ShieldIInv

(* A prompt that a blocking rule matches is let through only when each     *)
(* such rule is a custom one with the flag g that found a match in the     *)
(* prompt tested before it, by whichever instance shares its RegExp, for   *)
(* any lists of rules and any prompts (security.ts:41-48).                 *)
THEOREM PassesOnlyAfterFoundHolds == GuardSpec => []PassesOnlyAfterFound
<1>1. GuardInit => ShieldIInv
  <2> SUFFICES ASSUME ShieldInit PROVE ShieldIInv
    BY PartsStart
  <2>1. \A r \in Global : lastIndex[r] = 0
    BY DEF ShieldInit
  <2>2. Range(<<>>) = {} /\ answer.rules = <<>>
    BY DEF ShieldInit, Range
  <2>3. PassesOnlyAfterFound
    BY <2>2 DEF PassesOnlyAfterFound
  <2>4. ASSUME NEW s \in Shields
        PROVE  Range(rules[s]) \subseteq Range(DefaultRules \o CustomRules)
    <3>1. rules[s] \in {<<>>, DefaultRules, DefaultRules \o CustomRules}
      BY DEF ShieldInit
    <3> QED
      BY <2>2, <3>1, RulesKnown
  <2> QED
    BY <2>1, <2>3, <2>4 DEF ShieldIInv
<1>2. ShieldIInv /\ [GuardNext]_all => ShieldIInv'
  <2> SUFFICES ASSUME ShieldIInv, [ShieldNext]_shielding PROVE ShieldIInv'
    BY PartsStep
  <2>1. CASE UNCHANGED shielding
    BY <2>1 DEF shielding, ShieldIInv, PassesOnlyAfterFound
  <2>2. CASE ShieldNext
    BY <2>2, ShieldStep DEF ShieldNext
  <2> QED
    BY <2>1, <2>2
<1> QED
  BY <1>1, <1>2, PTL DEF GuardSpec, ShieldIInv, all

(***************************************************************************)
(* The pattern registry.                                                   *)
(***************************************************************************)
RegistryIInv == TrieCurrent /\ DOMAIN trie = Registries /\ DOMAIN own = Registries

(* A list with the trie built of it.                                       *)
Current(list, built) == Builds(list) /\ built = Keywords(list)

(* Patterns are never null, and have a name.                               *)
LEMMA PatternsBuild ==
  ASSUME NEW list \in Seq(Patterns)
  PROVE  Builds(list)
<1>1. \A i \in DOMAIN list : list[i] \in Patterns
  OBVIOUS
<1>2. \A p \in Patterns : p # Null /\ p.name # NoName
  BY RegistryAssumption
<1> QED
  BY <1>1, <1>2 DEF Builds

(* TrieCurrent after a step, of the lists after it.                        *)
LEMMA CurrentAfter ==
  ASSUME \A q \in Registries : q \notin outdated' /\ q \notin halted' =>
           Current(IF q \in holdsGiven' THEN given' ELSE own'[q], trie'[q])
  PROVE  TrieCurrent'
BY DEF TrieCurrent, PatternsOf, Current

(* And before it.                                                          *)
LEMMA CurrentBefore ==
  ASSUME RegistryIInv, NEW q \in Registries, q \notin outdated, q \notin halted
  PROVE  Current(PatternsOf(q), trie[q])
BY DEF RegistryIInv, TrieCurrent, Current

(* Where a registry writes its list, it builds its trie again or is halted,*)
(* and the others that hold the array it writes to are marked.             *)
LEMMA RewriteStep ==
  ASSUME RegistryIInv, NEW r \in Registries, NEW list, NEW thrown, Rewrite(r, list, thrown)
  PROVE  RegistryIInv'
<1> DEFINE ok == ~ thrown /\ Builds(list)
           written == IF r \in holdsGiven THEN outdated \cup (holdsGiven \ {r}) ELSE outdated
<1>1. /\ holdsGiven' = holdsGiven
      /\ r \in holdsGiven => given' = list /\ own' = own
      /\ r \notin holdsGiven => given' = given /\ own' = [own EXCEPT ![r] = list]
  BY DEF Rewrite
<1>2. ok => /\ trie' = [trie EXCEPT ![r] = Keywords(list)]
            /\ halted' = halted \ {r} /\ outdated' = written \ {r}
  BY DEF Rewrite, Rebuild, Behind
<1>3. ~ ok => /\ trie' = trie /\ outdated' = written
              /\ halted' = IF list = PatternsOf(r) THEN halted ELSE halted \cup {r}
  BY DEF Rewrite, Rebuild, Behind
<1>4. ok => Builds(list)
  OBVIOUS
<1>5. outdated \subseteq written /\ (r \in holdsGiven => holdsGiven \ {r} \subseteq written)
  OBVIOUS
<1> HIDE DEF ok, written
<1>6. (IF r \in holdsGiven' THEN given' ELSE own'[r]) = list
  BY <1>1 DEF RegistryIInv
<1>7. ASSUME NEW q \in Registries, q \notin outdated', q \notin halted'
      PROVE  Current(IF q \in holdsGiven' THEN given' ELSE own'[q], trie'[q])
  <2>1. CASE q = r /\ ok
    <3>1. trie'[r] = Keywords(list)
      BY <1>2, <2>1 DEF RegistryIInv
    <3> QED
      BY <1>4, <1>6, <2>1, <3>1 DEF Current
  <2>2. CASE q = r /\ ~ ok
    <3>1. list = PatternsOf(r) /\ r \notin halted /\ r \notin outdated /\ trie' = trie
      BY <1>3, <1>5, <1>7, <2>2
    <3> QED
      BY <1>6, <2>2, <3>1, CurrentBefore
  <2>3. CASE q # r
    <3>1. q \notin written /\ q \notin outdated /\ q \notin halted
      BY <1>2, <1>3, <1>5, <1>7, <2>3
    <3>2. trie'[q] = trie[q]
      BY <1>2, <1>3, <2>3 DEF RegistryIInv
    <3>3. (IF q \in holdsGiven' THEN given' ELSE own'[q]) = PatternsOf(q)
      BY <1>1, <1>5, <2>3, <3>1 DEF PatternsOf, RegistryIInv
    <3> QED
      BY <3>1, <3>2, <3>3, CurrentBefore
  <2> QED
    BY <2>1, <2>2, <2>3
<1>8. TrieCurrent'
  BY <1>7, CurrentAfter
<1> QED
  BY <1>1, <1>2, <1>3, <1>8 DEF RegistryIInv

(* An unregister leaves the array for a new one, and builds a trie of it   *)
(* or is halted; where the filter throws, nothing has changed.             *)
LEMMA UnregisterStep ==
  ASSUME RegistryIInv, NEW r \in Registries, NEW name, Unregister(r, name)
  PROVE  RegistryIInv'
<1> DEFINE rest == Without(PatternsOf(r), name)
           ok == Builds(rest)
<1>1. CASE HasNull(PatternsOf(r))
  <2>1. UNCHANGED <<given, own, holdsGiven, trie, outdated, halted>>
    BY <1>1 DEF Unregister
  <2> QED
    BY <2>1 DEF RegistryIInv, TrieCurrent, PatternsOf
<1>2. CASE ~ HasNull(PatternsOf(r))
  <2>1. /\ own' = [own EXCEPT ![r] = rest] /\ holdsGiven' = holdsGiven \ {r} /\ given' = given
    BY <1>2 DEF Unregister
  <2>2. ok => /\ trie' = [trie EXCEPT ![r] = Keywords(rest)]
              /\ halted' = halted \ {r} /\ outdated' = outdated \ {r}
    BY <1>2 DEF Unregister, Rebuild, Behind
  <2>3. ~ ok => /\ trie' = trie /\ outdated' = outdated
                /\ halted' = IF rest = PatternsOf(r) THEN halted ELSE halted \cup {r}
    BY <1>2 DEF Unregister, Rebuild, Behind
  <2>4. ok => Builds(rest)
    OBVIOUS
  <2> HIDE DEF ok, rest
  <2>5. (IF r \in holdsGiven' THEN given' ELSE own'[r]) = rest
    BY <2>1 DEF RegistryIInv
  <2>6. ASSUME NEW q \in Registries, q \notin outdated', q \notin halted'
        PROVE  Current(IF q \in holdsGiven' THEN given' ELSE own'[q], trie'[q])
    <3>1. CASE q = r /\ ok
      <4>1. trie'[r] = Keywords(rest)
        BY <2>2, <3>1 DEF RegistryIInv
      <4> QED
        BY <2>4, <2>5, <3>1, <4>1 DEF Current
    <3>2. CASE q = r /\ ~ ok
      <4>1. rest = PatternsOf(r) /\ r \notin halted /\ r \notin outdated /\ trie' = trie
        BY <2>3, <2>6, <3>2
      <4> QED
        BY <2>5, <3>2, <4>1, CurrentBefore
    <3>3. CASE q # r
      <4>1. q \notin outdated /\ q \notin halted
        BY <2>2, <2>3, <2>6, <3>3
      <4>2. trie'[q] = trie[q]
        BY <2>2, <2>3, <3>3 DEF RegistryIInv
      <4>3. (IF q \in holdsGiven' THEN given' ELSE own'[q]) = PatternsOf(q)
        BY <2>1, <3>3 DEF PatternsOf, RegistryIInv
      <4> QED
        BY <4>1, <4>2, <4>3, CurrentBefore
    <3> QED
      BY <3>1, <3>2, <3>3
  <2>7. TrieCurrent'
    BY <2>6, CurrentAfter
  <2> QED
    BY <2>1, <2>2, <2>3, <2>7 DEF RegistryIInv
<1> QED
  BY <1>1, <1>2

(* The trie of a registry, which getTrie answers, holds the keywords of    *)
(* its list after any registrations, removals and updates that answer out  *)
(* of order, whatever the updates hold, unless another registry wrote into *)
(* an array they share, or a change of its own threw half-way              *)
(* (registry.ts:15-80).                                                    *)
THEOREM TrieCurrentHolds == GuardSpec => []TrieCurrent
<1>1. GuardInit => RegistryIInv
  <2> SUFFICES ASSUME RegistryInit PROVE RegistryIInv
    BY PartsStart
  <2>1. given \in HostLists /\ own = [r \in Registries |-> BuiltIns]
    BY DEF RegistryInit
  <2>2. \A r \in Registries : PatternsOf(r) \in Seq(Patterns)
    BY <2>1, RegistryAssumption DEF PatternsOf
  <2>3. \A r \in Registries : Builds(PatternsOf(r))
    BY <2>2, PatternsBuild
  <2>4. TrieCurrent
    BY <2>3 DEF RegistryInit, TrieCurrent
  <2> QED
    BY <2>4 DEF RegistryIInv, RegistryInit
<1>2. RegistryIInv /\ [GuardNext]_all => RegistryIInv'
  <2> SUFFICES ASSUME RegistryIInv, [RegistryNext]_registries PROVE RegistryIInv'
    BY PartsStep
  <2>1. ASSUME UNCHANGED <<given, own, holdsGiven, trie, outdated, halted>> PROVE RegistryIInv'
    BY <2>1 DEF RegistryIInv, TrieCurrent, PatternsOf
  <2>2. ASSUME NEW r \in Registries, NEW p \in Patterns, Register(r, p) PROVE RegistryIInv'
    BY <2>2, RewriteStep DEF Register
  <2>3. ASSUME NEW r \in Registries, NEW p \in Patterns, Unregister(r, p.name)
        PROVE  RegistryIInv'
    BY <2>3, UnregisterStep
  <2>4. ASSUME NEW r \in Registries, Loaded(r) PROVE RegistryIInv'
    BY <2>4, RewriteStep DEF Loaded
  <2>5. ASSUME NEW r \in Registries, Fetch(r) \/ LiveUpdate(r) \/ LoadFails(r) \/ StopLiveUpdates(r)
        PROVE  UNCHANGED <<given, own, holdsGiven, trie, outdated, halted>>
    BY <2>5 DEF Fetch, LiveUpdate, LoadFails, StopLiveUpdates
  <2>6. ASSUME UNCHANGED registries PROVE UNCHANGED <<given, own, holdsGiven, trie, outdated, halted>>
    BY <2>6 DEF registries
  <2> QED
    BY <2>1, <2>2, <2>3, <2>4, <2>5, <2>6 DEF RegistryNext
<1> QED
  BY <1>1, <1>2, PTL DEF GuardSpec, RegistryIInv, all

(***************************************************************************)
(* Folds and least numbers.                                                *)
(***************************************************************************)

(* Among natural numbers there is a least.                                 *)
LEMMA LeastExists ==
  ASSUME NEW T, T \subseteq Nat, T # {}
  PROVE  \E n \in T : \A m \in T : n <= m
<1> DEFINE R == OpToRel(<, Nat)
<1>1. IsWellFoundedOn(R, Nat)
  BY NatLessThanWellFounded
<1>2. \A x \in Nat, y \in Nat : <<x, y>> \in R <=> x < y
  BY DEF OpToRel
<1> HIDE DEF R
<1>3. PICK x \in T : \A y \in T : ~ (<<y, x>> \in R)
  BY <1>1, WFMin
<1>4. \A y \in T : ~ (y < x)
  BY <1>2, <1>3
<1> QED
  BY <1>4

(* The greatest of some numbers up to one of them.                         *)
LEMMA GreatestIs ==
  ASSUME NEW m \in Nat, NEW s \in SUBSET (1 .. m), m \in s
  PROVE  Max(s) = m
<1>1. \A y \in s : y \in Int /\ m >= y
  OBVIOUS
<1>2. \E x \in s : \A y \in s : x >= y
  BY <1>1
<1>3. PICK x : x = Max(s)
  OBVIOUS
<1>4. x \in s /\ \A y \in s : x >= y
  BY <1>2, <1>3 DEF Max
<1>5. x = m
  BY <1>1, <1>4
<1> QED
  BY <1>3, <1>5

(* g folds f over the members of list at the first m places.               *)
Folds(g, f, base, list, m) ==
  g = [s \in SUBSET (1 .. m) |->
         IF s = {} THEN base ELSE f[g[s \ {Max(s)}]][list[Max(s)]]]

(* They have a fold that never leaves I.                                   *)
HasFold(I, f, base, list, m) ==
  \E g \in [SUBSET (1 .. m) -> I] : Folds(g, f, base, list, m)

(* One member more.                                                        *)
LEMMA FoldsStep ==
  ASSUME NEW I, NEW B, NEW f \in [I -> [B -> I]], NEW base \in I, NEW list, NEW m \in Nat,
         list[m + 1] \in B, HasFold(I, f, base, list, m)
  PROVE  HasFold(I, f, base, list, m + 1)
<1>0. PICK g \in [SUBSET (1 .. m) -> I] : Folds(g, f, base, list, m)
  BY DEF HasFold
<1> DEFINE h == [s \in SUBSET (1 .. m + 1) |->
                   IF m + 1 \in s THEN f[g[s \ {m + 1}]][list[m + 1]] ELSE g[s]]
<1>1. ASSUME NEW s \in SUBSET (1 .. m + 1)
      PROVE  /\ h[s] = IF s = {} THEN base ELSE f[h[s \ {Max(s)}]][list[Max(s)]]
             /\ h[s] \in I
  <2>1. CASE m + 1 \in s
    <3>1. Max(s) = m + 1
      BY <2>1, GreatestIs
    <3>2. s \ {m + 1} \in SUBSET (1 .. m + 1) /\ m + 1 \notin s \ {m + 1}
      OBVIOUS
    <3>3. h[s \ {m + 1}] = g[s \ {m + 1}]
      BY <3>2
    <3>4. h[s] = f[g[s \ {m + 1}]][list[m + 1]]
      BY <2>1
    <3>5. s \ {m + 1} \in SUBSET (1 .. m)
      BY <3>2
    <3>6. f[g[s \ {m + 1}]][list[m + 1]] \in I
      BY <3>5
    <3> HIDE DEF h
    <3> QED
      BY <2>1, <3>1, <3>3, <3>4, <3>6
  <2>2. CASE m + 1 \notin s
    <3>1. s \in SUBSET (1 .. m) /\ h[s] = g[s]
      <4>1. ASSUME NEW y \in s PROVE y \in 1 .. m
        <5>1. y \in 1 .. m + 1 /\ y # m + 1
          BY <2>2
        <5> QED
          BY <5>1
      <4> QED
        BY <2>2, <4>1
    <3>2. s \ {Max(s)} \in SUBSET (1 .. m + 1) /\ m + 1 \notin s \ {Max(s)}
      BY <2>2
    <3>3. h[s \ {Max(s)}] = g[s \ {Max(s)}]
      BY <3>2
    <3>4. g[s] = IF s = {} THEN base ELSE f[g[s \ {Max(s)}]][list[Max(s)]]
      BY <1>0, <3>1 DEF Folds
    <3>5. g[s] \in I
      BY <3>1
    <3> HIDE DEF h
    <3> QED
      BY <3>1, <3>3, <3>4, <3>5
  <2> QED
    BY <2>1, <2>2
<1>2. h = [s \in SUBSET (1 .. m + 1) |-> h[s]]
  OBVIOUS
<1> HIDE DEF h
<1>3. [s \in SUBSET (1 .. m + 1) |-> h[s]] =
        [s \in SUBSET (1 .. m + 1) |->
           IF s = {} THEN base ELSE f[h[s \ {Max(s)}]][list[Max(s)]]]
  BY <1>1
<1>4. Folds(h, f, base, list, m + 1)
  BY <1>2, <1>3 DEF Folds
<1>5. h \in [SUBSET (1 .. m + 1) -> I]
  BY <1>1, <1>2
<1> QED
  BY <1>4, <1>5 DEF HasFold

(* So there is a fold of every list, and f never leaves I.                 *)
LEMMA FoldsExist ==
  ASSUME NEW I, NEW B, NEW f \in [I -> [B -> I]], NEW base \in I, NEW list \in Seq(B)
  PROVE  HasFold(I, f, base, list, Len(list))
<1> DEFINE Has(m) == HasFold(I, f, base, list, m)
           T == {m \in 0 .. Len(list) : ~ Has(m)}
<1>1. Len(list) \in Nat /\ \A i \in 1 .. Len(list) : list[i] \in B
  OBVIOUS
<1>2. Has(0)
  <2> DEFINE g == [s \in SUBSET (1 .. 0) |-> base]
  <2>1. \A s \in SUBSET (1 .. 0) : s = {}
    OBVIOUS
  <2>2. [s \in SUBSET (1 .. 0) |-> base] = [s \in SUBSET (1 .. 0) |->
          IF s = {} THEN base ELSE f[g[s \ {Max(s)}]][list[Max(s)]]]
    BY <2>1
  <2>3. Folds(g, f, base, list, 0) /\ g \in [SUBSET (1 .. 0) -> I]
    BY <2>2 DEF Folds
  <2> QED
    BY <2>3 DEF HasFold
<1>3. ASSUME NEW m \in Nat, m + 1 \in 1 .. Len(list), Has(m) PROVE Has(m + 1)
  <2>1. list[m + 1] \in B
    BY <1>1, <1>3
  <2> QED
    BY <1>3, <2>1, FoldsStep
<1> HIDE DEF Has
<1>4. T = {}
  <2> SUFFICES ASSUME T # {} PROVE FALSE
    OBVIOUS
  <2>1. T \subseteq Nat
    BY <1>1
  <2>2. PICK m \in T : \A k \in T : m <= k
    BY <2>1, LeastExists
  <2>3. m \in 1 .. Len(list) /\ ~ Has(m)
    BY <1>1, <1>2, <2>2
  <2>4. m - 1 \in 0 .. Len(list) /\ m - 1 \notin T
    BY <1>1, <2>2, <2>3
  <2>5. Has(m - 1) /\ m - 1 \in Nat /\ m - 1 + 1 = m
    BY <2>3, <2>4
  <2>6. Has(m - 1 + 1)
    BY <1>3, <2>3, <2>5
  <2> QED
    BY <2>3, <2>5, <2>6
<1>5. Has(Len(list))
  BY <1>1, <1>4
<1> QED
  BY <1>5 DEF Has

(* Some numbers up to n have a greatest.                                   *)
LEMMA GreatestExists ==
  ASSUME NEW n \in Nat, NEW s \in SUBSET (1 .. n), s # {}
  PROVE  Max(s) \in s
<1> DEFINE T == {n - x : x \in s}
<1>1. T \subseteq Nat /\ T # {}
  <2>1. \A x \in s : x \in Int /\ n - x \in Nat
    OBVIOUS
  <2>2. T # {}
    OBVIOUS
  <2> QED
    BY <2>1, <2>2
<1>2. PICK k \in T : \A m \in T : k <= m
  BY <1>1, LeastExists
<1>3. PICK x \in s : k = n - x
  BY <1>2
<1>4. ASSUME NEW y \in s PROVE x >= y
  <2>1. n - y \in T
    OBVIOUS
  <2>2. n - x <= n - y
    BY <1>2, <1>3, <2>1
  <2>3. x \in 1 .. n /\ y \in 1 .. n
    OBVIOUS
  <2> QED
    BY <2>2, <2>3
<1>5. PICK z : z = Max(s)
  OBVIOUS
<1>6. z \in s
  BY <1>3, <1>4, <1>5 DEF Max
<1> QED
  BY <1>5, <1>6

(* F folds as f does over list, as long as it is in A.                     *)
FoldsIn(F, f, A, base, list) ==
  /\ F[{}] = base
  /\ \A s \in SUBSET (1 .. Len(list)) :
       s # {} /\ F[s \ {Max(s)}] \in A => F[s] = f[F[s \ {Max(s)}]][list[Max(s)]]

(* f takes what is in I[m - 1] to I[m] with the m-th member of list.       *)
Takes(f, A, list, I) ==
  \A m \in 1 .. Len(list) : \A acc \in A : acc \in I[m - 1] => f[acc][list[m]] \in I[m]

(* What folds as f does, as long as it is in A, is after each member of    *)
(* the list where that member takes it to.                                 *)
LEMMA FoldWithin ==
  ASSUME NEW A, NEW B, NEW f \in [A -> [B -> A]], NEW base \in A, NEW list \in Seq(B),
         NEW F, FoldsIn(F, f, A, base, list),
         NEW I, base \in I[0], Takes(f, A, list, I)
  PROVE  F[1 .. Len(list)] \in A /\ F[1 .. Len(list)] \in I[Len(list)]
<1> DEFINE n == Len(list)
           T == {m \in 0 .. n : ~ (F[1 .. m] \in A /\ F[1 .. m] \in I[m])}
<1>1. n \in Nat /\ \A i \in 1 .. n : list[i] \in B
  OBVIOUS
<1>2. T = {}
  <2> SUFFICES ASSUME T # {} PROVE FALSE
    OBVIOUS
  <2>1. T \subseteq Nat
    BY <1>1
  <2>2. PICK m \in T : \A k \in T : m <= k
    BY <2>1, LeastExists
  <2>3. m # 0
    <3>1. 1 .. 0 = {}
      OBVIOUS
    <3> QED
      BY <2>2, <3>1 DEF FoldsIn
  <2>4. m \in 1 .. n /\ m - 1 \in 0 .. n /\ m - 1 \notin T
    BY <1>1, <2>2, <2>3
  <2>5. F[1 .. m - 1] \in A /\ F[1 .. m - 1] \in I[m - 1]
    BY <2>4
  <2>6. 1 .. m \in SUBSET (1 .. n) /\ m \in Nat /\ m \in 1 .. m /\ (1 .. m) \ {m} = 1 .. m - 1
    <3>1. m \in Nat /\ m \in 1 .. m
      BY <2>4
    <3>2. 1 .. m \in SUBSET (1 .. n)
      BY <1>1, <2>4
    <3>3. (1 .. m) \ {m} = 1 .. m - 1
      <4>1. \A x : x \in (1 .. m) \ {m} <=> x \in 1 .. m - 1
        BY <3>1
      <4> QED
        BY <4>1
    <3> QED
      BY <3>1, <3>2, <3>3
  <2>7. Max(1 .. m) = m
    <3>1. 1 .. m \in SUBSET (1 .. m)
      OBVIOUS
    <3> QED
      BY <2>6, <3>1, GreatestIs
  <2>8. F[1 .. m] = f[F[1 .. m - 1]][list[m]]
    BY <2>5, <2>6, <2>7 DEF FoldsIn
  <2>9. F[1 .. m] \in A
    <3>1. list[m] \in B
      BY <1>1, <2>4
    <3>2. f[F[1 .. m - 1]] \in [B -> A]
      BY <2>5
    <3> QED
      BY <2>8, <3>1, <3>2
  <2>10. F[1 .. m] \in I[m]
    BY <2>4, <2>5, <2>8 DEF Takes
  <2> QED
    BY <2>2, <2>9, <2>10
<1>3. n \in 0 .. n
  BY <1>1
<1> QED
  BY <1>2, <1>3

(***************************************************************************)
(* How often a name is in a list.                                          *)
(***************************************************************************)

(* F folds as Turn does.                                                   *)
Turns(F, base, remote) ==
  F = [s \in SUBSET (1 .. Len(remote)) |->
         IF s = {} THEN base ELSE Turn(F[s \ {Max(s)}], remote[Max(s)])]

(* An update stays within what each of its turns stays within.             *)
LEMMA MergedStays ==
  ASSUME NEW I, NEW list, [list |-> list, thrown |-> FALSE] \in I, NEW remote \in Seq(Elements),
         \A acc \in I, p \in Elements : Turn(acc, p) \in I
  PROVE  Merged(list, remote) \in I
<1>0. PICK base \in I : base = [list |-> list, thrown |-> FALSE]
  OBVIOUS
<1> DEFINE n == Len(remote)
           f == [acc \in I |-> [p \in Elements |-> Turn(acc, p)]]
           F == CHOOSE G : Turns(G, base, remote)
<1>1. n \in Nat /\ DOMAIN remote = 1 .. n /\ \A i \in 1 .. n : remote[i] \in Elements
  OBVIOUS
<1>2. Merged(list, remote) = F[1 .. n]
  BY <1>0, <1>1 DEF Merged, FoldLeft, MapThenFoldSet, Turns
<1>3. \E G : Turns(G, base, remote)
  <2>1. f \in [I -> [Elements -> I]]
    OBVIOUS
  <2>2. HasFold(I, f, base, remote, n)
    BY <2>1, FoldsExist
  <2>3. PICK g \in [SUBSET (1 .. n) -> I] : Folds(g, f, base, remote, n)
    BY <2>2 DEF HasFold
  <2>4. ASSUME NEW s \in SUBSET (1 .. n)
        PROVE  g[s] = IF s = {} THEN base ELSE Turn(g[s \ {Max(s)}], remote[Max(s)])
    <3>1. CASE s = {}
      BY <2>3, <3>1 DEF Folds
    <3>2. CASE s # {}
      <4>1. Max(s) \in 1 .. n
        BY <1>1, <3>2, GreatestExists
      <4>2. remote[Max(s)] \in Elements /\ g[s \ {Max(s)}] \in I
        BY <1>1, <4>1
      <4>3. g[s] = f[g[s \ {Max(s)}]][remote[Max(s)]]
        BY <2>3, <3>2 DEF Folds
      <4> QED
        BY <3>2, <4>2, <4>3
    <3> QED
      BY <3>1, <3>2
  <2>5. g = [s \in SUBSET (1 .. n) |-> g[s]]
    OBVIOUS
  <2>6. [s \in SUBSET (1 .. n) |-> g[s]] = [s \in SUBSET (1 .. n) |->
          IF s = {} THEN base ELSE Turn(g[s \ {Max(s)}], remote[Max(s)])]
    BY <2>4
  <2>7. Turns(g, base, remote)
    BY <2>5, <2>6 DEF Turns
  <2> QED
    BY <2>7
<1>4. Turns(F, base, remote)
  BY <1>3
<1> HIDE DEF F
<1>5. F[{}] = base
  BY <1>4 DEF Turns
<1>6. ASSUME NEW s \in SUBSET (1 .. n), s # {}, F[s \ {Max(s)}] \in I
      PROVE  F[s] = f[F[s \ {Max(s)}]][remote[Max(s)]]
  <2>1. remote[Max(s)] \in Elements
    BY <1>1, <1>6, GreatestExists
  <2>2. F[s] = Turn(F[s \ {Max(s)}], remote[Max(s)])
    BY <1>4, <1>6 DEF Turns
  <2> QED
    BY <1>6, <2>1, <2>2
<1>7. f \in [I -> [Elements -> I]]
  OBVIOUS
<1> HIDE DEF f
<1> DEFINE Same == [m \in 0 .. n |-> I]
<1>8. \A m \in 1 .. n : Same[m - 1] = I /\ Same[m] = I
  BY <1>1
<1>9. base \in Same[0]
  BY <1>1
<1>10. \A m \in 1 .. n : \A acc \in I : acc \in Same[m - 1] => f[acc][remote[m]] \in Same[m]
  BY <1>1, <1>7, <1>8
<1> HIDE DEF Same
<1>12. FoldsIn(F, f, I, base, remote) /\ Takes(f, I, remote, Same)
  BY <1>5, <1>6, <1>10 DEF FoldsIn, Takes
<1>11. F[1 .. n] \in I
  BY <1>7, <1>9, <1>12, FoldWithin
<1> QED
  BY <1>2, <1>11

(* What Without leaves of what it has left and p.                          *)
Left(rest, p, name) == IF p.name = name THEN rest ELSE Append(rest, p)

(* F folds as Left does.                                                   *)
Leaves(F, name, list) ==
  F = [s \in SUBSET (1 .. Len(list)) |->
         IF s = {} THEN <<>> ELSE Left(F[s \ {Max(s)}], list[Max(s)], name)]

(* Whether an element counts for a name.                                   *)
Named(p, name) == p # Null /\ p.name = name

(* How often a name is among the first m elements of a list.               *)
Among(list, m, name) == {i \in 1 .. m : list[i] # Null /\ list[i].name = name}

(* Those who hold no name more often than the first m patterns of list.    *)
NoOftener(list, m) ==
  {rest \in Seq(Elements) : \A name \in Names :
     Cardinality(NameIn(rest, name)) <= Cardinality(Among(list, m, name))}

(* The places of a name among the first places are finitely many.          *)
LEMMA AmongFinite ==
  ASSUME NEW list, NEW m \in Nat, NEW name
  PROVE  IsFiniteSet(Among(list, m, name)) /\ Cardinality(Among(list, m, name)) \in Nat
<1>1. IsFiniteSet(1 .. m)
  BY FS_Interval
<1>2. IsFiniteSet(Among(list, m, name))
  BY <1>1, FS_Subset DEF Among
<1> QED
  BY <1>2, FS_CardinalityType

(* NameIn counts the places of the whole list.                             *)
LEMMA NameInAmong ==
  ASSUME NEW list \in Seq(Elements), NEW name
  PROVE  /\ NameIn(list, name) = Among(list, Len(list), name)
         /\ IsFiniteSet(NameIn(list, name)) /\ Cardinality(NameIn(list, name)) \in Nat
<1>1. NameIn(list, name) = Among(list, Len(list), name)
  BY DEF NameIn, Among
<1> QED
  BY <1>1, AmongFinite

(* One pattern more is one place more of its name.                         *)
LEMMA AppendCounts ==
  ASSUME NEW list \in Seq(Elements), NEW p \in Elements, NEW name
  PROVE  Cardinality(NameIn(Append(list, p), name)) =
           Cardinality(NameIn(list, name)) + (IF Named(p, name) THEN 1 ELSE 0)
<1> DEFINE more == Append(list, p)
           n == Len(list)
<1>1. /\ n \in Nat /\ DOMAIN more = 1 .. n + 1 /\ more[n + 1] = p
      /\ DOMAIN list = 1 .. n /\ \A i \in 1 .. n : more[i] = list[i]
  OBVIOUS
<1> HIDE DEF more
<1>2. NameIn(more, name) =
        IF Named(p, name) THEN NameIn(list, name) \cup {n + 1} ELSE NameIn(list, name)
  BY <1>1 DEF NameIn, Named
<1>3. n + 1 \notin NameIn(list, name)
  BY <1>1 DEF NameIn
<1>4. IsFiniteSet(NameIn(list, name)) /\ Cardinality(NameIn(list, name)) \in Nat
  BY NameInAmong
<1>5. CASE Named(p, name)
  <2>1. Cardinality(NameIn(list, name) \cup {n + 1}) = Cardinality(NameIn(list, name)) + 1
    BY <1>3, <1>4, FS_AddElement
  <2> QED
    BY <1>2, <1>5, <2>1 DEF more
<1>6. CASE ~ Named(p, name)
  BY <1>2, <1>4, <1>6 DEF more
<1> QED
  BY <1>5, <1>6

(* Nothing holds no name more often.                                       *)
LEMMA NothingOften ==
  ASSUME NEW list
  PROVE  <<>> \in NoOftener(list, 0)
<1>1. ASSUME NEW name \in Names
      PROVE  Cardinality(NameIn(<<>>, name)) <= Cardinality(Among(list, 0, name))
  <2>1. NameIn(<<>>, name) = {} /\ Among(list, 0, name) = {}
    BY DEF NameIn, Among
  <2>2. IsFiniteSet({}) /\ Cardinality({}) = 0
    BY FS_EmptySet
  <2>3. Cardinality(NameIn(<<>>, name)) = 0 /\ Cardinality(Among(list, 0, name)) = 0
    BY <2>1, <2>2
  <2> QED
    BY <2>3
<1>2. <<>> \in Seq(Elements)
  OBVIOUS
<1> QED
  BY <1>1, <1>2 DEF NoOftener

(* A pattern of the list is kept or not.                                   *)
LEMMA LeftOftener ==
  ASSUME NEW name, NEW list, NEW m, m - 1 \in Nat, m \in Nat, list[m] \in Elements,
         NEW rest \in NoOftener(list, m - 1)
  PROVE  Left(rest, list[m], name) \in NoOftener(list, m)
<1>1. rest \in Seq(Elements)
  BY DEF NoOftener
<1>2. ASSUME NEW other \in Names
      PROVE  Cardinality(NameIn(Left(rest, list[m], name), other)) <= Cardinality(Among(list, m, other))
  <2>1. Cardinality(NameIn(rest, other)) <= Cardinality(Among(list, m - 1, other))
    BY DEF NoOftener
  <2>2. Cardinality(Among(list, m, other)) =
          Cardinality(Among(list, m - 1, other)) + (IF Named(list[m], other) THEN 1 ELSE 0)
    <3>1. Among(list, m, other) =
            IF Named(list[m], other) THEN Among(list, m - 1, other) \cup {m} ELSE Among(list, m - 1, other)
      <4>1. 1 .. m = (1 .. m - 1) \cup {m}
        OBVIOUS
      <4> QED
        BY <4>1 DEF Among, Named
    <3>2. m \notin Among(list, m - 1, other)
      BY DEF Among
    <3>3. IsFiniteSet(Among(list, m - 1, other)) /\ Cardinality(Among(list, m - 1, other)) \in Nat
      BY AmongFinite
    <3>4. CASE Named(list[m], other)
      <4>1. Cardinality(Among(list, m - 1, other) \cup {m}) = Cardinality(Among(list, m - 1, other)) + 1
        BY <3>2, <3>3, FS_AddElement
      <4> QED
        BY <3>1, <3>4, <4>1
    <3>5. CASE ~ Named(list[m], other)
      BY <3>1, <3>3, <3>5
    <3> QED
      BY <3>4, <3>5
  <2>3. Cardinality(NameIn(rest, other)) \in Nat /\ Cardinality(Among(list, m - 1, other)) \in Nat
    BY <1>1, NameInAmong, AmongFinite
  <2>4. Cardinality(NameIn(Append(rest, list[m]), other)) =
          Cardinality(NameIn(rest, other)) + (IF Named(list[m], other) THEN 1 ELSE 0)
    BY <1>1, AppendCounts
  <2>5. CASE list[m].name = name
    BY <2>1, <2>2, <2>3, <2>5 DEF Left
  <2>6. CASE list[m].name # name
    BY <2>1, <2>2, <2>3, <2>4, <2>6 DEF Left
  <2> QED
    BY <2>5, <2>6
<1>3. Left(rest, list[m], name) \in Seq(Elements)
  BY <1>1 DEF Left
<1> QED
  BY <1>2, <1>3 DEF NoOftener

(* Filtering leaves no name more often than it was there.                  *)
LEMMA WithoutStays ==
  ASSUME NEW name, NEW list \in Seq(Elements)
  PROVE  Without(list, name) \in NoOftener(list, Len(list))
<1> DEFINE n == Len(list)
           A == Seq(Elements)
           f == [rest \in A |-> [p \in Elements |-> Left(rest, p, name)]]
           F == CHOOSE G : Leaves(G, name, list)
<1>1. n \in Nat /\ DOMAIN list = 1 .. n /\ \A i \in 1 .. n : list[i] \in Elements
  OBVIOUS
<1>2. Without(list, name) = F[1 .. n]
  BY <1>1 DEF Without, FoldLeft, MapThenFoldSet, Leaves, Left
<1>7. f \in [A -> [Elements -> A]]
  BY DEF Left
<1>0. PICK empty \in A : empty = <<>>
  <2>1. <<>> \in A
    OBVIOUS
  <2> QED
    BY <2>1
<1>3. \E G : Leaves(G, name, list)
  <2>2. HasFold(A, f, empty, list, n)
    BY <1>7, FoldsExist
  <2>3. PICK g \in [SUBSET (1 .. n) -> A] : Folds(g, f, empty, list, n)
    BY <2>2 DEF HasFold
  <2>4. ASSUME NEW s \in SUBSET (1 .. n)
        PROVE  g[s] = IF s = {} THEN <<>> ELSE Left(g[s \ {Max(s)}], list[Max(s)], name)
    <3>1. CASE s = {}
      BY <1>0, <2>3, <3>1 DEF Folds
    <3>2. CASE s # {}
      <4>1. Max(s) \in 1 .. n
        BY <1>1, <3>2, GreatestExists
      <4>2. list[Max(s)] \in Elements /\ g[s \ {Max(s)}] \in A
        BY <1>1, <4>1
      <4>3. g[s] = f[g[s \ {Max(s)}]][list[Max(s)]]
        BY <2>3, <3>2 DEF Folds
      <4> QED
        BY <3>2, <4>2, <4>3
    <3> QED
      BY <3>1, <3>2
  <2>5. g = [s \in SUBSET (1 .. n) |-> g[s]]
    OBVIOUS
  <2>6. [s \in SUBSET (1 .. n) |-> g[s]] = [s \in SUBSET (1 .. n) |->
          IF s = {} THEN <<>> ELSE Left(g[s \ {Max(s)}], list[Max(s)], name)]
    BY <2>4
  <2>7. Leaves(g, name, list)
    BY <2>5, <2>6 DEF Leaves
  <2> QED
    BY <2>7
<1>4. Leaves(F, name, list)
  BY <1>3
<1> HIDE DEF F
<1>5. F[{}] = empty
  BY <1>0, <1>4 DEF Leaves
<1>6. ASSUME NEW s \in SUBSET (1 .. n), s # {}, F[s \ {Max(s)}] \in A
      PROVE  F[s] = f[F[s \ {Max(s)}]][list[Max(s)]]
  <2>1. list[Max(s)] \in Elements
    BY <1>1, <1>6, GreatestExists
  <2>2. F[s] = Left(F[s \ {Max(s)}], list[Max(s)], name)
    BY <1>4, <1>6 DEF Leaves
  <2> QED
    BY <1>6, <2>1, <2>2
<1>9. ASSUME NEW m \in 1 .. n, NEW acc \in A, acc \in NoOftener(list, m - 1)
      PROVE  f[acc][list[m]] \in NoOftener(list, m)
  <2>1. list[m] \in Elements
    BY <1>1
  <2>2. f[acc][list[m]] = Left(acc, list[m], name)
    BY <2>1
  <2>3. m \in Nat /\ m - 1 \in Nat
    BY <1>1
  <2>4. Left(acc, list[m], name) \in NoOftener(list, m)
    BY <1>9, <2>1, <2>3, LeftOftener
  <2> QED
    BY <2>2, <2>4
<1> HIDE DEF f
<1> DEFINE I == [m \in 0 .. n |-> NoOftener(list, m)]
<1>10. empty \in I[0]
  BY <1>0, <1>1, NothingOften
<1>11. \A m \in 1 .. n : \A acc \in A : acc \in I[m - 1] => f[acc][list[m]] \in I[m]
  BY <1>1, <1>9
<1>12. I[n] = NoOftener(list, n)
  BY <1>1
<1>14. FoldsIn(F, f, A, empty, list) /\ Takes(f, A, list, I)
  BY <1>5, <1>6, <1>11 DEF FoldsIn, Takes
<1>15. empty \in A /\ list \in Seq(Elements)
  OBVIOUS
<1> HIDE DEF I, A
<1>13. F[1 .. n] \in I[n]
  BY <1>7, <1>10, <1>14, <1>15, FoldWithin
<1> QED
  BY <1>2, <1>12, <1>13

(* The lists that hold no name more often than bound says.                 *)
Bounded(bound) ==
  {list \in Seq(Elements) : \A name \in Names : Cardinality(NameIn(list, name)) <= bound[name]}

(* One element of an update replaces its namesake, or is the first.        *)
LEMMA MergeStays ==
  ASSUME NEW bound \in [Names -> Nat], \A name \in Names : bound[name] >= 1,
         NEW list \in Bounded(bound), NEW p \in Elements, ~ Throws(list, p)
  PROVE  Merge(list, p) \in Bounded(bound)
<1> DEFINE same == NameIn(list, p.name)
<1>1. list \in Seq(Elements) /\ DOMAIN list = 1 .. Len(list) /\ Len(list) \in Nat
  BY DEF Bounded
<1>2. list # <<>> => p # Null
  BY DEF Throws
<1>3. CASE list = <<>> \/ same = {}
  <2>1. Merge(list, p) = Append(list, p)
    BY <1>3 DEF Merge
  <2>2. ASSUME NEW name \in Names
        PROVE  Cardinality(NameIn(Append(list, p), name)) <= bound[name]
    <3>1. Cardinality(NameIn(Append(list, p), name)) =
            Cardinality(NameIn(list, name)) + (IF Named(p, name) THEN 1 ELSE 0)
      BY <1>1, AppendCounts
    <3>2. Cardinality(NameIn(list, name)) <= bound[name]
      BY DEF Bounded
    <3>3. CASE Named(p, name)
      <4>1. NameIn(list, name) = {}
        <5>1. CASE list = <<>>
          BY <5>1 DEF NameIn
        <5>2. CASE same = {}
          BY <3>3, <5>2 DEF Named
        <5> QED
          BY <1>3, <5>1, <5>2
      <4>2. Cardinality(NameIn(list, name)) = 0
        BY <4>1, FS_EmptySet
      <4>3. bound[name] \in Nat /\ bound[name] >= 1
        OBVIOUS
      <4> QED
        BY <3>1, <3>3, <4>2, <4>3
    <3>4. CASE ~ Named(p, name)
      <4>1. Cardinality(NameIn(list, name)) \in Nat
        BY <1>1, NameInAmong
      <4> QED
        BY <3>1, <3>2, <3>4, <4>1
    <3> QED
      BY <3>3, <3>4
  <2>3. Append(list, p) \in Seq(Elements)
    BY <1>1
  <2> QED
    BY <2>1, <2>2, <2>3 DEF Bounded
<1>4. CASE list # <<>> /\ same # {}
  <2> DEFINE at == CHOOSE i \in same : \A k \in same : i <= k
  <2>1. same \subseteq 1 .. Len(list) /\ \A i \in same : list[i] # Null /\ list[i].name = p.name
    BY <1>1 DEF NameIn
  <2>2. same \subseteq Nat
    BY <1>1, <2>1
  <2> HIDE DEF same
  <2>3. \E i \in same : \A k \in same : i <= k
    BY <1>4, <2>2, LeastExists
  <2>4. at \in same
    BY <2>3
  <2>5. Merge(list, p) = [list EXCEPT ![at] = p]
    BY <1>4 DEF Merge, same
  <2> HIDE DEF at
  <2>6. at \in 1 .. Len(list) /\ list[at] # Null /\ list[at].name = p.name /\ p # Null
    BY <1>2, <1>4, <2>1, <2>4
  <2> DEFINE new == [list EXCEPT ![at] = p]
  <2>7. /\ new \in Seq(Elements) /\ DOMAIN new = DOMAIN list
        /\ \A i \in DOMAIN list : new[i] = IF i = at THEN p ELSE list[i]
    BY <1>1, <2>6
  <2> HIDE DEF new
  <2>8. ASSUME NEW name \in Names PROVE NameIn(new, name) = NameIn(list, name)
    BY <2>6, <2>7 DEF NameIn
  <2>9. \A name \in Names : Cardinality(NameIn(new, name)) <= bound[name]
    BY <2>8 DEF Bounded
  <2> QED
    BY <2>5, <2>7, <2>9 DEF Bounded, new
<1> QED
  BY <1>3, <1>4

(* What the loop of an update holds, with such a list.                     *)
Loops(bound) == [list : Bounded(bound), thrown : BOOLEAN]

(* So does a whole update, wherever it throws.                             *)
LEMMA UpdateStays ==
  ASSUME NEW bound \in [Names -> Nat], \A name \in Names : bound[name] >= 1,
         NEW list \in Bounded(bound), NEW remote \in Seq(Elements)
  PROVE  Merged(list, remote) \in Loops(bound)
<1>1. ASSUME NEW acc \in Loops(bound), NEW p \in Elements PROVE Turn(acc, p) \in Loops(bound)
  <2>1. acc.list \in Bounded(bound) /\ acc.thrown \in BOOLEAN
    BY <1>1 DEF Loops
  <2>2. CASE acc.thrown \/ Throws(acc.list, p)
    <3>1. Turn(acc, p) = [list |-> acc.list, thrown |-> TRUE]
      BY <2>2 DEF Turn
    <3> QED
      BY <2>1, <3>1 DEF Loops
  <2>3. CASE ~ (acc.thrown \/ Throws(acc.list, p))
    <3>1. Turn(acc, p) = [list |-> Merge(acc.list, p), thrown |-> FALSE]
      BY <2>3 DEF Turn
    <3>2. Merge(acc.list, p) \in Bounded(bound)
      BY <2>1, <2>3, MergeStays
    <3> QED
      BY <3>1, <3>2 DEF Loops
  <2> QED
    BY <2>2, <2>3
<1>2. [list |-> list, thrown |-> FALSE] \in Loops(bound)
  BY DEF Loops
<1> QED
  BY <1>1, <1>2, MergedStays

(* So does a removal.                                                      *)
LEMMA RemovalStays ==
  ASSUME NEW bound \in [Names -> Nat], NEW list \in Bounded(bound), NEW gone
  PROVE  Without(list, gone) \in Bounded(bound)
<1>1. list \in Seq(Elements) /\ Without(list, gone) \in NoOftener(list, Len(list))
  BY WithoutStays DEF Bounded
<1>2. ASSUME NEW name \in Names
      PROVE  Cardinality(NameIn(Without(list, gone), name)) <= bound[name]
  <2>1. Without(list, gone) \in Seq(Elements)
    BY <1>1 DEF NoOftener
  <2>2. Cardinality(NameIn(Without(list, gone), name)) <= Cardinality(NameIn(list, name))
    BY <1>1, NameInAmong DEF NoOftener
  <2>3. Cardinality(NameIn(list, name)) <= bound[name] /\ bound[name] \in Nat
    BY DEF Bounded
  <2>4. Cardinality(NameIn(list, name)) \in Nat /\ Cardinality(NameIn(Without(list, gone), name)) \in Nat
    BY <1>1, <2>1, NameInAmong
  <2> QED
    BY <2>2, <2>3, <2>4
<1> QED
  BY <1>1, <1>2 DEF NoOftener, Bounded

(* A registration raises the bound of its name.                            *)
LEMMA AdditionStays ==
  ASSUME NEW bound \in [Names -> Nat], NEW list \in Bounded(bound), NEW p \in Elements, p.name \in Names
  PROVE  Append(list, p) \in Bounded([bound EXCEPT ![p.name] = @ + 1])
<1>1. list \in Seq(Elements)
  BY DEF Bounded
<1>2. ASSUME NEW name \in Names
      PROVE  Cardinality(NameIn(Append(list, p), name)) <= [bound EXCEPT ![p.name] = @ + 1][name]
  <2>1. Cardinality(NameIn(Append(list, p), name)) =
          Cardinality(NameIn(list, name)) + (IF Named(p, name) THEN 1 ELSE 0)
    BY <1>1, AppendCounts
  <2>2. Cardinality(NameIn(list, name)) <= bound[name] /\ bound[name] \in Nat
    BY DEF Bounded
  <2>3. Cardinality(NameIn(list, name)) \in Nat
    BY <1>1, NameInAmong
  <2>4. [bound EXCEPT ![p.name] = @ + 1][name] =
          IF p.name = name THEN bound[name] + 1 ELSE bound[name]
    OBVIOUS
  <2> QED
    BY <2>1, <2>2, <2>3, <2>4 DEF Named
<1>3. Append(list, p) \in Seq(Elements)
  BY <1>1
<1> QED
  BY <1>2, <1>3 DEF Bounded

(* A higher bound bounds as well.                                          *)
LEMMA BoundedMonotone ==
  ASSUME NEW bound \in [Names -> Nat], NEW list \in Bounded(bound), NEW p \in Elements
  PROVE  list \in Bounded([bound EXCEPT ![p.name] = @ + 1])
<1>1. list \in Seq(Elements)
  BY DEF Bounded
<1>2. ASSUME NEW name \in Names
      PROVE  Cardinality(NameIn(list, name)) <= [bound EXCEPT ![p.name] = @ + 1][name]
  <2>1. Cardinality(NameIn(list, name)) <= bound[name] /\ bound[name] \in Nat
    BY DEF Bounded
  <2>2. Cardinality(NameIn(list, name)) \in Nat
    BY <1>1, NameInAmong
  <2>3. [bound EXCEPT ![p.name] = @ + 1][name] =
          IF p.name = name THEN bound[name] + 1 ELSE bound[name]
    OBVIOUS
  <2> QED
    BY <2>1, <2>2, <2>3
<1> QED
  BY <1>1, <1>2 DEF Bounded

(* What a list may hold: each name once, and once more for each time it    *)
(* was registered.                                                         *)
Allowed == [name \in Names |-> 1 + pushed[name]]

(* No list holds more.                                                     *)
ListsBounded ==
  /\ pushed \in [Names -> Nat]
  /\ given \in Bounded(Allowed)
  /\ own \in [Registries -> Bounded(Allowed)]

(* That is a number, and at least one.                                     *)
LEMMA AllowedType ==
  ASSUME pushed \in [Names -> Nat]
  PROVE  Allowed \in [Names -> Nat] /\ \A name \in Names : Allowed[name] >= 1
BY DEF Allowed

(* A registry is left with a bounded list by what rewrites it.             *)
LEMMA RewriteBounds ==
  ASSUME ListsBounded, NEW r \in Registries, NEW bound,
         Bounded(Allowed) \subseteq Bounded(bound),
         NEW list \in Bounded(bound), NEW thrown, Rewrite(r, list, thrown)
  PROVE  given' \in Bounded(bound) /\ own' \in [Registries -> Bounded(bound)]
<1>1. given \in Bounded(bound) /\ own \in [Registries -> Bounded(bound)]
  BY DEF ListsBounded
<1> HIDE DEF Bounded
<1> QED
  BY <1>1 DEF Rewrite

(* A registration appends one pattern, and counts it.                      *)
LEMMA RegisterBounds ==
  ASSUME ListsBounded, NEW r \in Registries, NEW p \in Patterns, Register(r, p)
  PROVE  ListsBounded'
<1> DEFINE more == [Allowed EXCEPT ![p.name] = @ + 1]
<1>1. pushed' = [pushed EXCEPT ![p.name] = @ + 1] /\ pushed \in [Names -> Nat] /\ p.name \in Names
  BY DEF Register, ListsBounded, Names
<1>2. pushed' \in [Names -> Nat]
  BY <1>1
<1>3. Allowed' = more
  <2>1. Allowed' = [name \in Names |-> 1 + pushed'[name]]
    BY DEF Allowed
  <2>2. DOMAIN more = Names /\ more = [name \in Names |-> more[name]]
    BY DEF Allowed
  <2>3. ASSUME NEW name \in Names PROVE more[name] = 1 + pushed'[name]
    <3>1. more[name] = IF name = p.name THEN Allowed[name] + 1 ELSE Allowed[name]
      BY DEF Allowed
    <3>2. Allowed[name] = 1 + pushed[name] /\ pushed[name] \in Nat
      BY <1>1 DEF Allowed
    <3>3. pushed'[name] = IF name = p.name THEN pushed[name] + 1 ELSE pushed[name]
      BY <1>1
    <3> QED
      BY <3>1, <3>2, <3>3
  <2> HIDE DEF more
  <2> QED
    BY <2>1, <2>2, <2>3
<1>4. Allowed \in [Names -> Nat]
  BY <1>1, AllowedType
<1>10. p \in Elements
  BY DEF Elements
<1>5. PatternsOf(r) \in Bounded(Allowed)
  BY DEF PatternsOf, ListsBounded
<1>6. Append(PatternsOf(r), p) \in Bounded(more)
  BY <1>1, <1>4, <1>5, <1>10, AdditionStays
<1>7. Bounded(Allowed) \subseteq Bounded(more)
  BY <1>4, <1>10, BoundedMonotone
<1> HIDE DEF more
<1>8. given' \in Bounded(more) /\ own' \in [Registries -> Bounded(more)]
  BY <1>6, <1>7, RewriteBounds DEF Register
<1>9. ListsBounded' = (/\ pushed' \in [Names -> Nat] /\ given' \in Bounded(Allowed')
                       /\ own' \in [Registries -> Bounded(Allowed')])
  BY DEF ListsBounded, Bounded, NameIn
<1> QED
  BY <1>2, <1>3, <1>8, <1>9

(* Where nothing is registered, the lists stay within the same bound.      *)
LEMMA SameBound ==
  ASSUME ListsBounded, pushed' = pushed, given' \in Bounded(Allowed),
         own' \in [Registries -> Bounded(Allowed)]
  PROVE  ListsBounded'
<1>1. Allowed' = Allowed
  BY DEF Allowed
<1>2. ListsBounded' = (/\ pushed' \in [Names -> Nat] /\ given' \in Bounded(Allowed')
                       /\ own' \in [Registries -> Bounded(Allowed')])
  BY DEF ListsBounded, Bounded, NameIn
<1> QED
  BY <1>1, <1>2 DEF ListsBounded

(* The list and the trie of a registry are current: the trie as above, and *)
(* the list, after updates that answer in any order or throw half-way and  *)
(* removals between them, holds a name once, plus once for each time it    *)
(* was handed to register or stood again in the host's array               *)
(* (registry.ts:54-61).                                                    *)
THEOREM RegistryCurrentHolds == GuardSpec => []RegistryCurrent
<1>1. GuardInit => ListsBounded
  <2> SUFFICES ASSUME RegistryInit PROVE ListsBounded
    BY PartsStart
  <2> DEFINE copies(name) == Cardinality(NameIn(given, name))
  <2>1. /\ pushed = [name \in Names |-> IF copies(name) = 0 THEN 0 ELSE copies(name) - 1]
        /\ given \in HostLists /\ own = [r \in Registries |-> BuiltIns]
    BY DEF RegistryInit
  <2>2. given \in Seq(Elements) /\ BuiltIns \in Seq(Elements)
    <3>1. given \in Seq(Patterns) /\ BuiltIns \in Seq(Patterns) /\ Patterns \subseteq Elements
      BY <2>1, RegistryAssumption DEF Elements
    <3> QED
      BY <3>1, SeqMonotonic
  <2>3. \A name \in Names : copies(name) \in Nat
    BY <2>2, NameInAmong
  <2> HIDE DEF copies
  <2>4. pushed \in [Names -> Nat]
    BY <2>1, <2>3
  <2>5. \A name \in Names : Allowed[name] >= 1 /\ copies(name) <= Allowed[name]
    BY <2>1, <2>3 DEF Allowed
  <2>6. given \in Bounded(Allowed)
    BY <2>2, <2>5 DEF Bounded, copies
  <2>7. ASSUME NEW name \in Names PROVE Cardinality(NameIn(BuiltIns, name)) <= 1
    <3>1. \A i, j \in NameIn(BuiltIns, name) : i = j
      BY RegistryAssumption DEF NameIn
    <3>2. CASE NameIn(BuiltIns, name) = {}
      BY <3>2, FS_EmptySet
    <3>3. CASE NameIn(BuiltIns, name) # {}
      <4>1. PICK i : i \in NameIn(BuiltIns, name)
        BY <3>3
      <4>2. NameIn(BuiltIns, name) = {i}
        BY <3>1, <4>1
      <4>3. Cardinality({i}) = 1
        BY FS_Singleton
      <4> QED
        BY <4>2, <4>3
    <3> QED
      BY <3>2, <3>3
  <2>8. BuiltIns \in Bounded(Allowed)
    <3>1. ASSUME NEW name \in Names
          PROVE  Cardinality(NameIn(BuiltIns, name)) <= Allowed[name]
      <4>1. Cardinality(NameIn(BuiltIns, name)) \in Nat /\ Allowed[name] \in Nat
        BY <2>2, <2>4, NameInAmong DEF Allowed
      <4> QED
        BY <2>5, <2>7, <4>1
    <3> QED
      BY <2>2, <3>1 DEF Bounded
  <2> QED
    BY <2>1, <2>4, <2>6, <2>8 DEF ListsBounded
<1>2. ListsBounded /\ [GuardNext]_all => ListsBounded'
  <2> SUFFICES ASSUME ListsBounded, [RegistryNext]_registries PROVE ListsBounded'
    BY PartsStep
  <2>1. Allowed \in [Names -> Nat] /\ \A name \in Names : Allowed[name] >= 1
    BY AllowedType DEF ListsBounded
  <2>2. \A r \in Registries : PatternsOf(r) \in Bounded(Allowed)
    BY DEF PatternsOf, ListsBounded
  <2>3. ASSUME UNCHANGED <<given, own, pushed>> PROVE ListsBounded'
    BY <2>3, SameBound DEF ListsBounded
  <2>4. ASSUME NEW r \in Registries, NEW p \in Patterns, Register(r, p) PROVE ListsBounded'
    BY <2>4, RegisterBounds
  <2>5. ASSUME NEW r \in Registries, NEW p \in Patterns, Unregister(r, p.name)
        PROVE  ListsBounded'
    <3>1. Without(PatternsOf(r), p.name) \in Bounded(Allowed)
      BY <2>1, <2>2, RemovalStays
    <3>2. given' = given /\ pushed' = pushed
          /\ (own' = own \/ own' = [own EXCEPT ![r] = Without(PatternsOf(r), p.name)])
      BY <2>5 DEF Unregister
    <3>3. given \in Bounded(Allowed) /\ own \in [Registries -> Bounded(Allowed)]
      BY DEF ListsBounded
    <3>4. given' \in Bounded(Allowed) /\ own' \in [Registries -> Bounded(Allowed)]
      BY <3>1, <3>2, <3>3
    <3> QED
      BY <3>2, <3>4, SameBound
  <2>6. ASSUME NEW r \in Registries, Loaded(r) PROVE ListsBounded'
    <3>1. PICK remote \in Remotes :
            /\ Rewrite(r, Merged(PatternsOf(r), remote).list, Merged(PatternsOf(r), remote).thrown)
            /\ pushed' = pushed
      BY <2>6 DEF Loaded
    <3>2. remote \in Seq(Elements)
      BY RegistryAssumption
    <3>3. Merged(PatternsOf(r), remote) \in Loops(Allowed)
      BY <2>1, <2>2, <3>2, UpdateStays
    <3>4. PICK loop \in Loops(Allowed) : loop = Merged(PatternsOf(r), remote)
      BY <3>3
    <3>5. loop.list \in Bounded(Allowed) /\ Rewrite(r, loop.list, loop.thrown)
      BY <3>1, <3>4 DEF Loops
    <3>6. given' \in Bounded(Allowed) /\ own' \in [Registries -> Bounded(Allowed)]
      BY <3>5, RewriteBounds
    <3> QED
      BY <3>1, <3>6, SameBound
  <2>7. ASSUME NEW r \in Registries, Fetch(r) \/ LiveUpdate(r) \/ LoadFails(r) \/ StopLiveUpdates(r)
        PROVE  UNCHANGED <<given, own, pushed>>
    BY <2>7 DEF Fetch, LiveUpdate, LoadFails, StopLiveUpdates
  <2>8. ASSUME UNCHANGED registries PROVE UNCHANGED <<given, own, pushed>>
    BY <2>8 DEF registries
  <2> QED
    BY <2>3, <2>4, <2>5, <2>6, <2>7, <2>8 DEF RegistryNext
<1>3. ListsBounded => UpdatesReplace
  <2> SUFFICES ASSUME ListsBounded, NEW r \in Registries, NEW name \in Names
               PROVE  Cardinality(NameIn(PatternsOf(r), name)) <= 1 + pushed[name]
    BY DEF UpdatesReplace
  <2>1. PatternsOf(r) \in Bounded(Allowed)
    BY DEF PatternsOf, ListsBounded
  <2> QED
    BY <2>1 DEF Bounded, Allowed
<1> QED
  BY <1>1, <1>2, <1>3, TrieCurrentHolds, PTL DEF GuardSpec, RegistryCurrent, all

(***************************************************************************)
(* The stream window.                                                      *)
(***************************************************************************)

(* The window holds the newest characters of a text, at most Window.       *)
LEMMA WindowOf ==
  ASSUME NEW chars \in Seq(Symbols)
  PROVE  /\ LastOf(chars) \in Seq(Symbols) /\ Len(chars) \in Nat
         /\ Len(LastOf(chars)) = IF Len(chars) > Window THEN Window ELSE Len(chars)
         /\ Len(chars) - Len(LastOf(chars)) \in Nat
         /\ \A i \in 1 .. Len(LastOf(chars)) :
              LastOf(chars)[i] = chars[(Len(chars) - Len(LastOf(chars))) + i]
<1> DEFINE n == Len(chars)
           w == LastOf(chars)
<1>1. n \in Nat /\ Window \in Nat
  BY StreamAssumption
<1>2. CASE n > Window
  <2>1. (n - Window) + 1 = n - Window + 1 /\ n - Window \in 0 .. n /\ n - (n - Window) = Window
    BY <1>1, <1>2
  <2>2. w = SubSeq(chars, (n - Window) + 1, n)
    BY <1>2 DEF LastOf
  <2>3. /\ w \in Seq(Symbols) /\ Len(w) = n - (n - Window)
        /\ \A i \in 1 .. n - (n - Window) : w[i] = chars[(n - Window) + i]
    BY <2>1, <2>2, Halves
  <2> HIDE DEF w
  <2> QED
    BY <1>1, <1>2, <2>1, <2>3 DEF w
<1>3. CASE ~ (n > Window)
  <2>1. w = chars /\ n - n = 0 /\ \A i \in 1 .. n : 0 + i = i
    BY <1>1, <1>3 DEF LastOf
  <2> QED
    BY <1>1, <1>3, <2>1
<1> QED
  BY <1>2, <1>3

(* Cutting the window before or after more text is appended is the same.   *)
LEMMA WindowRolls ==
  ASSUME NEW x \in Seq(Symbols), NEW t \in Seq(Symbols)
  PROVE  LastOf(LastOf(x) \o t) = LastOf(x \o t)
<1> DEFINE y == LastOf(x)
           a == y \o t
           b == x \o t
           W == Window
<1>1. /\ Len(x) \in Nat /\ Len(t) \in Nat /\ W \in Nat
      /\ y \in Seq(Symbols) /\ Len(y) \in Nat
      /\ Len(y) = IF Len(x) > W THEN W ELSE Len(x)
      /\ \A i \in 1 .. Len(y) : y[i] = x[(Len(x) - Len(y)) + i]
  BY WindowOf, StreamAssumption
<1>2. CASE ~ (Len(x) > W)
  BY <1>2 DEF LastOf
<1>3. CASE Len(x) > W
  <2> HIDE DEF y
  <2>1. /\ a \in Seq(Symbols) /\ Len(a) = W + Len(t)
        /\ \A i \in 1 .. W + Len(t) : a[i] = IF i <= W THEN y[i] ELSE t[i - W]
    <3>1. Len(y) = W
      BY <1>1, <1>3
    <3>2. /\ a \in Seq(Symbols) /\ Len(a) = Len(y) + Len(t)
          /\ \A i \in 1 .. Len(y) + Len(t) :
               a[i] = IF i <= Len(y) THEN y[i] ELSE t[i - Len(y)]
      BY <1>1, ConcatProperties
    <3> QED
      BY <3>1, <3>2
  <2>2. /\ b \in Seq(Symbols) /\ Len(b) = Len(x) + Len(t)
        /\ \A i \in 1 .. Len(x) + Len(t) : b[i] = IF i <= Len(x) THEN x[i] ELSE t[i - Len(x)]
    BY <1>1, ConcatProperties
  <2> HIDE DEF a, b
  <2>3. /\ LastOf(a) \in Seq(Symbols) /\ Len(LastOf(a)) = W
        /\ \A i \in 1 .. W : LastOf(a)[i] = a[Len(t) + i]
    <3>1. /\ LastOf(a) \in Seq(Symbols)
          /\ Len(LastOf(a)) = IF Len(a) > W THEN W ELSE Len(a)
          /\ \A i \in 1 .. Len(LastOf(a)) : LastOf(a)[i] = a[(Len(a) - Len(LastOf(a))) + i]
      BY <2>1, WindowOf
    <3>2. Len(LastOf(a)) = W /\ Len(a) - W = Len(t)
      BY <1>1, <2>1, <3>1
    <3> QED
      BY <3>1, <3>2
  <2>4. /\ LastOf(b) \in Seq(Symbols) /\ Len(LastOf(b)) = W
        /\ \A i \in 1 .. W : LastOf(b)[i] = b[(Len(x) + Len(t) - W) + i]
    <3>1. /\ LastOf(b) \in Seq(Symbols)
          /\ Len(LastOf(b)) = IF Len(b) > W THEN W ELSE Len(b)
          /\ \A i \in 1 .. Len(LastOf(b)) : LastOf(b)[i] = b[(Len(b) - Len(LastOf(b))) + i]
      BY <2>2, WindowOf
    <3>2. Len(LastOf(b)) = W /\ Len(b) - W = Len(x) + Len(t) - W
      BY <1>1, <1>3, <2>2, <3>1
    <3> QED
      BY <3>1, <3>2
  <2>5. ASSUME NEW i \in 1 .. W
        PROVE  a[Len(t) + i] = b[(Len(x) + Len(t) - W) + i]
    <3>1. /\ Len(t) + i \in 1 .. W + Len(t)
          /\ (Len(x) + Len(t) - W) + i \in 1 .. Len(x) + Len(t)
      BY <1>1, <1>3
    <3>2. CASE Len(t) + i <= W
      <4>1. /\ Len(t) + i \in 1 .. Len(y)
            /\ (Len(x) - Len(y)) + (Len(t) + i) = (Len(x) + Len(t) - W) + i
            /\ (Len(x) + Len(t) - W) + i <= Len(x)
        BY <1>1, <1>3, <3>2
      <4>2. a[Len(t) + i] = y[Len(t) + i]
        BY <2>1, <3>1, <3>2
      <4>3. y[Len(t) + i] = x[(Len(x) + Len(t) - W) + i]
        BY <1>1, <4>1
      <4>4. b[(Len(x) + Len(t) - W) + i] = x[(Len(x) + Len(t) - W) + i]
        BY <2>2, <3>1, <4>1
      <4> QED
        BY <4>2, <4>3, <4>4
    <3>3. CASE ~ (Len(t) + i <= W)
      <4>1. /\ ~ ((Len(x) + Len(t) - W) + i <= Len(x))
            /\ ((Len(x) + Len(t) - W) + i) - Len(x) = (Len(t) + i) - W
        BY <1>1, <1>3, <3>3
      <4>2. a[Len(t) + i] = t[(Len(t) + i) - W]
        BY <2>1, <3>1, <3>3
      <4>3. b[(Len(x) + Len(t) - W) + i] = t[((Len(x) + Len(t) - W) + i) - Len(x)]
        BY <2>2, <3>1, <4>1
      <4> QED
        BY <4>1, <4>2, <4>3
    <3> QED
      BY <3>2, <3>3
  <2>6. \A i \in 1 .. W : LastOf(a)[i] = LastOf(b)[i]
    BY <2>3, <2>4, <2>5
  <2>7. LastOf(a) = LastOf(b)
    BY <2>3, <2>4, <2>6, SeqEqual
  <2> QED
    BY <2>7 DEF a, b, y
<1> QED
  BY <1>2, <1>3

(* Where the secret ends in a text, character by character.                *)
LEMMA EndsAt ==
  ASSUME NEW chars \in Seq(Symbols), NEW e \in Len(Secret) .. Len(chars)
  PROVE  e \in Ends(chars) <=>
           \A i \in 1 .. Len(Secret) : chars[(e - Len(Secret)) + i] = Secret[i]
<1> DEFINE k == Len(Secret)
           piece == SubSeq(chars, e - k + 1, e)
<1>1. k \in Nat \ {0} /\ Len(chars) \in Nat /\ Secret \in Seq(Symbols) /\ e \in Nat
  BY StreamAssumption
<1>2. /\ piece \in Seq(Symbols) /\ Len(piece) = k
      /\ \A i \in 1 .. k : piece[i] = chars[(e - k) + i]
  <2>1. /\ e - k + 1 \in Int /\ e \in Int
        /\ \A i \in e - k + 1 .. e : chars[i] \in Symbols
    BY <1>1
  <2>2. /\ piece \in Seq(Symbols)
        /\ Len(piece) = IF e - k + 1 <= e THEN e - (e - k + 1) + 1 ELSE 0
        /\ \A i \in 1 .. e - (e - k + 1) + 1 : piece[i] = chars[(e - k + 1) + i - 1]
    <3> HIDE DEF k
    <3> QED
      BY <2>1, SubSeqProperties
  <2> HIDE DEF piece, k
  <2>3. /\ e - (e - k + 1) + 1 = k /\ e - k + 1 <= e
        /\ \A i \in 1 .. k : (e - k + 1) + i - 1 = (e - k) + i
    BY <1>1
  <2> QED
    BY <2>2, <2>3
<1> HIDE DEF piece
<1>3. (\A i \in 1 .. k : piece[i] = Secret[i]) => piece = Secret
  BY <1>1, <1>2, SeqEqual
<1>4. e \in Ends(chars) <=> piece = Secret
  BY DEF Ends, piece
<1> QED
  BY <1>2, <1>3, <1>4

(* A secret whose end lies far enough back to fit the window is in it.     *)
LEMMA EndsShift ==
  ASSUME NEW chars \in Seq(Symbols), NEW e \in Ends(chars),
         e > Len(chars) - Window + Len(Secret) - 1
  PROVE  e - (Len(chars) - Len(LastOf(chars))) \in Ends(LastOf(chars))
<1> DEFINE k == Len(Secret)
           w == LastOf(chars)
           d == Len(chars) - Len(w)
<1>1. /\ k \in Nat \ {0} /\ Len(chars) \in Nat /\ Window \in Nat
      /\ e \in k .. Len(chars)
  BY StreamAssumption DEF Ends
<1>2. /\ w \in Seq(Symbols) /\ Len(w) = IF Len(chars) > Window THEN Window ELSE Len(chars)
      /\ \A i \in 1 .. Len(w) : w[i] = chars[d + i]
  BY WindowOf
<1>3. Len(w) \in Nat /\ d \in Nat /\ e - d \in k .. Len(w)
  BY <1>1, <1>2
<1>4. \A i \in 1 .. k : chars[(e - k) + i] = Secret[i]
  BY <1>1, EndsAt
<1> HIDE DEF w
<1>5. ASSUME NEW i \in 1 .. k PROVE w[((e - d) - k) + i] = Secret[i]
  <2>1. ((e - d) - k) + i \in 1 .. Len(w) /\ d + (((e - d) - k) + i) = (e - k) + i
    BY <1>1, <1>3
  <2>2. w[((e - d) - k) + i] = chars[d + (((e - d) - k) + i)]
    BY <1>2, <2>1
  <2> QED
    BY <1>4, <2>1, <2>2
<1>6. e - d \in Ends(w)
  <2> HIDE DEF d
  <2> QED
    BY <1>2, <1>3, <1>5, EndsAt
<1> QED
  BY <1>6 DEF w

(* A text holds finitely many secrets.                                     *)
LEMMA EndsFinite ==
  ASSUME NEW chars \in Seq(Symbols)
  PROVE  /\ IsFiniteSet(Ends(chars)) /\ Ends(chars) \subseteq Int
         /\ \A S : S \subseteq Ends(chars) => IsFiniteSet(S) /\ Cardinality(S) \in Nat
<1>1. Len(chars) \in Int /\ Len(Secret) \in Int
  BY StreamAssumption
<1>2. IsFiniteSet(Len(Secret) .. Len(chars))
  BY <1>1, FS_Interval
<1>3. Ends(chars) \subseteq Len(Secret) .. Len(chars)
  BY DEF Ends
<1>4. IsFiniteSet(Ends(chars)) /\ Ends(chars) \subseteq Int
  BY <1>1, <1>2, <1>3, FS_Subset
<1> QED
  BY <1>4, FS_Subset, FS_CardinalityType

(* So the scan of the window finds as many secrets as the new text         *)
(* completes within it.                                                    *)
LEMMA WindowFinds ==
  ASSUME NEW chars \in Seq(Symbols), NEW S, S \subseteq Ends(chars),
         \A e \in S : e > Len(chars) - Window + Len(Secret) - 1
  PROVE  Cardinality(S) <= Cardinality(Ends(LastOf(chars)))
<1> DEFINE d == Len(chars) - Len(LastOf(chars))
           T == Ends(LastOf(chars))
           f == [e \in S |-> e - d]
<1>1. LastOf(chars) \in Seq(Symbols) /\ d \in Nat /\ S \subseteq Int
  BY WindowOf, EndsFinite
<1>2. IsFiniteSet(T)
  BY <1>1, EndsFinite
<1>3. \A e \in S : e - d \in T
  BY EndsShift
<1> HIDE DEF d, T
<1>4. f \in Injection(S, T)
  <2>1. f \in [S -> T]
    BY <1>3
  <2>2. \A x \in S, y \in S : f[x] = f[y] => x = y
    BY <1>1
  <2> QED
    BY <2>1, <2>2 DEF Injection, IsInjective
<1> HIDE DEF f
<1>5. Cardinality(S) <= Cardinality(T)
  BY <1>2, <1>4, FS_Injection
<1> QED
  BY <1>5 DEF T

Scanning(s) == stream[s].at = "scanning"

(* The window is the newest part of what was fed, and a call that no other *)
(* step has met found what is in the window, which is enough.              *)
StreamIInv ==
  /\ fed \in Seq(Symbols) /\ streamBuffer = LastOf(fed)
  /\ DOMAIN stream = Streams /\ DOMAIN owed = Streams
  /\ \A s \in Streams : Scanning(s) /\ s \notin met =>
       /\ stream[s].found = Cardinality(Ends(streamBuffer))
       /\ owed[s] <= stream[s].found
  /\ report.of \subseteq Streams
  /\ NothingMissed

(* What a call appends to is the window of what was fed, or of its context.*)
LEMMA SeededIs ==
  ASSUME StreamIInv, NEW context \in Chunks
  PROVE  LET x == IF streamBuffer = <<>> THEN context ELSE fed
         IN  x \in Seq(Symbols) /\ Seeded(context) = LastOf(x)
<1>1. context \in Seq(Symbols) /\ fed \in Seq(Symbols) /\ streamBuffer = LastOf(fed)
  BY StreamAssumption DEF StreamIInv
<1>2. LastOf(<<>>) = <<>>
  <2>1. <<>> \in Seq(Symbols) /\ Len(<<>>) = 0 /\ ~ (0 > Window)
    BY StreamAssumption
  <2> QED
    BY <2>1 DEF LastOf
<1> QED
  BY <1>1, <1>2 DEF Seeded

(* A call starts: it finds at least the secrets it owes.                   *)
LEMMA ScanStep ==
  ASSUME StreamIInv, NEW s \in Streams, ScanStream(s)
  PROVE  StreamIInv'
<1>1. PICK tokens \in Chunks, context \in Chunks :
        /\ streamBuffer' = LastOf(Seeded(context) \o tokens)
        /\ stream' = [stream EXCEPT ![s] =
             [at |-> "scanning", tokens |-> tokens,
              found |-> Cardinality(Ends(LastOf(Seeded(context) \o tokens)))]]
        /\ fed' = (IF streamBuffer = <<>> THEN context ELSE fed) \o tokens
        /\ owed' = [owed EXCEPT ![s] =
             Cardinality({e \in Ends(fed') : e > Len(fed') - Len(tokens)
                                          /\ e > Len(fed') - Window + Len(Secret) - 1})]
  BY DEF ScanStream
<1>2. /\ stream[s] = Idle /\ report' = report
      /\ met' = IF Busy = {} THEN met \ {s} ELSE met \cup Busy \cup {s}
  BY DEF ScanStream
<1> DEFINE x   == IF streamBuffer = <<>> THEN context ELSE fed
           due == {e \in Ends(fed') : e > Len(fed') - Len(tokens)
                                   /\ e > Len(fed') - Window + Len(Secret) - 1}
<1>3. x \in Seq(Symbols) /\ Seeded(context) = LastOf(x) /\ tokens \in Seq(Symbols)
  BY SeededIs, StreamAssumption
<1>4. fed' = x \o tokens
  BY <1>1
<1> HIDE DEF x
<1>5. fed' \in Seq(Symbols) /\ streamBuffer' = LastOf(fed')
  <2>1. x \o tokens \in Seq(Symbols)
    BY <1>3
  <2>2. LastOf(LastOf(x) \o tokens) = LastOf(x \o tokens)
    BY <1>3, WindowRolls
  <2>3. streamBuffer' = LastOf(LastOf(x) \o tokens)
    BY <1>1, <1>3
  <2> QED
    BY <1>4, <2>1, <2>2, <2>3
<1>6. /\ DOMAIN stream' = Streams /\ DOMAIN owed' = Streams
      /\ stream'[s].at = "scanning"
      /\ stream'[s].found = Cardinality(Ends(streamBuffer'))
      /\ owed'[s] = Cardinality(due)
      /\ \A r \in Streams : r # s => stream'[r] = stream[r] /\ owed'[r] = owed[r]
  BY <1>1 DEF StreamIInv
<1>7. owed'[s] <= stream'[s].found
  <2>1. due \subseteq Ends(fed') /\ \A e \in due : e > Len(fed') - Window + Len(Secret) - 1
    OBVIOUS
  <2> HIDE DEF due
  <2>2. Cardinality(due) <= Cardinality(Ends(LastOf(fed')))
    BY <1>5, <2>1, WindowFinds
  <2> QED
    BY <1>5, <1>6, <2>2
<1>8. ASSUME NEW r \in Streams, stream'[r].at = "scanning", r \notin met'
      PROVE  r = s
  <2>1. r # s => r \in Busy
    BY <1>6, <1>8 DEF Busy
  <2> QED
    BY <1>2, <1>8, <2>1
<1>9. NothingMissed'
  <2> SUFFICES ASSUME NEW r \in report.of, r \notin met', stream'[r] = Idle
               PROVE  report.found >= owed'[r]
    BY <1>2 DEF NothingMissed, Idle
  <2>1. r # s
    BY <1>6 DEF Idle
  <2>2. r \in Streams /\ r \notin met
    BY <1>2, <2>1 DEF StreamIInv
  <2>3. stream[r] = Idle /\ owed'[r] = owed[r]
    BY <1>6, <2>1, <2>2
  <2> QED
    BY <2>2, <2>3 DEF StreamIInv, NothingMissed
<1> QED
  BY <1>2, <1>5, <1>6, <1>7, <1>8, <1>9 DEF StreamIInv, Scanning

(* A call returns: the filter drops nothing that was found in the window   *)
(* as it still is.                                                         *)
LEMMA ReturnStep ==
  ASSUME StreamIInv, NEW s \in Streams, ReturnMatches(s)
  PROVE  StreamIInv'
<1>1. /\ Scanning(s) /\ report' = [of |-> {s}, found |-> Kept(s)]
      /\ stream' = [stream EXCEPT ![s] = Idle]
      /\ UNCHANGED <<streamBuffer, fed, owed, met>>
  BY DEF ReturnMatches, Scanning
<1>2. /\ DOMAIN stream' = Streams /\ stream'[s].at = "idle"
      /\ \A r \in Streams : r # s => stream'[r] = stream[r]
  BY <1>1 DEF StreamIInv, Idle
<1>3. ASSUME s \notin met PROVE Kept(s) >= owed[s]
  <2>1. stream[s].found = Cardinality(Ends(streamBuffer)) /\ owed[s] <= stream[s].found
    BY <1>1, <1>3 DEF StreamIInv
  <2>2. Ends(streamBuffer) = {} => stream[s].found = 0
    BY <2>1, FS_EmptySet
  <2>3. Kept(s) = stream[s].found
    BY <2>2 DEF Kept
  <2> QED
    BY <2>1, <2>3
<1>4. NothingMissed'
  BY <1>1, <1>3 DEF NothingMissed
<1> QED
  BY <1>1, <1>2, <1>4 DEF StreamIInv, Scanning

(* The window is cleared, and whoever waits has been met.                  *)
LEMMA ClearStep ==
  ASSUME StreamIInv, ClearStreamBuffer
  PROVE  StreamIInv'
<1>1. /\ streamBuffer' = <<>> /\ fed' = <<>> /\ met' = met \cup Busy
      /\ UNCHANGED <<stream, owed, report>>
  BY DEF ClearStreamBuffer
<1>2. <<>> \in Seq(Symbols) /\ LastOf(<<>>) = <<>>
  <2>1. <<>> \in Seq(Symbols) /\ Len(<<>>) = 0 /\ ~ (0 > Window)
    BY StreamAssumption
  <2> QED
    BY <2>1 DEF LastOf
<1>3. NothingMissed'
  BY <1>1 DEF StreamIInv, NothingMissed, Idle
<1>4. \A s \in Streams : stream'[s].at = "scanning" => s \in met'
  BY <1>1 DEF Busy
<1> QED
  BY <1>1, <1>2, <1>3, <1>4 DEF StreamIInv, Scanning

(* A call that no other overlaps reports every secret that its tokens      *)
(* complete and that fits the window, also one that began in an earlier    *)
(* chunk or in the context, whatever the window, the secret and the chunks *)
(* (scanner.ts:206-231).                                                   *)
THEOREM NothingMissedHolds == GuardSpec => []NothingMissed
<1>1. GuardInit => StreamIInv
  <2> SUFFICES ASSUME StreamInit PROVE StreamIInv
    BY PartsStart
  <2>1. /\ streamBuffer = <<>> /\ fed = <<>> /\ report.of = {}
        /\ DOMAIN stream = Streams /\ DOMAIN owed = Streams
        /\ \A s \in Streams : ~ Scanning(s)
    BY DEF StreamInit, Idle, Scanning
  <2>2. <<>> \in Seq(Symbols) /\ LastOf(<<>>) = <<>>
    <3>1. <<>> \in Seq(Symbols) /\ Len(<<>>) = 0 /\ ~ (0 > Window)
      BY StreamAssumption
    <3> QED
      BY <3>1 DEF LastOf
  <2>3. NothingMissed
    BY <2>1 DEF NothingMissed
  <2> QED
    BY <2>1, <2>2, <2>3 DEF StreamIInv
<1>2. StreamIInv /\ [GuardNext]_all => StreamIInv'
  <2> SUFFICES ASSUME StreamIInv, [StreamNext]_streaming PROVE StreamIInv'
    BY PartsStep
  <2>1. CASE UNCHANGED streaming
    BY <2>1 DEF streaming, StreamIInv, Scanning, NothingMissed
  <2>2. CASE StreamNext
    BY <2>2, ScanStep, ReturnStep, ClearStep DEF StreamNext
  <2> QED
    BY <2>1, <2>2
<1> QED
  BY <1>1, <1>2, PTL DEF GuardSpec, StreamIInv, all

(***************************************************************************)
(* The scanner's walk.                                                     *)
(***************************************************************************)
Frame == [object : Objects, next : Nat \ {0}]
Place == Objects \X Nat

(* An object is entered once: the calls in progress are for different      *)
(* ones, and what is scanned of theirs lies before the next member.        *)
WalkShape(fs, seen, done) ==
  /\ fs \in Seq(Frame) /\ done \in Seq(Place) /\ seen \subseteq Objects
  /\ \A f \in 1 .. Len(fs) : fs[f].object \in seen
  /\ \A f, g \in 1 .. Len(fs) : fs[f].object = fs[g].object => f = g
  /\ \A i \in 1 .. Len(done) :
       /\ done[i][1] \in seen
       /\ \A f \in 1 .. Len(fs) : fs[f].object = done[i][1] => done[i][2] < fs[f].next
  /\ \A i, j \in 1 .. Len(done) : done[i] = done[j] => i = j

WalkIInv == scanning \in States /\ WalkShape(frames, visited, scanned)

(* An object of the state has finitely many members.                       *)
LEMMA MembersLen ==
  ASSUME scanning \in States, NEW o \in Objects
  PROVE  Len(Members(o)) \in Nat
<1>1. Members(o) \in Seq([object : Objects] \cup [text : Nat])
  BY StateWalkAssumption DEF Members
<1> QED
  BY <1>1

(* A member is a text or an object of the state.                           *)
LEMMA MemberTyped ==
  ASSUME scanning \in States, NEW o \in Objects, NEW i \in 1 .. Len(Members(o))
  PROVE  IsText(Members(o)[i]) \/ Members(o)[i].object \in Objects
<1>1. Members(o) \in Seq([object : Objects] \cup [text : Nat])
  BY StateWalkAssumption DEF Members
<1>2. Members(o)[i] \in [object : Objects] \cup [text : Nat]
  BY <1>1
<1>3. ASSUME NEW m \in [text : Nat] PROVE IsText(m)
  BY DEF IsText
<1> QED
  BY <1>2, <1>3

(* An object is entered only if it was not visited, so it has no call yet  *)
(* and nothing of it is scanned.                                           *)
LEMMA EnterStep ==
  ASSUME NEW o \in Objects, NEW fs, WalkShape(fs, visited, scanned), Enter(o, fs)
  PROVE  WalkShape(frames', visited', scanned)
<1>1. /\ fs \in Seq(Frame) /\ scanned \in Seq(Place) /\ visited \subseteq Objects
      /\ Len(fs) \in Nat
  BY DEF WalkShape
<1>2. CASE frames' = fs /\ visited' = visited
  BY <1>2
<1>3. CASE frames' = fs /\ visited' = visited \cup {o}
  BY <1>1, <1>3 DEF WalkShape
<1>4. CASE /\ frames' = Append(fs, [object |-> o, next |-> 1])
           /\ visited' = visited \cup {o} /\ o \notin visited
  <2> DEFINE new == [object |-> o, next |-> 1]
  <2>1. new \in Frame /\ new.object = o
    BY DEF Frame
  <2> HIDE DEF new
  <2>2. /\ frames' \in Seq(Frame) /\ Len(frames') = Len(fs) + 1
        /\ frames'[Len(fs) + 1] = new
        /\ \A f \in 1 .. Len(fs) : frames'[f] = fs[f]
    BY <1>1, <1>4, <2>1 DEF new
  <2>3. \A f \in 1 .. Len(frames') : f \in 1 .. Len(fs) \/ f = Len(fs) + 1
    BY <1>1, <2>2
  <2>4. \A f \in 1 .. Len(frames') : frames'[f].object \in visited'
    BY <1>4, <2>1, <2>2, <2>3 DEF WalkShape
  <2>5. ASSUME NEW f \in 1 .. Len(frames'), NEW g \in 1 .. Len(frames'),
               frames'[f].object = frames'[g].object
        PROVE  f = g
    <3>1. \A h \in 1 .. Len(fs) : frames'[h].object \in visited
      BY <2>2 DEF WalkShape
    <3>2. CASE f \in 1 .. Len(fs) /\ g \in 1 .. Len(fs)
      BY <2>2, <2>5, <3>2 DEF WalkShape
    <3> QED
      BY <1>4, <2>1, <2>2, <2>3, <2>5, <3>1, <3>2
  <2>6. ASSUME NEW i \in 1 .. Len(scanned)
        PROVE  /\ scanned[i][1] \in visited'
               /\ \A f \in 1 .. Len(frames') :
                    frames'[f].object = scanned[i][1] => scanned[i][2] < frames'[f].next
    <3>1. /\ scanned[i][1] \in visited
          /\ \A f \in 1 .. Len(fs) :
               fs[f].object = scanned[i][1] => scanned[i][2] < fs[f].next
      BY DEF WalkShape
    <3> QED
      BY <1>4, <2>1, <2>2, <2>3, <3>1
  <2> QED
    BY <1>1, <1>4, <2>2, <2>4, <2>5, <2>6 DEF WalkShape
<1> QED
  BY <1>2, <1>3, <1>4 DEF Enter

(* The next member of the innermost call.                                  *)
LEMMA MemberStep ==
  ASSUME WalkIInv, ScanMember
  PROVE  WalkIInv'
<1> DEFINE n     == Len(frames)
           top   == frames[n]
           m     == Members(top.object)[top.next]
           moved == [top EXCEPT !.next = @ + 1]
           below == [frames EXCEPT ![n] = moved]
<1>1. /\ frames \in Seq(Frame) /\ scanned \in Seq(Place) /\ visited \subseteq Objects
      /\ frames # <<>> /\ top.next <= Len(Members(top.object))
      /\ scanning' = scanning /\ scanning \in States
  BY DEF WalkIInv, WalkShape, ScanMember, Innermost
<1>2. n \in Nat \ {0} /\ n \in 1 .. n /\ top \in Frame
  BY <1>1
<1>3. below = [frames EXCEPT ![Len(frames)].next = @ + 1]
  BY <1>2
<1>4. /\ moved \in Frame /\ moved.object = top.object /\ moved.next = top.next + 1
      /\ top.object \in Objects /\ top.next \in Nat \ {0}
  BY <1>2 DEF Frame
<1> HIDE DEF moved
<1>5. /\ below \in Seq(Frame) /\ Len(below) = n /\ below[n] = moved
      /\ \A f \in 1 .. n : f # n => below[f] = frames[f]
  BY <1>1, <1>2, <1>4
<1> HIDE DEF below
<1>6. /\ \A f \in 1 .. n : below[f].object = frames[f].object
      /\ \A f \in 1 .. n : frames[f].next \in Nat /\ frames[f].next <= below[f].next
  <2>1. \A f \in 1 .. n : frames[f] \in Frame
    BY <1>1
  <2>2. \A f \in 1 .. n : frames[f].next \in Nat
    BY <2>1 DEF Frame
  <2>3. ASSUME NEW f \in 1 .. n
        PROVE  below[f].object = frames[f].object /\ frames[f].next <= below[f].next
    <3>1. CASE f = n
      <4>1. frames[f] = top /\ below[f] = moved
        BY <1>5, <3>1
      <4> QED
        BY <1>4, <4>1
    <3>2. CASE f # n
      BY <1>5, <2>2, <3>2
    <3> QED
      BY <3>1, <3>2
  <2> QED
    BY <2>2, <2>3
<1>7. \A i \in 1 .. Len(scanned) : scanned[i] \in Place /\ scanned[i][2] \in Nat
  BY <1>1 DEF Place
<1>8. WalkShape(below, visited, scanned)
  <2>1. \A i \in 1 .. Len(scanned) :
          /\ scanned[i][1] \in visited
          /\ \A f \in 1 .. n : below[f].object = scanned[i][1] => scanned[i][2] < below[f].next
    <3> SUFFICES ASSUME NEW i \in 1 .. Len(scanned), NEW f \in 1 .. n,
                        below[f].object = scanned[i][1]
                 PROVE  scanned[i][2] < below[f].next
      BY DEF WalkIInv, WalkShape
    <3>1. scanned[i][2] < frames[f].next
      BY <1>6 DEF WalkIInv, WalkShape
    <3>2. below[f].next \in Nat
      BY <1>4, <1>5, <1>6
    <3> QED
      BY <1>6, <1>7, <3>1, <3>2
  <2> QED
    BY <1>5, <1>6, <2>1 DEF WalkIInv, WalkShape
<1>9. CASE IsText(m) /\ frames' = below /\ visited' = visited /\ scanned' = scanned
  BY <1>1, <1>8, <1>9 DEF WalkIInv
<1>10. CASE /\ IsText(m) /\ frames' = below /\ visited' = visited
            /\ scanned' = Append(scanned, <<top.object, top.next>>)
  <2> DEFINE place == <<top.object, top.next>>
  <2>1. place \in Place /\ place[1] = top.object /\ place[2] = top.next
    BY <1>4 DEF Place
  <2> HIDE DEF place
  <2>2. /\ Len(scanned) \in Nat /\ scanned' \in Seq(Place)
        /\ Len(scanned') = Len(scanned) + 1 /\ scanned'[Len(scanned) + 1] = place
        /\ \A i \in 1 .. Len(scanned) : scanned'[i] = scanned[i]
    BY <1>1, <1>10, <2>1 DEF place
  <2>3. \A i \in 1 .. Len(scanned') : i \in 1 .. Len(scanned) \/ i = Len(scanned) + 1
    BY <2>2
  <2>4. \A i \in 1 .. Len(scanned) : scanned[i] # place
    <3>1. ASSUME NEW i \in 1 .. Len(scanned), scanned[i] = place PROVE FALSE
      <4>1. scanned[i][2] < top.next
        BY <1>2, <2>1, <3>1 DEF WalkIInv, WalkShape
      <4> QED
        BY <1>4, <2>1, <3>1, <4>1
    <3> QED
      BY <3>1
  <2>5. /\ place[1] \in visited
        /\ \A f \in 1 .. n : below[f].object = place[1] => place[2] < below[f].next
    <3>1. \A f \in 1 .. n : frames[f].object = top.object => f = n
      BY <1>2 DEF WalkIInv, WalkShape
    <3>2. top.object \in visited
      BY <1>2 DEF WalkIInv, WalkShape
    <3> QED
      BY <1>4, <1>5, <1>6, <2>1, <3>1, <3>2
  <2>6. ASSUME NEW i \in 1 .. Len(scanned')
        PROVE  /\ scanned'[i][1] \in visited
               /\ \A f \in 1 .. n :
                    below[f].object = scanned'[i][1] => scanned'[i][2] < below[f].next
    BY <1>5, <1>8, <2>2, <2>3, <2>5 DEF WalkShape
  <2>7. ASSUME NEW i \in 1 .. Len(scanned'), NEW j \in 1 .. Len(scanned'),
               scanned'[i] = scanned'[j]
        PROVE  i = j
    BY <2>2, <2>3, <2>4, <2>7 DEF WalkIInv, WalkShape
  <2>8. WalkShape(below, visited, scanned')
    BY <1>5, <1>8, <2>2, <2>6, <2>7 DEF WalkShape
  <2> QED
    BY <1>1, <1>10, <2>8 DEF WalkIInv
<1>11. CASE ~ IsText(m) /\ Enter(m.object, below) /\ scanned' = scanned
  <2>1. m.object \in Objects
    <3>1. top.next \in 1 .. Len(Members(top.object))
      BY <1>1, <1>4, MembersLen
    <3> QED
      BY <1>1, <1>4, <1>11, <3>1, MemberTyped
  <2>2. WalkShape(frames', visited', scanned)
    BY <1>8, <1>11, <2>1, EnterStep
  <2> QED
    BY <1>1, <1>11, <2>2 DEF WalkIInv
<1> QED
  <2>1. \/ IsText(m) /\ frames' = below /\ visited' = visited
             /\ (scanned' = scanned \/ scanned' = Append(scanned, <<top.object, top.next>>))
        \/ ~ IsText(m) /\ Enter(m.object, below) /\ scanned' = scanned
    BY <1>3 DEF ScanMember, Innermost
  <2> QED
    BY <1>9, <1>10, <1>11, <2>1

(* The innermost call returns.                                             *)
LEMMA ReturnScanStep ==
  ASSUME WalkIInv, ReturnScan
  PROVE  WalkIInv'
<1>1. /\ frames \in Seq(Frame) /\ frames # <<>>
      /\ frames' = SubSeq(frames, 1, Len(frames) - 1)
      /\ UNCHANGED <<scanning, visited, scanned>>
  BY DEF WalkIInv, WalkShape, ReturnScan, Front
<1>2. Len(frames) \in Nat \ {0} /\ Len(frames) - 1 \in 0 .. Len(frames)
  BY <1>1
<1>3. /\ frames' \in Seq(Frame) /\ Len(frames') = Len(frames) - 1
      /\ \A f \in 1 .. Len(frames) - 1 : frames'[f] = frames[f]
  BY ZenonT(60), <1>1, <1>2, Halves
<1>4. \A f \in 1 .. Len(frames') : f \in 1 .. Len(frames) /\ frames'[f] = frames[f]
  BY <1>2, <1>3
<1> QED
  BY <1>1, <1>3, <1>4 DEF WalkIInv, WalkShape

(* The walk keeps to that.                                                 *)
LEMMA WalkHolds == GuardSpec => []WalkIInv
<1>1. GuardInit => WalkIInv
  <2> SUFFICES ASSUME WalkInit PROVE WalkIInv
    BY PartsStart
  <2>1. scanning \in States /\ frames = <<>> /\ visited = {} /\ scanned = <<>>
    BY DEF WalkInit
  <2>2. <<>> \in Seq(Frame) /\ <<>> \in Seq(Place) /\ Len(<<>>) = 0
    OBVIOUS
  <2> QED
    BY <2>1, <2>2 DEF WalkIInv, WalkShape
<1>2. WalkIInv /\ [GuardNext]_all => WalkIInv'
  <2> SUFFICES ASSUME WalkIInv, [WalkNext]_walking PROVE WalkIInv'
    BY PartsStep
  <2>1. CASE UNCHANGED walking
    BY <2>1 DEF walking, WalkIInv
  <2>2. CASE ScanState
    <3>1. visited = {} /\ Enter(Top, <<>>) /\ UNCHANGED <<scanning, scanned>>
      BY <2>2 DEF ScanState
    <3>2. <<>> \in Seq(Frame) /\ Len(<<>>) = 0 /\ Top \in Objects
      BY StateWalkAssumption
    <3>3. WalkShape(<<>>, visited, scanned)
      BY <3>2 DEF WalkIInv, WalkShape
    <3> QED
      BY <3>1, <3>2, <3>3, EnterStep DEF WalkIInv
  <2> QED
    BY <2>1, <2>2, MemberStep, ReturnScanStep DEF WalkNext
<1> QED
  BY <1>1, <1>2, PTL DEF GuardSpec, all

(* No string of a state is scanned twice, however often its object is held *)
(* and whatever objects hold themselves, for any state (scanner.ts:120).   *)
THEOREM ScannedOnceHolds == GuardSpec => []ScannedOnce
<1>1. WalkIInv => ScannedOnce
  <2> SUFFICES ASSUME WalkIInv PROVE ScannedOnce
    OBVIOUS
  <2>1. DOMAIN scanned = 1 .. Len(scanned)
    BY DEF WalkIInv, WalkShape
  <2> QED
    BY <2>1 DEF WalkIInv, WalkShape, ScannedOnce, IsInjective
<1> QED
  BY <1>1, WalkHolds, PTL

(***************************************************************************)
(* What can be reached.                                                    *)
(***************************************************************************)

(* A set of numbers that holds 0 and each next one holds all.              *)
LEMMA AllNumbers ==
  ASSUME NEW T, T \subseteq Nat, 0 \in T, \A n \in T : n + 1 \in T
  PROVE  T = Nat
<1> DEFINE U == Nat \ T
<1> SUFFICES ASSUME U # {} PROVE FALSE
  OBVIOUS
<1>1. PICK n \in U : \A m \in U : n <= m
  BY LeastExists
<1>2. n \in Nat /\ n # 0
  OBVIOUS
<1>3. n - 1 \in Nat /\ n - 1 \notin U
  BY <1>1, <1>2
<1>4. n - 1 \in T /\ n - 1 + 1 = n
  BY <1>2, <1>3
<1> QED
  BY <1>4

(* p leads in d steps from base to x, and may rest.                        *)
Leads(p, next, base, d, x) ==
  /\ p[0] \in base /\ p[d] = x
  /\ \A i \in 1 .. d : p[i] = p[i - 1] \/ p[i] \in next[p[i - 1]]

Way(next, base, d, x) == \E p \in [0 .. d -> Objects] : Leads(p, next, base, d, x)

(* f[d] is what can be reached from base in d steps.                       *)
Grows(f, next, base) ==
  f = [d \in Nat |-> IF d = 0 THEN base
                     ELSE f[d - 1] \cup UNION {next[x] : x \in f[d - 1]}]

(* A way is a shorter way and a step.                                      *)
LEMMA WayNext ==
  ASSUME NEW next \in [Objects -> SUBSET Objects], NEW base, NEW d \in Nat, NEW x \in Objects
  PROVE  Way(next, base, d + 1, x) <=>
           \E y \in Objects : Way(next, base, d, y) /\ (x = y \/ x \in next[y])
<1>1. ASSUME Way(next, base, d + 1, x)
      PROVE  \E y \in Objects : Way(next, base, d, y) /\ (x = y \/ x \in next[y])
  <2>1. PICK p \in [0 .. d + 1 -> Objects] : Leads(p, next, base, d + 1, x)
    BY <1>1 DEF Way
  <2> DEFINE q == [i \in 0 .. d |-> p[i]]
  <2>2. q \in [0 .. d -> Objects] /\ \A i \in 0 .. d : q[i] = p[i]
    OBVIOUS
  <2> HIDE DEF q
  <2>3. \A i \in 1 .. d : i \in 0 .. d /\ i - 1 \in 0 .. d /\ i \in 1 .. d + 1
    OBVIOUS
  <2>4. Leads(q, next, base, d, p[d])
    BY <2>1, <2>2, <2>3 DEF Leads
  <2>5. p[d] \in Objects /\ (x = p[d] \/ x \in next[p[d]])
    <3>1. d + 1 \in 1 .. d + 1 /\ d + 1 - 1 = d /\ d \in 0 .. d + 1
      OBVIOUS
    <3> QED
      BY <2>1, <3>1 DEF Leads
  <2> QED
    BY <2>2, <2>4, <2>5 DEF Way
<1>2. ASSUME NEW y \in Objects, Way(next, base, d, y), x = y \/ x \in next[y]
      PROVE  Way(next, base, d + 1, x)
  <2>1. PICK p \in [0 .. d -> Objects] : Leads(p, next, base, d, y)
    BY <1>2 DEF Way
  <2> DEFINE q == [i \in 0 .. d + 1 |-> IF i = d + 1 THEN x ELSE p[i]]
  <2>2. /\ q \in [0 .. d + 1 -> Objects] /\ q[d + 1] = x
        /\ \A i \in 0 .. d : q[i] = p[i]
    OBVIOUS
  <2> HIDE DEF q
  <2>3. ASSUME NEW i \in 1 .. d + 1 PROVE q[i] = q[i - 1] \/ q[i] \in next[q[i - 1]]
    <3>1. CASE i = d + 1
      BY <1>2, <2>1, <2>2, <3>1 DEF Leads
    <3>2. CASE i # d + 1
      <4>1. i \in 1 .. d /\ i \in 0 .. d /\ i - 1 \in 0 .. d
        BY <3>2
      <4> QED
        BY <2>1, <2>2, <4>1 DEF Leads
    <3> QED
      BY <3>1, <3>2
  <2>4. q[0] \in base
    BY <2>1, <2>2 DEF Leads
  <2> QED
    BY <2>2, <2>3, <2>4 DEF Way, Leads
<1> QED
  BY <1>1, <1>2

(* So there is such an f: the ends of the ways.                            *)
LEMMA GrowthExists ==
  ASSUME NEW next \in [Objects -> SUBSET Objects], NEW base \in SUBSET Objects
  PROVE  \E f : Grows(f, next, base)
<1> DEFINE f == [d \in Nat |-> {x \in Objects : Way(next, base, d, x)}]
<1>1. \A x \in Objects : Way(next, base, 0, x) <=> x \in base
  <2>1. ASSUME NEW x \in Objects, x \in base PROVE Way(next, base, 0, x)
    <3> DEFINE p == [i \in 0 .. 0 |-> x]
    <3>1. p \in [0 .. 0 -> Objects] /\ p[0] = x /\ 1 .. 0 = {}
      OBVIOUS
    <3> HIDE DEF p
    <3> QED
      BY <2>1, <3>1 DEF Way, Leads
  <2>2. ASSUME NEW x \in Objects, Way(next, base, 0, x) PROVE x \in base
    BY <2>2 DEF Way, Leads
  <2> QED
    BY <2>1, <2>2
<1>2. f[0] = base
  BY <1>1
<1>3. ASSUME NEW d \in Nat, d # 0
      PROVE  f[d] = f[d - 1] \cup UNION {next[x] : x \in f[d - 1]}
  <2>1. d - 1 \in Nat /\ d - 1 + 1 = d
    BY <1>3
  <2>2. \A x \in Objects : Way(next, base, d, x) <=>
          \E y \in Objects : Way(next, base, d - 1, y) /\ (x = y \/ x \in next[y])
    BY <2>1, WayNext
  <2>3. /\ f[d] = {x \in Objects : Way(next, base, d, x)}
        /\ f[d - 1] = {x \in Objects : Way(next, base, d - 1, x)}
    BY <2>1
  <2> HIDE DEF f
  <2> QED
    BY <2>2, <2>3
<1>4. f = [d \in Nat |-> f[d]]
  OBVIOUS
<1> HIDE DEF f
<1>5. [d \in Nat |-> f[d]] =
        [d \in Nat |-> IF d = 0 THEN base ELSE f[d - 1] \cup UNION {next[x] : x \in f[d - 1]}]
  BY <1>2, <1>3
<1> QED
  BY <1>4, <1>5 DEF Grows

(* One step of it.                                                         *)
LEMMA GrowthStep ==
  ASSUME NEW f, NEW next, NEW base, Grows(f, next, base)
  PROVE  /\ f[0] = base
         /\ \A d \in Nat : f[d + 1] = f[d] \cup UNION {next[x] : x \in f[d]}
<1>1. \A d \in Nat : d + 1 \in Nat /\ d + 1 # 0 /\ d + 1 - 1 = d
  OBVIOUS
<1> QED
  BY <1>1 DEF Grows

(* It stays within whatever holds base and what next leads to.             *)
LEMMA GrowthWithin ==
  ASSUME NEW f, NEW next, NEW base, Grows(f, next, base),
         NEW C, base \subseteq C, \A x \in C : next[x] \subseteq C
  PROVE  \A d \in Nat : f[d] \subseteq C
<1> DEFINE T == {d \in Nat : f[d] \subseteq C}
<1>1. 0 \in T
  BY GrowthStep
<1>2. \A d \in T : d + 1 \in T
  BY GrowthStep
<1> HIDE DEF T
<1>3. T = Nat
  <2>1. T \subseteq Nat
    BY DEF T
  <2> QED
    BY <1>1, <1>2, <2>1, AllNumbers
<1> QED
  BY <1>3 DEF T

(* It never loses anything.                                                *)
LEMMA GrowthKeeps ==
  ASSUME NEW f, NEW next, NEW base, Grows(f, next, base), NEW d \in Nat, NEW e \in Nat, d <= e
  PROVE  f[d] \subseteq f[e]
<1> DEFINE T == {k \in Nat : f[d] \subseteq f[d + k]}
<1>1. 0 \in T
  OBVIOUS
<1>2. ASSUME NEW k \in T PROVE k + 1 \in T
  <2>1. d + k \in Nat /\ d + (k + 1) = d + k + 1
    OBVIOUS
  <2>2. f[d + k] \subseteq f[d + k + 1]
    BY <2>1, GrowthStep
  <2> QED
    BY <2>1, <2>2
<1>3. T = Nat
  <2>1. T \subseteq Nat
    OBVIOUS
  <2> HIDE DEF T
  <2> QED
    BY <1>1, <1>2, <2>1, AllNumbers
<1>4. e - d \in T /\ d + (e - d) = e
  BY <1>3
<1> QED
  BY <1>4

(* Once it stands still it never grows again.                              *)
LEMMA GrowthStops ==
  ASSUME NEW f, NEW next, NEW base, Grows(f, next, base), NEW d \in Nat, f[d + 1] = f[d],
         NEW e \in Nat, d <= e
  PROVE  f[e + 1] = f[e]
<1> DEFINE T == {k \in Nat : f[d + k + 1] = f[d + k]}
<1>1. 0 \in T
  OBVIOUS
<1>2. ASSUME NEW k \in T PROVE k + 1 \in T
  <2>1. d + k \in Nat /\ d + (k + 1) = d + k + 1 /\ d + k + 1 \in Nat
    OBVIOUS
  <2>2. f[d + k + 1 + 1] = f[d + k + 1]
    <3>1. f[d + k + 1 + 1] = f[d + k + 1] \cup UNION {next[x] : x \in f[d + k + 1]}
      BY <2>1, GrowthStep
    <3>2. f[d + k + 1] = f[d + k] \cup UNION {next[x] : x \in f[d + k]}
      BY <2>1, GrowthStep
    <3>3. f[d + k + 1] = f[d + k]
      OBVIOUS
    <3> QED
      BY <3>1, <3>2, <3>3
  <2> QED
    BY <2>1, <2>2
<1>3. T = Nat
  <2>1. T \subseteq Nat
    OBVIOUS
  <2> HIDE DEF T
  <2> QED
    BY <1>1, <1>2, <2>1, AllNumbers
<1>4. e - d \in T /\ d + (e - d) = e
  <2>1. e - d \in Nat /\ d + (e - d) = e
    OBVIOUS
  <2> HIDE DEF T
  <2> QED
    BY <1>3, <2>1
<1> QED
  BY <1>4

(* It cannot grow more often than there are objects: after that many steps *)
(* it holds what its members lead to.                                      *)
LEMMA GrowthClosed ==
  ASSUME NEW f, NEW next \in [Objects -> SUBSET Objects], NEW base \in SUBSET Objects,
         Grows(f, next, base), NEW x \in f[Cardinality(Objects)]
  PROVE  next[x] \subseteq f[Cardinality(Objects)]
<1> DEFINE N == Cardinality(Objects)
<1>1. IsFiniteSet(Objects) /\ N \in Nat
  BY FS_CardinalityType, StateWalkAssumption
<1>2. \A d \in Nat : f[d] \subseteq Objects
  BY GrowthWithin
<1>3. \A d \in Nat : IsFiniteSet(f[d]) /\ Cardinality(f[d]) \in Nat /\ Cardinality(f[d]) <= N
  BY <1>1, <1>2, FS_Subset, FS_CardinalityType
<1>4. f[N + 1] = f[N]
  <2> SUFFICES ASSUME f[N + 1] # f[N] PROVE FALSE
    OBVIOUS
  <2>1. \A d \in Nat : d <= N => f[d + 1] # f[d]
    BY <1>1, GrowthStops
  <2> DEFINE T == {d \in Nat : d <= N + 1 => Cardinality(f[d]) >= d}
  <2>2. 0 \in T
    BY <1>3
  <2>3. ASSUME NEW d \in T PROVE d + 1 \in T
    <3> SUFFICES ASSUME d + 1 <= N + 1 PROVE Cardinality(f[d + 1]) >= d + 1
      OBVIOUS
    <3>1. d \in Nat /\ d <= N /\ Cardinality(f[d]) >= d
      BY <1>1
    <3>2. f[d] \subseteq f[d + 1] /\ f[d + 1] # f[d]
      BY <2>1, <3>1, GrowthStep
    <3>3. Cardinality(f[d]) < Cardinality(f[d + 1])
      <4>1. d + 1 \in Nat /\ IsFiniteSet(f[d + 1])
        BY <1>3, <3>1
      <4>2. Cardinality(f[d]) <= Cardinality(f[d + 1]) /\ (Cardinality(f[d]) = Cardinality(f[d + 1]) => f[d] = f[d + 1])
        BY <3>2, <4>1, FS_Subset
      <4> QED
        BY <1>3, <3>1, <3>2, <4>1, <4>2
    <3> QED
      BY <1>3, <3>1, <3>3
  <2>4. T = Nat
    <3>1. T \subseteq Nat
      OBVIOUS
    <3> HIDE DEF T
    <3> QED
      BY <2>2, <2>3, <3>1, AllNumbers
  <2>5. N + 1 \in T
    BY <1>1, <2>4
  <2>6. Cardinality(f[N + 1]) >= N + 1 /\ Cardinality(f[N + 1]) <= N /\ Cardinality(f[N + 1]) \in Nat
    BY <1>1, <1>3, <2>5
  <2> QED
    BY <1>1, <2>6
<1>5. f[N + 1] = f[N] \cup UNION {next[y] : y \in f[N]}
  BY <1>1, GrowthStep
<1> HIDE DEF N
<1>6. x \in f[N]
  BY DEF N
<1>7. next[x] \subseteq f[N]
  BY <1>4, <1>5, <1>6
<1> QED
  BY <1>7 DEF N

(* What an object holds are objects, each a member of it.                  *)
LEMMA HeldObjects ==
  ASSUME scanning \in States, NEW o \in Objects, NEW y \in Held(o)
  PROVE  /\ y \in Objects
         /\ \E i \in 1 .. Len(Members(o)) : ~ IsText(Members(o)[i]) /\ Members(o)[i].object = y
<1>1. Members(o) \in Seq([object : Objects] \cup [text : Nat])
  BY StateWalkAssumption DEF Members
<1>2. PICK m \in Range(Members(o)) : ~ IsText(m) /\ y = m.object
  BY DEF Held
<1>3. PICK i \in DOMAIN Members(o) : m = Members(o)[i]
  BY <1>2 DEF Range
<1>4. i \in 1 .. Len(Members(o))
  BY <1>1
<1> QED
  BY <1>2, <1>3, <1>4, MemberTyped

(* What objects lead to, and what those lead to that are entered.          *)
Holding == [o \in Objects |-> Held(o)]

Entering == [o \in Objects |-> IF Enterable(o) THEN Held(o) ELSE {}]

(* Both lead from objects to objects.                                      *)
LEMMA LinksTyped ==
  ASSUME scanning \in States
  PROVE  Holding \in [Objects -> SUBSET Objects] /\ Entering \in [Objects -> SUBSET Objects]
<1>1. \A o \in Objects : Held(o) \subseteq Objects
  BY HeldObjects
<1> QED
  BY <1>1 DEF Holding, Entering

(* What Below follows.                                                     *)
Falls(h, o) ==
  h = [d \in Nat |-> IF d = 0 THEN {o} ELSE h[d - 1] \cup UNION {Held(x) : x \in h[d - 1]}]

(* Below is a growth along what objects hold.                              *)
LEMMA BelowGrows ==
  ASSUME scanning \in States, NEW o \in Objects
  PROVE  \E f : Grows(f, Holding, {o}) /\ Below(o) = f[Cardinality(Objects)]
<1>1. Holding \in [Objects -> SUBSET Objects]
  BY LinksTyped
<1>2. PICK f : Grows(f, Holding, {o})
  BY <1>1, GrowthExists
<1>3. \A d \in Nat : f[d] \subseteq Objects
  BY <1>1, <1>2, GrowthWithin
<1>4. \A d \in Nat : UNION {Holding[x] : x \in f[d]} = UNION {Held(x) : x \in f[d]}
  <2> TAKE d \in Nat
  <2>1. {Holding[x] : x \in f[d]} = {Held(x) : x \in f[d]}
    BY <1>3 DEF Holding
  <2> QED
    BY <2>1
<1>5. ASSUME NEW h, h = [d \in Nat |-> IF d = 0 THEN {o} ELSE f[d - 1] \cup UNION {Held(x) : x \in f[d - 1]}]
      PROVE  h = f
  <2>1. f = [d \in Nat |-> IF d = 0 THEN {o} ELSE f[d - 1] \cup UNION {Holding[x] : x \in f[d - 1]}]
    BY <1>2 DEF Grows
  <2>3. \A d \in Nat : d = 0 \/ d - 1 \in Nat
    OBVIOUS
  <2>2. ASSUME NEW d \in Nat
        PROVE  (IF d = 0 THEN {o} ELSE f[d - 1] \cup UNION {Held(x) : x \in f[d - 1]}) =
                 (IF d = 0 THEN {o} ELSE f[d - 1] \cup UNION {Holding[x] : x \in f[d - 1]})
    BY <1>4, <2>3
  <2> QED
    BY <1>5, <2>1, <2>2
<1>6. Falls(f, o)
  BY <1>5 DEF Falls
<1> DEFINE h == CHOOSE g : Falls(g, o)
<1>7. Falls(h, o) /\ Below(o) = h[Cardinality(Objects)]
  BY <1>6 DEF Below, Falls
<1> HIDE DEF h
<1> DEFINE T == {d \in Nat : h[d] = f[d]}
<1>8. 0 \in T
  BY <1>2, <1>7 DEF Falls, Grows
<1>9. ASSUME NEW d \in T PROVE d + 1 \in T
  <2>1. d \in Nat /\ d + 1 \in Nat /\ d + 1 # 0 /\ d + 1 - 1 = d /\ h[d] = f[d]
    OBVIOUS
  <2>2. h[d + 1] = h[d] \cup UNION {Held(x) : x \in h[d]}
    BY <1>7, <2>1 DEF Falls
  <2>3. f[d + 1] = f[d] \cup UNION {Holding[x] : x \in f[d]}
    BY <1>2, <2>1, GrowthStep
  <2> QED
    BY <1>4, <2>1, <2>2, <2>3
<1>10. T = Nat
  <2>1. T \subseteq Nat
    OBVIOUS
  <2> HIDE DEF T
  <2> QED
    BY <1>8, <1>9, <2>1, AllNumbers
<1>11. Cardinality(Objects) \in T
  BY <1>10, FS_CardinalityType, StateWalkAssumption
<1> QED
  BY <1>2, <1>7, <1>11

(* An object is below itself, and what is held below it is below it.       *)
LEMMA BelowClosed ==
  ASSUME scanning \in States, NEW o \in Objects
  PROVE  o \in Below(o) /\ Below(o) \subseteq Objects /\ \A x \in Below(o) : Held(x) \subseteq Below(o)
<1>1. Holding \in [Objects -> SUBSET Objects] /\ Cardinality(Objects) \in Nat
  BY LinksTyped, FS_CardinalityType, StateWalkAssumption
<1>2. PICK f : Grows(f, Holding, {o}) /\ Below(o) = f[Cardinality(Objects)]
  BY BelowGrows
<1>3. o \in f[Cardinality(Objects)]
  <2>1. f[0] \subseteq f[Cardinality(Objects)]
    BY <1>1, <1>2, GrowthKeeps
  <2>2. f[0] = {o}
    BY <1>2, GrowthStep
  <2> QED
    BY <2>1, <2>2
<1>4. f[Cardinality(Objects)] \subseteq Objects
  BY <1>1, <1>2, GrowthWithin
<1>5. ASSUME NEW x \in f[Cardinality(Objects)] PROVE Held(x) \subseteq f[Cardinality(Objects)]
  <2>1. Holding[x] \subseteq f[Cardinality(Objects)]
    BY <1>1, <1>2, GrowthClosed
  <2> QED
    BY <1>4, <2>1 DEF Holding
<1> QED
  BY <1>2, <1>3, <1>4, <1>5

(* So less is below what an object holds.                                  *)
LEMMA BelowHeld ==
  ASSUME scanning \in States, NEW x \in Objects, NEW y \in Held(x)
  PROVE  Below(y) \subseteq Below(x)
<1>1. y \in Objects /\ Cardinality(Objects) \in Nat
  BY HeldObjects, FS_CardinalityType, StateWalkAssumption
<1>2. PICK f : Grows(f, Holding, {y}) /\ Below(y) = f[Cardinality(Objects)]
  BY <1>1, BelowGrows
<1>3. {y} \subseteq Below(x) /\ \A z \in Below(x) : Holding[z] \subseteq Below(x)
  BY BelowClosed DEF Holding
<1>4. f[Cardinality(Objects)] \subseteq Below(x)
  BY <1>1, <1>2, <1>3, GrowthWithin
<1> QED
  BY <1>2, <1>4

(* What Reached follows.                                                   *)
Spreads(h) ==
  h = [d \in Nat |->
         IF d = 0 THEN {Top}
         ELSE h[d - 1] \cup UNION {Held(o) : o \in {x \in h[d - 1] : Enterable(x)}}]

(* Reached grows along the objects that are entered.                       *)
LEMMA ReachedGrows ==
  ASSUME scanning \in States
  PROVE  Grows(Reached, Entering, {Top})
<1>0. Entering \in [Objects -> SUBSET Objects] /\ {Top} \in SUBSET Objects
  BY LinksTyped, StateWalkAssumption
<1>1. PICK f : Grows(f, Entering, {Top})
  BY <1>0, GrowthExists
<1>2. \A d \in Nat : f[d] \subseteq Objects
  BY <1>0, <1>1, GrowthWithin
<1>3. \A d \in Nat : UNION {Held(o) : o \in {x \in f[d] : Enterable(x)}} = UNION {Entering[x] : x \in f[d]}
  <2> TAKE d \in Nat
  <2>1. ASSUME NEW y, y \in UNION {Held(o) : o \in {x \in f[d] : Enterable(x)}}
        PROVE  y \in UNION {Entering[x] : x \in f[d]}
    <3>1. PICK o \in f[d] : Enterable(o) /\ y \in Held(o)
      BY <2>1
    <3>2. y \in Entering[o]
      BY <1>2, <3>1 DEF Entering
    <3> QED
      BY <3>2
  <2>2. ASSUME NEW y, y \in UNION {Entering[x] : x \in f[d]}
        PROVE  y \in UNION {Held(o) : o \in {x \in f[d] : Enterable(x)}}
    <3>1. PICK o \in f[d] : y \in Entering[o]
      BY <2>2
    <3>2. Enterable(o) /\ y \in Held(o)
      BY <1>2, <3>1 DEF Entering
    <3> QED
      BY <3>1, <3>2
  <2> QED
    BY <2>1, <2>2
<1>4. ASSUME NEW h, h = [d \in Nat |-> IF d = 0 THEN {Top}
                          ELSE f[d - 1] \cup UNION {Held(o) : o \in {x \in f[d - 1] : Enterable(x)}}]
      PROVE  h = f
  <2>1. f = [d \in Nat |-> IF d = 0 THEN {Top} ELSE f[d - 1] \cup UNION {Entering[x] : x \in f[d - 1]}]
    BY <1>1 DEF Grows
  <2>3. \A d \in Nat : d = 0 \/ d - 1 \in Nat
    OBVIOUS
  <2>2. ASSUME NEW d \in Nat
        PROVE  (IF d = 0 THEN {Top} ELSE f[d - 1] \cup UNION {Held(o) : o \in {x \in f[d - 1] : Enterable(x)}}) =
                 (IF d = 0 THEN {Top} ELSE f[d - 1] \cup UNION {Entering[x] : x \in f[d - 1]})
    BY <1>3, <2>3
  <2> QED
    BY <1>4, <2>1, <2>2
<1>5. Spreads(f)
  BY <1>4 DEF Spreads
<1>6. Spreads(Reached)
  BY <1>5 DEF Reached, Spreads
<1> DEFINE T == {d \in Nat : Reached[d] = f[d]}
<1>7. 0 \in T
  BY <1>1, <1>6 DEF Spreads, Grows
<1>8. ASSUME NEW d \in T PROVE d + 1 \in T
  <2>1. d \in Nat /\ d + 1 \in Nat /\ d + 1 # 0 /\ d + 1 - 1 = d /\ Reached[d] = f[d]
    OBVIOUS
  <2>2. Reached[d + 1] = Reached[d] \cup UNION {Held(o) : o \in {x \in Reached[d] : Enterable(x)}}
    BY <1>6, <2>1 DEF Spreads
  <2>3. f[d + 1] = f[d] \cup UNION {Entering[x] : x \in f[d]}
    BY <1>1, <2>1, GrowthStep
  <2> QED
    BY <1>3, <2>1, <2>2, <2>3
<1>9. T = Nat
  <2>1. T \subseteq Nat
    OBVIOUS
  <2> HIDE DEF T
  <2> QED
    BY <1>7, <1>8, <2>1, AllNumbers
<1>10. Reached = f
  <2>1. \A d \in Nat : Reached[d] = f[d]
    BY <1>9
  <2>2. Reached = [d \in Nat |-> Reached[d]]
    BY <1>6 DEF Spreads
  <2>3. f = [d \in Nat |-> f[d]]
    BY <1>1 DEF Grows
  <2> QED
    BY <2>1, <2>2, <2>3
<1> QED
  BY <1>1, <1>10

(* What is reached are objects.                                            *)
LEMMA ReachedObjects ==
  ASSUME scanning \in States
  PROVE  \A d \in Nat : Reached[d] \subseteq Objects
<1>1. Entering \in [Objects -> SUBSET Objects] /\ {Top} \in SUBSET Objects
  BY LinksTyped, StateWalkAssumption
<1>2. PICK f : f = Reached
  OBVIOUS
<1>3. Grows(f, Entering, {Top})
  BY <1>2, ReachedGrows
<1>4. \A d \in Nat : f[d] \subseteq Objects
  BY <1>1, <1>3, GrowthWithin
<1> QED
  BY <1>2, <1>4

(***************************************************************************)
(* What a walk has done.                                                   *)
(***************************************************************************)

(* A member of x is done with: it lay too deep, or it is too large, or it  *)
(* is scanned or visited.                                                  *)
MemberDone(x, i, seen, depths, done) ==
  depths[x] < MaxScanDepth =>
    IF IsText(Members(x)[i])
      THEN Members(x)[i].text <= MaxScanSize => \E j \in 1 .. Len(done) : done[j] = <<x, i>>
      ELSE Members(x)[i].object \in seen

(* A call in progress has it still to come.                                *)
Pending(fs, x, i) == \E f \in 1 .. Len(fs) : fs[f].object = x /\ fs[f].next <= i

(* The calls in progress are as deep as their objects were met.            *)
DepthsKept(fs, seen, depths) ==
  /\ depths \in [Objects -> Nat]
  /\ seen # {} => Top \in seen /\ depths[Top] = 0
  /\ \A f \in 1 .. Len(fs) : depths[fs[f].object] = f - 1

(* Of the objects in seen each member is done with or to come; among is    *)
(* what counts as visited.                                                 *)
AllDone(fs, seen, among, depths, done) ==
  \A x \in seen : Enterable(x) =>
    \A i \in 1 .. Len(Members(x)) : MemberDone(x, i, among, depths, done) \/ Pending(fs, x, i)

WalkDone(fs, seen, depths, done) == DepthsKept(fs, seen, depths) /\ AllDone(fs, seen, seen, depths, done)

(* An object that is entered has all its members to come.                  *)
LEMMA EnterDone ==
  ASSUME NEW o \in Objects, NEW fs, NEW done, WalkShape(fs, visited, done),
         DepthsKept(fs, visited, metAt), AllDone(fs, visited, visited', metAt, done),
         Enter(o, fs), visited = {} => o = Top /\ fs = <<>>
  PROVE  WalkDone(frames', visited', metAt', done)
<1>1. /\ fs \in Seq(Frame) /\ visited \subseteq Objects /\ Len(fs) \in Nat
      /\ metAt \in [Objects -> Nat]
      /\ \A f \in 1 .. Len(fs) : fs[f].object \in visited
  BY DEF WalkShape, DepthsKept
<1>2. CASE frames' = fs /\ visited' = visited /\ metAt' = metAt
  BY <1>2 DEF WalkDone
<1>3. CASE /\ o \notin visited /\ visited' = visited \cup {o}
           /\ metAt' = [metAt EXCEPT ![o] = Len(fs)]
           /\ frames' = IF Enterable(o) THEN Append(fs, [object |-> o, next |-> 1]) ELSE fs
  <2> DEFINE new == [object |-> o, next |-> 1]
  <2>1. new \in Frame /\ new.object = o /\ new.next = 1
    BY DEF Frame
  <2> HIDE DEF new
  <2>2. /\ metAt' \in [Objects -> Nat] /\ metAt'[o] = Len(fs)
        /\ \A x \in visited : metAt'[x] = metAt[x]
    BY <1>1, <1>3
  <2>3. /\ Len(frames') \in Nat /\ \A f \in 1 .. Len(fs) : f \in 1 .. Len(frames') /\ frames'[f] = fs[f]
        /\ Enterable(o) => Len(frames') = Len(fs) + 1 /\ frames'[Len(fs) + 1] = new
        /\ ~ Enterable(o) => frames' = fs
    <3>1. CASE Enterable(o)
      <4>1. frames' = Append(fs, new)
        BY <1>3, <3>1 DEF new
      <4> QED
        BY <1>1, <2>1, <3>1, <4>1
    <3>2. CASE ~ Enterable(o)
      BY <1>1, <1>3, <3>2
    <3> QED
      BY <3>1, <3>2
  <2>4. \A f \in 1 .. Len(frames') : metAt'[frames'[f].object] = f - 1
    <3> TAKE f \in 1 .. Len(frames')
    <3>1. CASE f \in 1 .. Len(fs)
      <4>1. fs[f].object \in visited /\ metAt[fs[f].object] = f - 1
        BY <1>1, <3>1 DEF DepthsKept
      <4> QED
        BY <2>2, <2>3, <3>1, <4>1
    <3>2. CASE f \notin 1 .. Len(fs)
      <4>1. Enterable(o) /\ f = Len(fs) + 1
        BY <1>1, <2>3, <3>2
      <4> QED
        BY <1>1, <2>1, <2>2, <2>3, <4>1
    <3> QED
      BY <3>1, <3>2
  <2>5. Top \in visited' /\ metAt'[Top] = 0
    <3>1. CASE visited = {}
      <4>1. Len(fs) = 0
        BY <3>1
      <4> QED
        BY <1>3, <2>2, <3>1, <4>1
    <3>2. CASE visited # {}
      BY <1>3, <2>2, <3>2 DEF DepthsKept
    <3> QED
      BY <3>1, <3>2
  <2>6. ASSUME NEW x \in visited', Enterable(x), NEW i \in 1 .. Len(Members(x))
        PROVE  MemberDone(x, i, visited', metAt', done) \/ Pending(frames', x, i)
    <3>1. CASE x = o
      <4>1. i \in Nat /\ 1 <= i
        OBVIOUS
      <4>2. Len(fs) + 1 \in 1 .. Len(frames')
        BY <1>1, <2>3, <2>6, <3>1
      <4> QED
        BY <2>1, <2>3, <2>6, <3>1, <4>1, <4>2 DEF Pending
    <3>2. CASE x # o
      <4>1. x \in visited /\ metAt'[x] = metAt[x]
        BY <1>3, <2>2, <3>2
      <4>2. MemberDone(x, i, visited', metAt, done) \/ Pending(fs, x, i)
        BY <2>6, <4>1 DEF AllDone
      <4>3. CASE MemberDone(x, i, visited', metAt, done)
        BY <4>1, <4>3 DEF MemberDone
      <4>4. CASE Pending(fs, x, i)
        BY <2>3, <4>4 DEF Pending
      <4> QED
        BY <4>2, <4>3, <4>4
    <3> QED
      BY <3>1, <3>2
  <2> QED
    BY <2>2, <2>4, <2>5, <2>6 DEF WalkDone, DepthsKept, AllDone
<1> QED
  BY <1>2, <1>3 DEF Enter

WalkFacts == WalkIInv /\ WalkDone(frames, visited, metAt, scanned)

(* The innermost call deals with its next member.                          *)
LEMMA MemberIsDone ==
  ASSUME WalkFacts, ScanMember
  PROVE  WalkDone(frames', visited', metAt', scanned')
<1> DEFINE n     == Len(frames)
           top   == frames[n]
           x     == top.object
           k     == top.next
           m     == Members(x)[k]
           moved == [top EXCEPT !.next = @ + 1]
           below == [frames EXCEPT ![n] = moved]
<1>1. /\ frames \in Seq(Frame) /\ scanned \in Seq(Place) /\ visited \subseteq Objects
      /\ frames # <<>> /\ k <= Len(Members(x))
      /\ scanning \in States /\ WalkShape(frames, visited, scanned)
      /\ DepthsKept(frames, visited, metAt) /\ AllDone(frames, visited, visited, metAt, scanned)
  BY DEF WalkFacts, WalkIInv, WalkShape, WalkDone, ScanMember, Innermost
<1>2. n \in Nat \ {0} /\ n \in 1 .. n /\ top \in Frame
  BY <1>1
<1>3. below = [frames EXCEPT ![Len(frames)].next = @ + 1]
  BY <1>2
<1>4. /\ moved \in Frame /\ moved.object = x /\ moved.next = k + 1
      /\ x \in Objects /\ k \in Nat \ {0} /\ x \in visited
  <2>1. moved \in Frame /\ moved.object = x /\ moved.next = k + 1 /\ x \in Objects /\ k \in Nat \ {0}
    BY <1>2 DEF Frame
  <2>2. x \in visited
    BY <1>1, <1>2 DEF WalkShape
  <2> QED
    BY <2>1, <2>2
<1>5. k \in 1 .. Len(Members(x))
  BY <1>1, <1>4, MembersLen
<1>6. metAt[x] = n - 1 /\ metAt \in [Objects -> Nat]
  BY <1>1, <1>2 DEF DepthsKept
<1>7. \/ /\ IsText(m) /\ frames' = below /\ visited' = visited /\ metAt' = metAt
         /\ scanned' = IF InDepth(n) /\ m.text <= MaxScanSize
                         THEN Append(scanned, <<x, k>>) ELSE scanned
      \/ ~ IsText(m) /\ Enter(m.object, below) /\ scanned' = scanned
  BY <1>3 DEF ScanMember, Innermost
<1> HIDE DEF moved
<1>8. /\ below \in Seq(Frame) /\ Len(below) = n /\ below[n] = moved
      /\ \A f \in 1 .. n : f # n => below[f] = frames[f]
  BY <1>1, <1>2, <1>4
<1> HIDE DEF below
<1>9. \A f \in 1 .. n : below[f].object = frames[f].object
  BY <1>4, <1>8
<1>10. /\ visited \subseteq visited' /\ Len(scanned) \in Nat /\ Len(scanned') \in Nat
       /\ \A j \in 1 .. Len(scanned) : j \in 1 .. Len(scanned') /\ scanned'[j] = scanned[j]
  <2>1. visited \subseteq visited'
    BY <1>7 DEF Enter
  <2>2. <<x, k>> \in Place
    BY <1>4 DEF Place
  <2>3. scanned' = scanned \/ scanned' = Append(scanned, <<x, k>>)
    BY <1>7
  <2> DEFINE place == <<x, k>>
  <2> HIDE DEF place
  <2>4. /\ Len(scanned) \in Nat /\ Len(scanned') \in Nat
        /\ \A j \in 1 .. Len(scanned) : j \in 1 .. Len(scanned') /\ scanned'[j] = scanned[j]
    BY <1>1, <2>2, <2>3 DEF place
  <2> QED
    BY <2>1, <2>4
<1>11. MemberDone(x, k, visited', metAt, scanned')
  <2> SUFFICES ASSUME metAt[x] < MaxScanDepth
               PROVE  IF IsText(m)
                        THEN m.text <= MaxScanSize => \E j \in 1 .. Len(scanned') : scanned'[j] = <<x, k>>
                        ELSE m.object \in visited'
    BY DEF MemberDone
  <2>1. InDepth(n)
    BY <1>2, <1>6, StateWalkAssumption DEF InDepth
  <2>2. CASE IsText(m)
    <3> SUFFICES ASSUME m.text <= MaxScanSize
                 PROVE  \E j \in 1 .. Len(scanned') : scanned'[j] = <<x, k>>
      BY <2>2
    <3> DEFINE place == <<x, k>>
    <3>1. scanned' = Append(scanned, place) /\ place \in Place
      BY <1>4, <1>7, <2>1, <2>2 DEF Place
    <3> HIDE DEF place
    <3>2. Len(scanned) + 1 \in 1 .. Len(scanned') /\ scanned'[Len(scanned) + 1] = place
      BY <1>1, <3>1
    <3> QED
      BY <3>2 DEF place
  <2>3. CASE ~ IsText(m)
    <3>1. Enter(m.object, below)
      BY <1>7, <2>3
    <3> QED
      BY <1>8, <2>1, <2>3, <3>1 DEF Enter
  <2> QED
    BY <2>2, <2>3
<1>12. AllDone(below, visited, visited', metAt, scanned')
  <2> SUFFICES ASSUME NEW y \in visited, Enterable(y), NEW i \in 1 .. Len(Members(y))
               PROVE  MemberDone(y, i, visited', metAt, scanned') \/ Pending(below, y, i)
    BY DEF AllDone
  <2>1. CASE MemberDone(y, i, visited, metAt, scanned)
    <3> SUFFICES ASSUME metAt[y] < MaxScanDepth
                 PROVE  IF IsText(Members(y)[i])
                          THEN Members(y)[i].text <= MaxScanSize =>
                                 \E j \in 1 .. Len(scanned') : scanned'[j] = <<y, i>>
                          ELSE Members(y)[i].object \in visited'
      BY DEF MemberDone
    <3>1. IF IsText(Members(y)[i])
            THEN Members(y)[i].text <= MaxScanSize => \E j \in 1 .. Len(scanned) : scanned[j] = <<y, i>>
            ELSE Members(y)[i].object \in visited
      BY <2>1 DEF MemberDone
    <3>2. (\E j \in 1 .. Len(scanned) : scanned[j] = <<y, i>>) =>
            \E j \in 1 .. Len(scanned') : scanned'[j] = <<y, i>>
      BY <1>10
    <3> QED
      BY <1>10, <3>1, <3>2
  <2>2. CASE Pending(frames, y, i)
    <3>1. PICK f \in 1 .. n : frames[f].object = y /\ frames[f].next <= i
      BY <2>2 DEF Pending
    <3>2. CASE f # n
      BY <1>8, <3>1, <3>2 DEF Pending
    <3>3. CASE f = n
      <4>1. y = x /\ k <= i /\ i \in Int
        BY <3>1, <3>3
      <4>2. CASE i = k
        BY <1>11, <4>1, <4>2
      <4>3. CASE i # k
        <5>1. below[n].object = y /\ below[n].next <= i
          BY <1>4, <1>8, <4>1, <4>3
        <5> QED
          BY <1>2, <1>8, <5>1 DEF Pending
      <4> QED
        BY <4>2, <4>3
    <3> QED
      BY <3>2, <3>3
  <2> QED
    BY <1>1, <2>1, <2>2 DEF AllDone
<1>13. DepthsKept(below, visited, metAt)
  BY <1>1, <1>8, <1>9 DEF DepthsKept
<1>14. visited # {}
  BY <1>4
<1>15. CASE IsText(m)
  <2>1. frames' = below /\ visited' = visited /\ metAt' = metAt
    BY <1>7, <1>15
  <2> QED
    BY <1>12, <1>13, <2>1 DEF WalkDone
<1>16. CASE ~ IsText(m)
  <2>1. Enter(m.object, below) /\ scanned' = scanned
    BY <1>7, <1>16
  <2>2. m.object \in Objects
    BY <1>1, <1>4, <1>5, <1>16, MemberTyped
  <2>3. WalkShape(below, visited, scanned)
    <3>1. \A i \in 1 .. Len(scanned), f \in 1 .. n :
            below[f].object = scanned[i][1] => scanned[i][2] < below[f].next
      <4> SUFFICES ASSUME NEW i \in 1 .. Len(scanned), NEW f \in 1 .. n, below[f].object = scanned[i][1]
                   PROVE  scanned[i][2] < below[f].next
        OBVIOUS
      <4>1. scanned[i][2] < frames[f].next
        BY <1>1, <1>9 DEF WalkShape
      <4>2. CASE f # n
        BY <1>8, <4>1, <4>2
      <4>3. CASE f = n
        <5>1. scanned[i] \in Place
          BY <1>1
        <5>2. scanned[i][2] \in Nat
          BY <5>1 DEF Place
        <5> QED
          BY <1>4, <1>8, <4>1, <4>3, <5>2
      <4> QED
        BY <4>2, <4>3
    <3> QED
      BY <1>1, <1>8, <1>9, <3>1 DEF WalkShape
  <2> QED
    BY <1>12, <1>13, <1>14, <2>1, <2>2, <2>3, EnterDone
<1> QED
  BY <1>15, <1>16

(* A call that returns has nothing to come.                                *)
LEMMA ReturnIsDone ==
  ASSUME WalkFacts, ReturnScan
  PROVE  WalkDone(frames', visited', metAt', scanned')
<1>1. /\ frames \in Seq(Frame) /\ frames # <<>> /\ scanning \in States
      /\ frames' = SubSeq(frames, 1, Len(frames) - 1)
      /\ UNCHANGED <<visited, metAt, scanned>>
      /\ frames[Len(frames)].next > Len(Members(frames[Len(frames)].object))
      /\ DepthsKept(frames, visited, metAt) /\ AllDone(frames, visited, visited, metAt, scanned)
      /\ visited \subseteq Objects
  BY DEF WalkFacts, WalkDone, WalkIInv, WalkShape, ReturnScan, Front, Innermost
<1>2. Len(frames) \in Nat \ {0} /\ Len(frames) - 1 \in 0 .. Len(frames)
  BY <1>1
<1>3. /\ Len(frames') = Len(frames) - 1
      /\ \A f \in 1 .. Len(frames) - 1 : frames'[f] = frames[f]
  BY ZenonT(60), <1>1, <1>2, Halves
<1>4. ASSUME NEW y \in visited, NEW i \in 1 .. Len(Members(y)), Pending(frames, y, i)
      PROVE  Pending(frames', y, i)
  <2>1. PICK f \in 1 .. Len(frames) : frames[f].object = y /\ frames[f].next <= i
    BY <1>4 DEF Pending
  <2>2. frames[f] \in Frame /\ Len(Members(y)) \in Nat
    BY <1>1, MembersLen
  <2>3. frames[f].next \in Nat
    BY <2>2 DEF Frame
  <2>4. f # Len(frames)
    BY <1>1, <2>1, <2>2, <2>3
  <2>5. f \in 1 .. Len(frames') /\ frames'[f] = frames[f]
    BY <1>2, <1>3, <2>4
  <2> QED
    BY <2>1, <2>5 DEF Pending
<1>5. AllDone(frames', visited, visited, metAt, scanned)
  BY <1>1, <1>4 DEF AllDone
<1>6. DepthsKept(frames', visited, metAt)
  <2>1. \A f \in 1 .. Len(frames') : f \in 1 .. Len(frames) /\ frames'[f] = frames[f]
    BY <1>2, <1>3
  <2> QED
    BY <1>1, <2>1 DEF DepthsKept
<1> QED
  BY <1>1, <1>5, <1>6 DEF WalkDone

(* Enterable, of any state.                                                *)
EnterableIn(s, o) ==
  s.kind[o] = "object" =>
    MapThenSumSet(
      LAMBDA x : FoldLeft(LAMBDA sum, m : IF IsText(m) THEN sum + m.text ELSE sum, 0, s.members[x]),
      LET down[d \in Nat] ==
            IF d = 0 THEN {o}
            ELSE down[d - 1] \cup
                   UNION {{m.object : m \in {n \in Range(s.members[x]) : ~IsText(n)}} : x \in down[d - 1]}
      IN  down[Cardinality(Objects)]) <= MaxScanSize

(* It is Enterable, of the state that is scanned.                          *)
LEMMA EnterableNow == \A o : Enterable(o) <=> EnterableIn(scanning, o)
BY Zenon DEF Enterable, EnterableIn, ApproxSize, Below, Held, Members, MapThenSumSet, MapThenFoldSet, FoldLeft

(* The same of the next state.                                             *)
LEMMA EnterableNext == \A o : Enterable(o)' <=> EnterableIn(scanning', o)
BY Zenon DEF Enterable, EnterableIn, ApproxSize, Below, Held, Members, MapThenSumSet, MapThenFoldSet, FoldLeft

(* Nothing but the state says what may be entered.                         *)
LEMMA FactsKept ==
  ASSUME scanning' = scanning, WalkIInv', WalkDone(frames', visited', metAt', scanned')
  PROVE  WalkFacts'
<1>1. ASSUME NEW x PROVE Members(x)' = Members(x)
  BY DEF Members
<1>2. ASSUME NEW x PROVE Enterable(x)' <=> Enterable(x)
  BY EnterableNow, EnterableNext
<1>3. ASSUME NEW x \in visited', NEW i, MemberDone(x, i, visited', metAt', scanned')
      PROVE  MemberDone(x, i, visited, metAt, scanned)'
  BY <1>3 DEF MemberDone, Members
<1>4. AllDone(frames, visited, visited, metAt, scanned)'
  <2> SUFFICES ASSUME NEW x \in visited', Enterable(x)', NEW i \in 1 .. Len(Members(x)')
               PROVE  MemberDone(x, i, visited, metAt, scanned)' \/ Pending(frames, x, i)'
    BY DEF AllDone
  <2>1. MemberDone(x, i, visited', metAt', scanned') \/ Pending(frames', x, i)
    BY <1>1, <1>2 DEF WalkDone, AllDone
  <2>2. Pending(frames', x, i) => Pending(frames, x, i)'
    BY DEF Pending
  <2> QED
    BY <1>3, <2>1, <2>2
<1>5. DepthsKept(frames, visited, metAt)'
  BY DEF WalkDone, DepthsKept
<1> QED
  BY <1>4, <1>5 DEF WalkFacts, WalkDone

(* An object that was entered and whose call returned is done with.        *)
LEMMA ReturnedDone ==
  ASSUME WalkFacts, frames = <<>>, NEW x \in visited, Enterable(x), metAt[x] < MaxScanDepth,
         NEW i \in 1 .. Len(Members(x))
  PROVE  IF IsText(Members(x)[i])
           THEN Members(x)[i].text <= MaxScanSize => <<x, i>> \in Range(scanned)
           ELSE Members(x)[i].object \in visited
<1>1. Len(frames) = 0 /\ DOMAIN scanned = 1 .. Len(scanned)
  BY DEF WalkFacts, WalkIInv, WalkShape
<1>2. ~ Pending(frames, x, i)
  BY <1>1 DEF Pending
<1>3. MemberDone(x, i, visited, metAt, scanned)
  BY <1>2 DEF WalkFacts, WalkDone, AllDone
<1> QED
  BY <1>1, <1>3 DEF MemberDone, Range

(* If no object above o was met by a way longer than another, each object  *)
(* above o was met as early as it is reached.                              *)
LEMMA MetAsReached ==
  ASSUME WalkFacts, frames = <<>>, visited # {}, NEW o \in Objects,
         \A a \in visited : metAt[a] > 0 /\ a \in Reached[metAt[a] - 1] => o \notin Below(a)
  PROVE  \A d \in Nat : d < MaxScanDepth =>
           \A y \in Reached[d] : o \in Below(y) => y \in visited /\ metAt[y] <= d
<1> DEFINE T == {d \in Nat : d < MaxScanDepth =>
                   \A y \in Reached[d] : o \in Below(y) => y \in visited /\ metAt[y] <= d}
<1>1. /\ scanning \in States /\ visited \subseteq Objects /\ metAt \in [Objects -> Nat]
      /\ Top \in visited /\ metAt[Top] = 0 /\ MaxScanDepth \in Nat
  BY StateWalkAssumption DEF WalkFacts, WalkIInv, WalkShape, WalkDone, DepthsKept
<1>2. Grows(Reached, Entering, {Top})
  BY <1>1, ReachedGrows
<1>3. \A d \in Nat : Reached[d] \subseteq Objects
  BY <1>1, ReachedObjects
<1>4. 0 \in T
  BY <1>1, <1>2, GrowthStep
<1>5. ASSUME NEW d \in T PROVE d + 1 \in T
  <2> SUFFICES ASSUME d + 1 < MaxScanDepth, NEW y \in Reached[d + 1], o \in Below(y)
               PROVE  y \in visited /\ metAt[y] <= d + 1
    OBVIOUS
  <2>1. d \in Nat /\ d < MaxScanDepth
    BY <1>1
  <2>2. \A z \in Reached[d] : o \in Below(z) => z \in visited /\ metAt[z] <= d /\ metAt[z] \in Nat
    BY <1>1, <2>1
  <2>3. CASE y \in Reached[d]
    BY <2>1, <2>2, <2>3
  <2>4. CASE y \notin Reached[d]
    <3>1. PICK x \in Reached[d] : y \in Entering[x]
      BY <1>2, <2>1, <2>4, GrowthStep
    <3>2. x \in Objects /\ Enterable(x) /\ y \in Held(x)
      BY <1>3, <2>1, <3>1 DEF Entering
    <3>3. o \in Below(x)
      BY <1>1, <3>2, BelowHeld
    <3>4. x \in visited /\ metAt[x] <= d /\ metAt[x] \in Nat
      BY <2>2, <3>3
    <3>5. y \in visited
      <4>1. PICK i \in 1 .. Len(Members(x)) : ~ IsText(Members(x)[i]) /\ Members(x)[i].object = y
        BY <1>1, <3>2, HeldObjects
      <4>2. metAt[x] < MaxScanDepth
        BY <1>1, <2>1, <3>4
      <4> QED
        BY <3>2, <3>4, <4>1, <4>2, ReturnedDone
    <3>6. metAt[y] <= d + 1
      <4> SUFFICES ASSUME ~ metAt[y] <= d + 1 PROVE FALSE
        OBVIOUS
      <4>1. metAt[y] \in Nat /\ metAt[y] > 0 /\ metAt[y] - 1 \in Nat /\ d + 1 <= metAt[y] - 1
        BY <1>1, <2>1, <3>5
      <4>2. Reached[d + 1] \subseteq Reached[metAt[y] - 1]
        BY <1>2, <2>1, <4>1, GrowthKeeps
      <4> QED
        BY <3>5, <4>1, <4>2
    <3> QED
      BY <3>5, <3>6
  <2> QED
    BY <2>3, <2>4
<1>6. T = Nat
  <2>1. T \subseteq Nat
    OBVIOUS
  <2> HIDE DEF T
  <2> QED
    BY <1>4, <1>5, <2>1, AllNumbers
<1> QED
  BY <1>6

(* A string within the limits that a walk passes over lies in an object    *)
(* that was first met by a longer way than the shortest, or below one.     *)
LEMMA PassedOverExplained ==
  ASSUME WalkFacts
  PROVE  MissedExplained
<1> SUFFICES ASSUME frames = <<>>, visited # {}, NEW o \in Objects, NEW i \in DOMAIN Members(o),
                    IsText(Members(o)[i]), Members(o)[i].text <= MaxScanSize, Enterable(o),
                    MaxScanDepth > 0, o \in Reached[MaxScanDepth - 1],
                    <<o, i>> \notin Range(scanned),
                    \A a \in visited : metAt[a] > 0 /\ a \in Reached[metAt[a] - 1] => o \notin Below(a)
             PROVE  FALSE
  BY DEF MissedExplained
<1>1. MaxScanDepth - 1 \in Nat /\ MaxScanDepth \in Nat /\ MaxScanDepth - 1 < MaxScanDepth
  BY StateWalkAssumption
<1>2. scanning \in States /\ metAt \in [Objects -> Nat]
  BY DEF WalkFacts, WalkIInv, WalkDone, DepthsKept
<1>3. o \in visited /\ metAt[o] <= MaxScanDepth - 1
  BY <1>1, <1>2, MetAsReached, BelowClosed
<1>4. i \in 1 .. Len(Members(o))
  <2>1. Members(o) \in Seq([object : Objects] \cup [text : Nat])
    BY <1>2, StateWalkAssumption DEF Members
  <2> QED
    BY <2>1
<1>5. metAt[o] < MaxScanDepth
  BY <1>1, <1>2, <1>3
<1> QED
  BY <1>3, <1>4, <1>5, ReturnedDone

(* A walk scans no string twice, and passes one over that is within the    *)
(* limits by some way only where an object was first met by a longer one:  *)
(* for every state, depth and size (scanner.ts:120-191).                   *)
THEOREM WalkSoundHolds == GuardSpec => []WalkSound
<1>1. GuardInit => WalkFacts
  <2> SUFFICES ASSUME WalkInit PROVE WalkFacts
    BY PartsStart
  <2>1. /\ scanning \in States /\ frames = <<>> /\ visited = {} /\ scanned = <<>>
        /\ metAt = [o \in Objects |-> 0]
    BY DEF WalkInit
  <2>2. <<>> \in Seq(Frame) /\ <<>> \in Seq(Place) /\ Len(<<>>) = 0
    OBVIOUS
  <2>3. WalkIInv
    BY <2>1, <2>2 DEF WalkIInv, WalkShape
  <2>4. WalkDone(frames, visited, metAt, scanned)
    BY <2>1, <2>2 DEF WalkDone, DepthsKept, AllDone
  <2> QED
    BY <2>3, <2>4 DEF WalkFacts
<1>2. WalkFacts /\ WalkIInv' /\ [GuardNext]_all => WalkFacts'
  <2> SUFFICES ASSUME WalkFacts, WalkIInv', [WalkNext]_walking PROVE WalkFacts'
    BY PartsStep
  <2>1. CASE UNCHANGED walking
    <3>1. WalkDone(frames', visited', metAt', scanned')
      BY <2>1 DEF walking, WalkFacts
    <3> QED
      BY <2>1, <3>1, FactsKept DEF walking
  <2>2. CASE ScanState
    <3>1. visited = {} /\ Enter(Top, <<>>) /\ UNCHANGED <<scanning, scanned>>
      BY <2>2 DEF ScanState
    <3>2. <<>> \in Seq(Frame) /\ Len(<<>>) = 0 /\ Top \in Objects
      BY StateWalkAssumption
    <3>3. WalkShape(<<>>, visited, scanned) /\ metAt \in [Objects -> Nat]
      BY <3>2 DEF WalkFacts, WalkIInv, WalkShape, WalkDone, DepthsKept
    <3>4. DepthsKept(<<>>, visited, metAt) /\ AllDone(<<>>, visited, visited', metAt, scanned)
      BY <3>1, <3>2, <3>3 DEF DepthsKept, AllDone
    <3>5. WalkDone(frames', visited', metAt', scanned)
      BY <3>1, <3>2, <3>3, <3>4, EnterDone
    <3> QED
      BY <3>1, <3>5, FactsKept
  <2>3. CASE ScanMember
    BY <2>3, MemberIsDone, FactsKept DEF ScanMember
  <2>4. CASE ReturnScan
    BY <2>4, ReturnIsDone, FactsKept DEF ReturnScan
  <2> QED
    BY <2>1, <2>2, <2>3, <2>4 DEF WalkNext
<1>3. WalkFacts => MissedExplained
  BY PassedOverExplained
<1> QED
  BY <1>1, <1>2, <1>3, WalkHolds, ScannedOnceHolds, PTL DEF GuardSpec, WalkSound, all

(***************************************************************************)
(* The ends of sequences, pointwise.                                       *)
(***************************************************************************)

Chars == Units \cup Astral

EndOf(s, w) == Len(s) <= Len(w) /\ \A i \in 1 .. Len(s) : s[i] = w[Len(w) - Len(s) + i]

(* Ends are ordered by their length.                                       *)
LEMMA EndsCompare ==
  ASSUME NEW S, NEW s \in Seq(S), NEW t \in Seq(S), NEW w \in Seq(S),
         EndOf(s, w), EndOf(t, w), Len(s) <= Len(t)
  PROVE  EndOf(s, t) /\ (Len(s) = Len(t) => s = t)
<1> DEFINE a == Len(s)
           b == Len(t)
           n == Len(w)
<1>1. a \in Nat /\ b \in Nat /\ n \in Nat /\ a <= b /\ b <= n
  BY DEF EndOf
<1>2. ASSUME NEW i \in 1 .. a PROVE s[i] = t[b - a + i]
  <2>1. b - a + i \in 1 .. b
    BY <1>1
  <2>2. t[b - a + i] = w[n - b + (b - a + i)] /\ s[i] = w[n - a + i]
    BY <2>1 DEF EndOf
  <2>3. n - b + (b - a + i) = n - a + i
    BY <1>1
  <2> QED
    BY <2>2, <2>3
<1>3. EndOf(s, t)
  BY <1>1, <1>2 DEF EndOf
<1>4. ASSUME a = b PROVE s = t
  <2>1. \A i \in 1 .. a : s[i] = t[i]
    BY <1>1, <1>2, <1>4
  <2> QED
    BY <2>1, <1>4, SeqEqual
<1> QED
  BY <1>3, <1>4

(* An end of an end is an end.                                             *)
LEMMA EndsLead ==
  ASSUME NEW S, NEW s \in Seq(S), NEW t \in Seq(S), NEW w \in Seq(S),
         EndOf(s, t), EndOf(t, w)
  PROVE  EndOf(s, w)
<1> DEFINE a == Len(s)
           b == Len(t)
           n == Len(w)
<1>1. a \in Nat /\ b \in Nat /\ n \in Nat /\ a <= b /\ b <= n
  BY DEF EndOf
<1>2. ASSUME NEW i \in 1 .. a PROVE s[i] = w[n - a + i]
  <2>1. b - a + i \in 1 .. b
    BY <1>1
  <2>2. t[b - a + i] = w[n - b + (b - a + i)] /\ s[i] = t[b - a + i]
    BY <2>1 DEF EndOf
  <2>3. n - b + (b - a + i) = n - a + i
    BY <1>1
  <2> QED
    BY <2>2, <2>3
<1> QED
  BY <1>1, <1>2 DEF EndOf

(* A sequence is an end of itself, and the empty one of each.              *)
LEMMA EndsOwn ==
  ASSUME NEW S, NEW w \in Seq(S)
  PROVE  EndOf(w, w) /\ EndOf(<<>>, w) /\ <<>> \in Seq(S)
         /\ \A s \in Seq(S) : EndOf(s, <<>>) => s = <<>>
BY DEF EndOf

(* A sequence that is not empty is its front and its last element.         *)
LEMMA FrontAndLast ==
  ASSUME NEW S, NEW s \in Seq(S), s # <<>>
  PROVE  /\ Front(s) \in Seq(S) /\ Last(s) \in S /\ Len(Front(s)) = Len(s) - 1
         /\ \A i \in 1 .. Len(s) - 1 : Front(s)[i] = s[i]
         /\ s = Append(Front(s), Last(s))
         /\ Len(s) \in Nat \ {0}
<1>1. Len(s) \in Nat \ {0}
  OBVIOUS
<1>2. Len(s) - 1 \in 0 .. Len(s) /\ Front(s) = SubSeq(s, 1, Len(s) - 1)
  BY <1>1 DEF Front
<1>3. /\ Front(s) \in Seq(S) /\ Len(Front(s)) = Len(s) - 1
      /\ \A i \in 1 .. Len(s) - 1 : Front(s)[i] = s[i]
  <2> DEFINE l == Len(s) - 1
  <2>1. l \in 0 .. Len(s) /\ Front(s) = SubSeq(s, 1, l)
    BY <1>2
  <2> HIDE DEF l
  <2>2. /\ Front(s) \in Seq(S) /\ Len(Front(s)) = l
        /\ \A i \in 1 .. l : Front(s)[i] = s[i]
    BY <2>1, Halves
  <2> QED
    BY <2>2 DEF l
<1>4. Last(s) \in S
  BY <1>1 DEF Last
<1>5. s = Append(Front(s), Last(s))
  <2>1. Append(Front(s), Last(s)) \in Seq(S) /\ Len(Append(Front(s), Last(s))) = Len(s)
    BY <1>1, <1>3, <1>4
  <2>2. ASSUME NEW i \in 1 .. Len(s) PROVE Append(Front(s), Last(s))[i] = s[i]
    BY <1>1, <1>3, <1>4 DEF Last
  <2> QED
    BY <2>1, <2>2, SeqEqual
<1> QED
  BY <1>1, <1>3, <1>4, <1>5

(* And each such pair is the front and the last of one.                    *)
LEMMA FrontOfAppend ==
  ASSUME NEW S, NEW s \in Seq(S), NEW c \in S
  PROVE  /\ Append(s, c) \in Seq(S) /\ Append(s, c) # <<>> /\ Len(Append(s, c)) = Len(s) + 1
         /\ Front(Append(s, c)) = s /\ Last(Append(s, c)) = c
<1>1. /\ Append(s, c) \in Seq(S) /\ Len(Append(s, c)) = Len(s) + 1 /\ Len(s) \in Nat
      /\ Append(s, c)[Len(s) + 1] = c /\ \A i \in 1 .. Len(s) : Append(s, c)[i] = s[i]
  OBVIOUS
<1>2. Append(s, c) # <<>>
  BY <1>1
<1>3. Front(Append(s, c)) = s
  <2>1. /\ Front(Append(s, c)) \in Seq(S) /\ Len(Front(Append(s, c))) = Len(s)
        /\ \A i \in 1 .. Len(s) : Front(Append(s, c))[i] = s[i]
    <3>1. /\ Front(Append(s, c)) \in Seq(S)
          /\ Len(Front(Append(s, c))) = Len(Append(s, c)) - 1
          /\ \A i \in 1 .. Len(Append(s, c)) - 1 : Front(Append(s, c))[i] = Append(s, c)[i]
      BY <1>1, <1>2, FrontAndLast
    <3> QED
      BY <3>1, <1>1
  <2> QED
    BY <2>1, SeqEqual
<1> QED
  BY <1>1, <1>2, <1>3 DEF Last

(* An end that is not empty of a word and a character is an end of the     *)
(* word and that character.                                                *)
LEMMA EndsOfAppend ==
  ASSUME NEW S, NEW s \in Seq(S), NEW w \in Seq(S), NEW c \in S, s # <<>>
  PROVE  EndOf(s, Append(w, c)) <=> EndOf(Front(s), w) /\ Last(s) = c
<1> DEFINE a == Len(s)
           n == Len(w)
           v == Append(w, c)
           f == Front(s)
<1>1. a \in Nat /\ a > 0 /\ n \in Nat
  BY FrontAndLast
<1>2. Len(v) = n + 1 /\ v[n + 1] = c /\ \A i \in 1 .. n : v[i] = w[i]
  OBVIOUS
<1>3. Len(f) = a - 1 /\ \A i \in 1 .. a - 1 : f[i] = s[i]
  BY FrontAndLast
<1>4. Last(s) = s[a]
  BY DEF Last
<1> HIDE DEF a, n, v, f
<1>5. ASSUME a <= n + 1, NEW i \in 1 .. a - 1
      PROVE  /\ (a - 1) <= n /\ n - (a - 1) + i \in 1 .. n /\ n + 1 - a + i = n - (a - 1) + i
             /\ i \in 1 .. a
  BY <1>1, <1>5
<1>6. ASSUME EndOf(s, v) PROVE EndOf(f, w) /\ Last(s) = c
  <2>1. a <= n + 1 /\ \A i \in 1 .. a : s[i] = v[n + 1 - a + i]
    BY <1>1, <1>2, <1>6 DEF EndOf, a
  <2>2. n + 1 - a + a = n + 1 /\ a \in 1 .. a
    BY <1>1
  <2>3. Last(s) = c
    BY <2>1, <2>2, <1>2, <1>4
  <2>4. ASSUME NEW i \in 1 .. a - 1 PROVE f[i] = w[n - (a - 1) + i]
    BY <2>1, <1>2, <1>3, <1>5
  <2> QED
    <3>1. Len(f) <= n
      BY <1>1, <1>3, <2>1
    <3>2. \A i \in 1 .. Len(f) : f[i] = w[n - Len(f) + i]
      BY <1>3, <2>4
    <3>3. EndOf(f, w)
      BY <3>1, <3>2 DEF EndOf, n
    <3> QED
      BY <2>3, <3>3
<1>7. ASSUME EndOf(f, w), Last(s) = c PROVE EndOf(s, v)
  <2>1. a - 1 <= n /\ \A i \in 1 .. a - 1 : f[i] = w[n - (a - 1) + i]
    BY <1>3, <1>7 DEF EndOf, n
  <2>2. ASSUME NEW i \in 1 .. a PROVE s[i] = v[n + 1 - a + i]
    <3>1. CASE i = a
      BY <3>1, <1>1, <1>2, <1>4, <1>7
    <3>2. CASE i # a
      <4>1. i \in 1 .. a - 1 /\ a <= n + 1
        BY <3>2, <1>1, <2>1
      <4> QED
        BY <4>1, <2>1, <1>2, <1>3, <1>5
    <3> QED
      BY <3>1, <3>2
  <2> QED
    <3>1. a <= Len(v) /\ Len(v) - a = n + 1 - a
      BY <1>1, <1>2, <2>1
    <3>2. \A i \in 1 .. a : s[i] = v[Len(v) - a + i]
      BY <1>2, <2>2, <3>1
    <3> QED
      BY <3>1, <3>2 DEF EndOf, a
<1> QED
  BY <1>6, <1>7 DEF v, f

(* The ends of a word but itself are the ends of its tail.                 *)
LEMMA EndsOfTail ==
  ASSUME NEW S, NEW s \in Seq(S), NEW w \in Seq(S), w # <<>>
  PROVE  /\ Tail(w) \in Seq(S) /\ Len(Tail(w)) = Len(w) - 1
         /\ EndOf(s, Tail(w)) <=> EndOf(s, w) /\ s # w
<1> DEFINE a == Len(s)
           n == Len(w)
           t == Tail(w)
<1>1. a \in Nat /\ n \in Nat /\ n > 0
  OBVIOUS
<1>2. t \in Seq(S) /\ Len(t) = n - 1 /\ \A i \in 1 .. n - 1 : t[i] = w[i + 1]
  OBVIOUS
<1> HIDE DEF a, n, t
<1>3. ASSUME NEW i \in 1 .. a, a <= n - 1
      PROVE  n - 1 - a + i \in 1 .. n - 1 /\ n - 1 - a + i + 1 = n - a + i
  BY <1>1, <1>3
<1>4. ASSUME a <= n - 1 PROVE EndOf(s, t) <=> EndOf(s, w)
  <2>1. a <= n
    BY <1>1, <1>4
  <2>2. \A i \in 1 .. a : t[n - 1 - a + i] = w[n - a + i]
    BY <1>2, <1>3, <1>4
  <2> QED
    BY <2>1, <2>2, <1>2, <1>4 DEF EndOf, a, n
<1>5. ASSUME EndOf(s, w), s # w PROVE a <= n - 1
  <2>1. a <= n
    BY <1>5 DEF EndOf, a, n
  <2>2. a # n
    <3> SUFFICES ASSUME a = n PROVE FALSE
      OBVIOUS
    <3>1. \A i \in 1 .. n : s[i] = w[i]
      BY <1>1, <1>5 DEF EndOf, a, n
    <3> QED
      BY <3>1, <1>5, SeqEqual DEF a, n
  <2> QED
    BY <2>1, <2>2, <1>1
<1>6. EndOf(s, t) => a <= n - 1
  BY <1>2 DEF EndOf, a
<1>7. a <= n - 1 => s # w
  BY <1>1 DEF a, n
<1> QED
  BY <1>2, <1>4, <1>5, <1>6, <1>7 DEF t, n

(* The tail of a word and a character.                                     *)
LEMMA TailOfAppend ==
  ASSUME NEW S, NEW w \in Seq(S), NEW c \in S, w # <<>>
  PROVE  Tail(Append(w, c)) = Append(Tail(w), c)
<1>1. Len(w) \in Nat /\ Len(w) > 0
  OBVIOUS
<1>2. Tail(Append(w, c)) \in Seq(S) /\ Append(Tail(w), c) \in Seq(S)
  OBVIOUS
<1>3. Len(Tail(Append(w, c))) = Len(w) /\ Len(Append(Tail(w), c)) = Len(w)
  BY <1>1
<1>4. \A i \in 1 .. Len(w) : Tail(Append(w, c))[i] = Append(Tail(w), c)[i]
  BY <1>1
<1> QED
  BY <1>2, <1>3, <1>4, SeqEqual

(***************************************************************************)
(* The trie.                                                               *)
(***************************************************************************)

(* The beginnings of a keyword are finitely many words, the keyword among  *)
(* them, and with one comes the one it is a character longer than.         *)
LEMMA PrefixesTyped ==
  ASSUME NEW S, NEW k \in Seq(S)
  PROVE  /\ Prefixes(k) \subseteq Seq(S) /\ k \in Prefixes(k) /\ IsFiniteSet(Prefixes(k))
         /\ \A n \in Prefixes(k) : n # <<>> => Front(n) \in Prefixes(k)
<1>1. Len(k) \in Nat
  OBVIOUS
<1>2. Prefixes(k) = {SubSeq(k, 1, l) : l \in 0 .. Len(k)}
  BY DEF Prefixes
<1>3. Prefixes(k) \subseteq Seq(S)
  BY <1>2, Halves
<1>4. k \in Prefixes(k)
  <2>1. Len(k) \in 0 .. Len(k)
    BY <1>1
  <2>2. SubSeq(k, 1, Len(k)) = k
    BY <2>1, Halves, SeqEqual
  <2> QED
    BY <1>2, <2>1, <2>2
<1>5. IsFiniteSet(Prefixes(k))
  <2> DEFINE f == [l \in 0 .. Len(k) |-> SubSeq(k, 1, l)]
  <2>1. IsFiniteSet(0 .. Len(k))
    BY <1>1, FS_Interval
  <2>2. f \in Surjection(0 .. Len(k), Prefixes(k))
    BY <1>2 DEF Surjection
  <2> QED
    BY <2>1, <2>2, FS_Surjection
<1>6. ASSUME NEW n \in Prefixes(k), n # <<>> PROVE Front(n) \in Prefixes(k)
  <2>1. PICK l \in 0 .. Len(k) : n = SubSeq(k, 1, l)
    BY <1>2
  <2>2. n \in Seq(S) /\ Len(n) = l /\ \A i \in 1 .. l : n[i] = k[i]
    BY <2>1, Halves
  <2>3. l - 1 \in 0 .. Len(k)
    BY <1>6, <2>2, <1>1
  <2>4. /\ Front(n) \in Seq(S) /\ Len(Front(n)) = l - 1
        /\ \A i \in 1 .. l - 1 : Front(n)[i] = n[i]
    BY <1>6, <2>2, FrontAndLast
  <2>5. /\ SubSeq(k, 1, l - 1) \in Seq(S) /\ Len(SubSeq(k, 1, l - 1)) = l - 1
        /\ \A i \in 1 .. l - 1 : SubSeq(k, 1, l - 1)[i] = k[i]
    BY <2>3, Halves
  <2>6. \A i \in 1 .. l - 1 : Front(n)[i] = SubSeq(k, 1, l - 1)[i]
    BY <2>2, <2>3, <2>4, <2>5
  <2>7. Front(n) = SubSeq(k, 1, l - 1)
    BY <2>4, <2>5, <2>6, SeqEqual
  <2> QED
    BY <1>2, <2>3, <2>7
<1> QED
  BY <1>3, <1>4, <1>5, <1>6

KeywordsTyped == keywords \in Seq(Seq(Chars))

(* The nodes of a trie: finitely many words, with each the one it is a     *)
(* character longer than, and every keyword among them.                    *)
LEMMA NodesTyped ==
  ASSUME KeywordsTyped
  PROVE  /\ Root \in Nodes /\ Nodes \subseteq Seq(Chars) /\ IsFiniteSet(Nodes)
         /\ NoNode \notin Nodes
         /\ \A n \in Nodes : n # Root => Front(n) \in Nodes
         /\ \A i \in DOMAIN keywords : keywords[i] \in Nodes
<1>1. Range(keywords) \subseteq Seq(Chars)
  BY DEF KeywordsTyped, Range
<1>2. Root \in Nodes
  BY DEF Nodes
<1>3. \A n : n \in Nodes <=> n = Root \/ \E k \in Range(keywords) : n \in Prefixes(k)
  BY DEF Nodes
<1>4. Nodes \subseteq Seq(Chars)
  <2>1. \A k \in Range(keywords) : Prefixes(k) \subseteq Seq(Chars)
    BY <1>1, PrefixesTyped
  <2>2. Root \in Seq(Chars)
    BY DEF Root
  <2> QED
    BY <1>3, <2>1, <2>2
<1>5. NoNode \notin Nodes
  BY <1>4, AhoCorasickAssumption DEF Chars
<1>6. \A n \in Nodes : n # Root => Front(n) \in Nodes
  BY <1>1, <1>3, PrefixesTyped DEF Root
<1>7. \A i \in DOMAIN keywords : keywords[i] \in Nodes
  <2> SUFFICES ASSUME NEW i \in DOMAIN keywords PROVE keywords[i] \in Nodes
    OBVIOUS
  <2>1. keywords[i] \in Range(keywords)
    BY DEF Range
  <2> QED
    BY <1>1, <1>3, <2>1, PrefixesTyped
<1>8. IsFiniteSet(Nodes)
  <2> DEFINE P == {Prefixes(k) : k \in Range(keywords)}
  <2>1. IsFiniteSet(1 .. Len(keywords)) /\ DOMAIN keywords = 1 .. Len(keywords)
    BY FS_Interval DEF KeywordsTyped
  <2>2. IsFiniteSet(P)
    <3> DEFINE f == [i \in 1 .. Len(keywords) |-> Prefixes(keywords[i])]
    <3>1. f \in Surjection(1 .. Len(keywords), P)
      BY <2>1 DEF Surjection, Range
    <3> QED
      BY <2>1, <3>1, FS_Surjection
  <2>3. \A T \in P : IsFiniteSet(T)
    BY <1>1, PrefixesTyped
  <2>4. IsFiniteSet(UNION P)
    BY <2>2, <2>3, FS_UNION
  <2>5. IsFiniteSet({Root})
    BY FS_Singleton
  <2> QED
    BY <2>4, <2>5, FS_Union DEF Nodes
<1> QED
  BY <1>2, <1>4, <1>5, <1>6, <1>7, <1>8

(* The children of a node are the nodes it is the front of.                *)
LEMMA ChildrenHaveFront ==
  ASSUME KeywordsTyped, NEW n \in Nodes, NEW c \in Nodes
  PROVE  c \in ChildrenOf(n) <=> c # Root /\ Front(c) = n
<1>1. n \in Seq(Chars) /\ c \in Seq(Chars) /\ Len(n) \in Nat /\ Len(c) \in Nat
  BY NodesTyped
<1>2. c \in ChildrenOf(n) <=> Len(c) = Len(n) + 1 /\ IsPrefix(n, c)
  BY DEF ChildrenOf
<1>3. ASSUME c # Root PROVE Len(Front(c)) = Len(c) - 1 /\ Front(c) \in Seq(Chars)
                            /\ \A i \in 1 .. Len(c) - 1 : Front(c)[i] = c[i]
  BY <1>1, <1>3, FrontAndLast DEF Root
<1>4. ASSUME Len(c) = Len(n) + 1 PROVE IsPrefix(n, c) <=> \A i \in 1 .. Len(n) : n[i] = c[i]
  <2>1. Len(n) \in 0 .. Len(n) /\ Len(n) \in 0 .. Len(c) /\ Len(n) <= Len(c)
    BY <1>1, <1>4
  <2>2. /\ SubSeq(n, 1, Len(n)) \in Seq(Chars) /\ Len(SubSeq(n, 1, Len(n))) = Len(n)
        /\ \A i \in 1 .. Len(n) : SubSeq(n, 1, Len(n))[i] = n[i]
    BY <1>1, <2>1, Halves
  <2>3. /\ SubSeq(c, 1, Len(n)) \in Seq(Chars) /\ Len(SubSeq(c, 1, Len(n))) = Len(n)
        /\ \A i \in 1 .. Len(n) : SubSeq(c, 1, Len(n))[i] = c[i]
    BY <1>1, <2>1, Halves
  <2>4. SubSeq(n, 1, Len(n)) = SubSeq(c, 1, Len(n)) <=> \A i \in 1 .. Len(n) : n[i] = c[i]
    BY <2>2, <2>3, SeqEqual
  <2> QED
    BY <2>1, <2>4 DEF IsPrefix
<1>5. ASSUME c \in ChildrenOf(n) PROVE c # Root /\ Front(c) = n
  <2>1. Len(c) = Len(n) + 1 /\ \A i \in 1 .. Len(n) : n[i] = c[i]
    BY <1>2, <1>4, <1>5
  <2>2. c # Root
    BY <1>1, <2>1 DEF Root
  <2>3. Len(Front(c)) = Len(n) /\ \A i \in 1 .. Len(n) : Front(c)[i] = n[i]
    BY <1>1, <1>3, <2>1, <2>2
  <2> QED
    BY <1>1, <1>3, <2>2, <2>3, SeqEqual
<1>6. ASSUME c # Root, Front(c) = n PROVE c \in ChildrenOf(n)
  BY <1>1, <1>2, <1>3, <1>4, <1>6
<1> QED
  BY <1>5, <1>6

(* A finite set as a sequence: each of its elements, once.                 *)
LEMMA SetToSeqLists ==
  ASSUME NEW S, IsFiniteSet(S)
  PROVE  /\ SetToSeq(S) \in Seq(S)
         /\ \A x \in S : \E i \in 1 .. Len(SetToSeq(S)) : SetToSeq(S)[i] = x
         /\ \A i, j \in 1 .. Len(SetToSeq(S)) : SetToSeq(S)[i] = SetToSeq(S)[j] => i = j
<1> DEFINE n == Cardinality(S)
           f == SetToSeq(S)
<1>1. n \in Nat /\ ExistsBijection(1 .. n, S)
  BY FS_CardinalityType
<1>2. \E g \in [1 .. n -> S] : IsInjective(g)
  BY <1>1 DEF ExistsBijection, Bijection, Injection, IsInjective
<1>3. f \in [1 .. n -> S] /\ IsInjective(f)
  BY <1>2 DEF SetToSeq
<1>4. f \in Seq(S) /\ Len(f) = n
  BY <1>1, <1>3
<1>5. f \in Injection(1 .. n, S)
  BY <1>3 DEF Injection, IsInjective
<1>6. IsFiniteSet(1 .. n) /\ Cardinality(1 .. n) = n
  BY <1>1, FS_Interval
<1>7. f \in Surjection(1 .. n, S)
  BY <1>5, <1>6, FS_Injection
<1> HIDE DEF n, f
<1>8. \A x \in S : \E i \in 1 .. Len(f) : f[i] = x
  BY <1>4, <1>7 DEF Surjection
<1>9. \A i, j \in 1 .. Len(f) : f[i] = f[j] => i = j
  BY <1>4, <1>5 DEF Injection, IsInjective
<1> QED
  BY <1>4, <1>8, <1>9 DEF f

(***************************************************************************)
(* The longest end of a word that is in the trie, and the longest that a   *)
(* character can follow.                                                   *)
(***************************************************************************)

Longest(s, w) ==
  s \in Nodes /\ EndOf(s, w) /\ \A t \in Nodes : EndOf(t, w) => Len(t) <= Len(s)

BestStep(y, x, c) ==
  \/ y = NoNode /\ \A z \in Nodes : EndOf(z, x) => Append(z, c) \notin Nodes
  \/ /\ y \in Nodes /\ EndOf(y, x) /\ Append(y, c) \in Nodes
     /\ \A z \in Nodes : EndOf(z, x) /\ Append(z, c) \in Nodes => Len(z) <= Len(y)

BestOf(x, c) == CHOOSE y \in Nodes \cup {NoNode} : BestStep(y, x, c)

(* Of some nodes that are ends of a word one is the longest.               *)
LEMMA LongestExists ==
  ASSUME KeywordsTyped, NEW w \in Seq(Chars),
         NEW T, T \subseteq Nodes, T # {}, \A t \in T : EndOf(t, w)
  PROVE  \E s \in T : \A t \in T : Len(t) <= Len(s)
<1> DEFINE U == {Len(w) - Len(t) : t \in T}
<1>1. T \subseteq Seq(Chars) /\ Len(w) \in Nat /\ \A t \in T : Len(t) \in Nat
  BY NodesTyped
<1>2. \A t \in T : Len(t) <= Len(w)
  BY DEF EndOf
<1>3. U \subseteq Nat /\ U # {}
  BY <1>1, <1>2
<1>4. PICK m \in U : \A n \in U : m <= n
  BY <1>3, LeastExists
<1>5. PICK s \in T : m = Len(w) - Len(s)
  BY <1>4
<1>6. ASSUME NEW t \in T PROVE Len(t) <= Len(s)
  <2>1. Len(w) - Len(s) <= Len(w) - Len(t)
    BY <1>4, <1>5
  <2> QED
    BY <2>1, <1>1, <1>5
<1> QED
  BY <1>6

(* Two longest ends are the same.                                          *)
LEMMA LongestIsOne ==
  ASSUME KeywordsTyped, NEW w \in Seq(Chars), NEW s, NEW t, Longest(s, w), Longest(t, w)
  PROVE  s = t
<1>1. s \in Seq(Chars) /\ t \in Seq(Chars) /\ EndOf(s, w) /\ EndOf(t, w)
  BY NodesTyped DEF Longest
<1>2. Len(s) <= Len(t) /\ Len(t) <= Len(s) /\ Len(s) \in Nat /\ Len(t) \in Nat
  BY <1>1 DEF Longest
<1>3. Len(s) = Len(t)
  BY <1>2
<1> QED
  BY <1>1, <1>3, <1>2, EndsCompare

(* There is one best node to go on from, or none.                          *)
LEMMA BestExists ==
  ASSUME KeywordsTyped, NEW x \in Seq(Chars), NEW c
  PROVE  /\ BestOf(x, c) \in Nodes \cup {NoNode} /\ BestStep(BestOf(x, c), x, c)
         /\ \A y : BestStep(y, x, c) => y = BestOf(x, c)
<1> DEFINE T == {z \in Nodes : EndOf(z, x) /\ Append(z, c) \in Nodes}
<1>1. \E y \in Nodes \cup {NoNode} : BestStep(y, x, c)
  <2>1. CASE T = {}
    BY <2>1 DEF BestStep
  <2>2. CASE T # {}
    <3>1. PICK s \in T : \A t \in T : Len(t) <= Len(s)
      BY <2>2, LongestExists
    <3> QED
      BY <3>1 DEF BestStep
  <2> QED
    BY <2>1, <2>2
<1>2. BestOf(x, c) \in Nodes \cup {NoNode} /\ BestStep(BestOf(x, c), x, c)
  BY <1>1 DEF BestOf
<1>3. ASSUME NEW y, NEW z, BestStep(y, x, c), BestStep(z, x, c) PROVE y = z
  <2>1. CASE y = NoNode \/ z = NoNode
    BY <2>1, <1>3, NodesTyped DEF BestStep
  <2>2. CASE y # NoNode /\ z # NoNode
    <3>1. /\ y \in Nodes /\ z \in Nodes /\ EndOf(y, x) /\ EndOf(z, x)
          /\ Len(y) <= Len(z) /\ Len(z) <= Len(y)
      BY <2>2, <1>3 DEF BestStep
    <3>2. y \in Seq(Chars) /\ z \in Seq(Chars) /\ Len(y) \in Nat /\ Len(z) \in Nat
      BY <3>1, NodesTyped
    <3>3. Len(y) = Len(z)
      BY <3>1, <3>2
    <3> QED
      BY <3>1, <3>2, <3>3, EndsCompare
  <2> QED
    BY <2>1, <2>2
<1> QED
  BY <1>2, <1>3

(* A node that the character can follow is the best; else it is the best   *)
(* of where its failure link leads.                                        *)
LEMMA BestMoves ==
  ASSUME KeywordsTyped, NEW x \in Nodes, NEW c
  PROVE  /\ Append(x, c) \in Nodes => BestOf(x, c) = x
         /\ Append(x, c) \notin Nodes /\ x = Root => BestOf(x, c) = NoNode
         /\ \A y : Append(x, c) \notin Nodes /\ x # Root /\ Longest(y, Tail(x)) =>
              BestOf(x, c) = BestOf(y, c)
<1>1. x \in Seq(Chars) /\ Nodes \subseteq Seq(Chars) /\ EndOf(x, x)
  BY NodesTyped, EndsOwn
<1>2. ASSUME Append(x, c) \in Nodes PROVE BestOf(x, c) = x
  <2>1. BestStep(x, x, c)
    BY <1>1, <1>2 DEF BestStep, EndOf
  <2> QED
    BY <2>1, <1>1, BestExists
<1>3. ASSUME Append(x, c) \notin Nodes, x = Root PROVE BestOf(x, c) = NoNode
  <2>1. \A z \in Nodes : EndOf(z, x) => z = x
    BY <1>1, <1>3, EndsOwn DEF Root
  <2>2. BestStep(NoNode, x, c)
    BY <2>1, <1>3 DEF BestStep
  <2> QED
    BY <2>2, <1>1, BestExists
<1>4. ASSUME NEW y, Append(x, c) \notin Nodes, x # Root, Longest(y, Tail(x))
      PROVE  BestOf(x, c) = BestOf(y, c)
  <2>1. /\ y \in Nodes /\ y \in Seq(Chars) /\ EndOf(y, Tail(x)) /\ Tail(x) \in Seq(Chars)
        /\ \A t \in Nodes : EndOf(t, Tail(x)) => Len(t) <= Len(y)
    BY <1>1, <1>4, EndsOfTail DEF Longest, Root
  <2>2. ASSUME NEW z \in Nodes, Append(z, c) \in Nodes
        PROVE  EndOf(z, x) <=> EndOf(z, y)
    <3>1. z # x /\ z \in Seq(Chars)
      BY <1>1, <1>4, <2>2
    <3>2. EndOf(z, x) <=> EndOf(z, Tail(x))
      BY <3>1, <1>1, <1>4, EndsOfTail DEF Root
    <3>3. EndOf(z, Tail(x)) => EndOf(z, y)
      BY <2>1, <3>1, EndsCompare
    <3>4. EndOf(z, y) => EndOf(z, Tail(x))
      BY <2>1, <3>1, EndsLead
    <3> QED
      BY <3>2, <3>3, <3>4
  <2>3. BestStep(BestOf(y, c), y, c)
    BY <2>1, BestExists
  <2>4. BestStep(BestOf(y, c), x, c)
    BY <2>2, <2>3, NodesTyped DEF BestStep
  <2> QED
    BY <1>1, <2>4, BestExists
<1> QED
  BY <1>2, <1>3, <1>4

(* From the longest end of a word, the best node and the character are the *)
(* longest end of the word and the character.                              *)
LEMMA LongestStep ==
  ASSUME KeywordsTyped, NEW w \in Seq(Chars), NEW x, Longest(x, w), NEW c \in Chars
  PROVE  Longest(IF BestOf(x, c) = NoNode THEN Root ELSE Append(BestOf(x, c), c), Append(w, c))
<1> DEFINE b == BestOf(x, c)
           v == Append(w, c)
<1>1. /\ x \in Nodes /\ x \in Seq(Chars) /\ Nodes \subseteq Seq(Chars) /\ EndOf(x, w)
      /\ \A t \in Nodes : EndOf(t, w) => Len(t) <= Len(x)
      /\ v \in Seq(Chars)
  BY NodesTyped DEF Longest
<1>2. BestStep(b, x, c)
  BY <1>1, BestExists
<1>3. ASSUME NEW s \in Nodes, s # Root, EndOf(s, v)
      PROVE  /\ Front(s) \in Nodes /\ EndOf(Front(s), x) /\ s = Append(Front(s), c)
             /\ Front(s) \in Seq(Chars) /\ Len(s) = Len(Front(s)) + 1
  <2>1. s \in Seq(Chars) /\ s # <<>>
    BY <1>1, <1>3 DEF Root
  <2>2. EndOf(Front(s), w) /\ Last(s) = c
    BY <2>1, <1>3, EndsOfAppend
  <2>3. /\ Front(s) \in Seq(Chars) /\ s = Append(Front(s), c) /\ Len(s) \in Nat \ {0}
        /\ Len(Front(s)) = Len(s) - 1
    BY <2>1, <2>2, FrontAndLast
  <2>4. Front(s) \in Nodes
    BY <1>3, NodesTyped
  <2>5. EndOf(Front(s), x)
    BY <1>1, <2>2, <2>3, <2>4, EndsCompare
  <2>6. Len(s) = Len(Front(s)) + 1
    BY <2>3
  <2> QED
    BY <2>3, <2>4, <2>5, <2>6
<1>4. CASE b = NoNode
  <2>1. \A s \in Nodes : EndOf(s, v) => s = Root
    BY <1>2, <1>3, <1>4, NodesTyped DEF BestStep
  <2>2. Root \in Nodes /\ EndOf(Root, v)
    BY <1>1, NodesTyped, EndsOwn DEF Root
  <2>3. Longest(Root, v)
    BY <2>1, <2>2 DEF Longest, Root
  <2> QED
    BY <2>3, <1>4
<1>5. CASE b # NoNode
  <2>1. /\ b \in Nodes /\ b \in Seq(Chars) /\ EndOf(b, x) /\ Append(b, c) \in Nodes
        /\ \A z \in Nodes : EndOf(z, x) /\ Append(z, c) \in Nodes => Len(z) <= Len(b)
    BY <1>1, <1>2, <1>5 DEF BestStep
  <2>2. EndOf(b, w)
    BY <1>1, <2>1, EndsLead
  <2>3. /\ Append(b, c) # <<>> /\ Front(Append(b, c)) = b /\ Last(Append(b, c)) = c
        /\ Append(b, c) \in Seq(Chars) /\ Len(Append(b, c)) = Len(b) + 1 /\ Len(b) \in Nat
    BY <2>1, FrontOfAppend
  <2>4. EndOf(Append(b, c), v)
    BY <2>2, <2>3, EndsOfAppend
  <2>5. ASSUME NEW s \in Nodes, EndOf(s, v) PROVE Len(s) <= Len(b) + 1
    <3>1. CASE s = Root
      BY <3>1, <2>3 DEF Root
    <3>2. CASE s # Root
      <4>1. /\ Front(s) \in Nodes /\ EndOf(Front(s), x) /\ s = Append(Front(s), c)
            /\ Front(s) \in Seq(Chars) /\ Len(s) = Len(Front(s)) + 1
        BY <1>3, <2>5, <3>2
      <4> DEFINE f == Front(s)
      <4>2. Append(f, c) \in Nodes
        BY <4>1
      <4> HIDE DEF f
      <4>3. Len(f) <= Len(b) /\ Len(f) \in Nat
        BY <2>1, <4>1, <4>2 DEF f
      <4> QED
        BY <2>3, <4>1, <4>3 DEF f
    <3> QED
      BY <3>1, <3>2
  <2>6. Longest(Append(b, c), v)
    BY <2>1, <2>3, <2>4, <2>5 DEF Longest
  <2> QED
    BY <2>6, <1>5
<1> QED
  BY <1>4, <1>5

(***************************************************************************)
(* The failure links.                                                      *)
(***************************************************************************)

Linked(n) == n = Root \/ fail[n] # NoNode

(* A link leads to the longest end of the node but itself, which is linked *)
(* as the node above is.                                                   *)
LinkRight(n) ==
  fail[n] # NoNode =>
    n # Root /\ Longest(fail[n], Tail(n)) /\ Linked(fail[n]) /\ Linked(Front(n))

LinksRight ==
  /\ KeywordsTyped
  /\ fail \in [Nodes -> Nodes \cup {NoNode}]
  /\ \A n \in Nodes : LinkRight(n)

(* A link leads to a shorter node, that is linked.                         *)
LEMMA LinkLeads ==
  ASSUME LinksRight, NEW n \in Nodes
  PROVE  \/ fail[n] = NoNode
         \/ /\ n # Root /\ fail[n] \in Nodes /\ Linked(fail[n]) /\ Longest(fail[n], Tail(n))
            /\ Len(fail[n]) < Len(n)
<1> SUFFICES ASSUME fail[n] # NoNode
             PROVE  /\ n # Root /\ fail[n] \in Nodes /\ Linked(fail[n])
                    /\ Longest(fail[n], Tail(n)) /\ Len(fail[n]) < Len(n)
  OBVIOUS
<1>1. /\ n # Root /\ fail[n] \in Nodes /\ Linked(fail[n]) /\ Longest(fail[n], Tail(n))
      /\ KeywordsTyped
  BY DEF LinksRight, LinkRight
<1>2. n \in Seq(Chars) /\ fail[n] \in Seq(Chars)
  BY <1>1, NodesTyped
<1>3. Len(Tail(n)) = Len(n) - 1 /\ Len(n) \in Nat /\ Len(fail[n]) \in Nat
  BY <1>1, <1>2, EndsOfTail DEF Root
<1>4. Len(fail[n]) <= Len(Tail(n))
  BY <1>1 DEF Longest, EndOf
<1> QED
  BY <1>1, <1>3, <1>4

(* The walk from a node along the links that Fallback is.                  *)
WalksBack(g, c) ==
  g = [n \in Nodes \cup {NoNode} |->
         IF n = NoNode THEN NoNode ELSE IF Append(n, c) \in Nodes THEN n ELSE g[fail[n]]]

(* What the walk comes to, where links are right.                          *)
BackTo(c) ==
  [n \in Nodes \cup {NoNode} |->
     IF n = NoNode THEN NoNode
     ELSE IF Linked(n) THEN BestOf(n, c)
     ELSE IF Append(n, c) \in Nodes THEN n ELSE NoNode]

(* It is such a walk.                                                      *)
LEMMA BackToWalks ==
  ASSUME LinksRight, NEW c
  PROVE  WalksBack(BackTo(c), c)
<1> DEFINE D == Nodes \cup {NoNode}
           g == BackTo(c)
<1>1. KeywordsTyped /\ NoNode \notin Nodes /\ Root \in Nodes /\ \A n \in D : fail[n] \in D \/ n = NoNode
  BY NodesTyped DEF LinksRight
<1>2. g[NoNode] = NoNode /\ \A n \in Nodes : Linked(n) => g[n] = BestOf(n, c)
  BY <1>1 DEF BackTo
<1>3. \A n \in Nodes : ~ Linked(n) => g[n] = IF Append(n, c) \in Nodes THEN n ELSE NoNode
  BY <1>1 DEF BackTo
<1>4. ASSUME NEW n \in D
      PROVE  g[n] = IF n = NoNode THEN NoNode ELSE IF Append(n, c) \in Nodes THEN n ELSE g[fail[n]]
  <2>1. CASE n = NoNode
    BY <2>1, <1>2
  <2>2. CASE n # NoNode /\ Append(n, c) \in Nodes
    BY <2>2, <1>1, <1>2, <1>3, BestMoves
  <2>3. CASE n # NoNode /\ Append(n, c) \notin Nodes
    <3>1. n \in Nodes
      BY <2>3
    <3>2. CASE fail[n] = NoNode
      <4>1. CASE n = Root
        BY <4>1, <3>2, <2>3, <1>1, <1>2, BestMoves DEF Linked
      <4>2. CASE n # Root
        BY <4>2, <3>1, <3>2, <2>3, <1>2, <1>3 DEF Linked
      <4> QED
        BY <4>1, <4>2
    <3>3. CASE fail[n] # NoNode
      <4>1. /\ n # Root /\ fail[n] \in Nodes /\ Linked(fail[n]) /\ Longest(fail[n], Tail(n))
        BY <3>1, <3>3, LinkLeads
      <4>2. BestOf(n, c) = BestOf(fail[n], c)
        BY <4>1, <3>1, <2>3, <1>1, BestMoves
      <4>3. g[n] = BestOf(n, c) /\ g[fail[n]] = BestOf(fail[n], c)
        BY <4>1, <3>1, <3>3, <1>2 DEF Linked
      <4> QED
        BY <4>2, <4>3, <2>3
    <3> QED
      BY <3>2, <3>3
  <2> QED
    BY <2>1, <2>2, <2>3
<1>5. g = [n \in D |-> g[n]]
  BY DEF BackTo
<1> HIDE DEF g
<1>6. g = [n \in D |-> IF n = NoNode THEN NoNode
                        ELSE IF Append(n, c) \in Nodes THEN n ELSE g[fail[n]]]
  BY <1>4, <1>5
<1> QED
  BY <1>6 DEF WalksBack, g

(* A walk comes to nothing else.                                           *)
LEMMA WalkIsBackTo ==
  ASSUME LinksRight, NEW c, NEW h, WalksBack(h, c),
         NEW n \in Nodes \cup {NoNode}
  PROVE  h[n] = BackTo(c)[n]
<1> DEFINE g == BackTo(c)
           T == {Len(m) : m \in {m \in Nodes : h[m] # g[m]}}
<1>1. /\ KeywordsTyped /\ NoNode \notin Nodes /\ Nodes \subseteq Seq(Chars)
      /\ \A m \in Nodes : Len(m) \in Nat
  BY NodesTyped DEF LinksRight
<1>2. WalksBack(g, c)
  BY BackToWalks
<1>3. /\ h[NoNode] = NoNode /\ g[NoNode] = NoNode
      /\ \A m \in Nodes : h[m] = IF Append(m, c) \in Nodes THEN m ELSE h[fail[m]]
      /\ \A m \in Nodes : g[m] = IF Append(m, c) \in Nodes THEN m ELSE g[fail[m]]
  <2>1. ASSUME NEW k, WalksBack(k, c)
        PROVE  /\ k[NoNode] = NoNode
               /\ \A m \in Nodes : k[m] = IF Append(m, c) \in Nodes THEN m ELSE k[fail[m]]
    <3> DEFINE W == [m \in Nodes \cup {NoNode} |->
                       IF m = NoNode THEN NoNode
                       ELSE IF Append(m, c) \in Nodes THEN m ELSE k[fail[m]]]
    <3>1. k = W
      BY <2>1 DEF WalksBack
    <3>2. W[NoNode] = NoNode
      OBVIOUS
    <3>3. \A m \in Nodes : W[m] = IF Append(m, c) \in Nodes THEN m ELSE k[fail[m]]
      BY <1>1
    <3> HIDE DEF W
    <3> QED
      BY <3>1, <3>2, <3>3
  <2> QED
    BY <1>2, <2>1
<1> HIDE DEF g
<1>4. T = {}
  <2> SUFFICES ASSUME T # {} PROVE FALSE
    OBVIOUS
  <2>1. T \subseteq Nat
    BY <1>1
  <2>2. PICK l \in T : \A k \in T : l <= k
    BY <2>1, LeastExists
  <2>3. PICK m \in Nodes : h[m] # g[m] /\ l = Len(m)
    BY <2>2
  <2>4. Append(m, c) \notin Nodes /\ h[fail[m]] # g[fail[m]]
    BY <1>3, <2>3
  <2>5. fail[m] # NoNode
    BY <1>3, <2>4
  <2>6. fail[m] \in Nodes /\ Len(fail[m]) < Len(m)
    BY <2>5, LinkLeads
  <2>7. Len(fail[m]) \in T
    BY <2>4, <2>6
  <2>8. l <= Len(fail[m])
    BY <2>2, <2>7
  <2> QED
    BY <1>1, <2>3, <2>6, <2>8
<1> QED
  BY <1>3, <1>4 DEF g

(* Fallback: from a linked node, to the best node there is.                *)
LEMMA FallbackBest ==
  ASSUME LinksRight, NEW c, NEW n \in Nodes, Linked(n)
  PROVE  Fallback(n, c) = BestOf(n, c)
<1> DEFINE h == CHOOSE h : WalksBack(h, c)
<1>1. WalksBack(h, c)
  BY BackToWalks
<1>2. Fallback(n, c) = h[n]
  BY Zenon DEF Fallback, WalksBack
<1>3. h[n] = BackTo(c)[n]
  BY <1>1, WalkIsBackTo
<1>4. n # NoNode
  BY NodesTyped DEF LinksRight
<1>5. BackTo(c)[n] = BestOf(n, c)
  BY <1>4 DEF BackTo
<1> QED
  BY <1>2, <1>3, <1>5

(* The node to go to on a character from the longest end of a word is the  *)
(* longest end of the word and the character.                              *)
GoneTo(from, c) == IF Fallback(from, c) = NoNode THEN Root ELSE Append(Fallback(from, c), c)

(* So it is wherever the links that there are are right.                    *)
LEMMA GoneToLongest ==
  ASSUME LinksRight, NEW w \in Seq(Chars), NEW x, Longest(x, w), Linked(x),
         NEW c \in Chars
  PROVE  Longest(GoneTo(x, c), Append(w, c))
<1>1. KeywordsTyped /\ x \in Nodes
  BY DEF LinksRight, Longest
<1>2. Fallback(x, c) = BestOf(x, c)
  BY <1>1, FallbackBest
<1> QED
  BY <1>1, <1>2, LongestStep DEF GoneTo

(***************************************************************************)
(* What a node reports.                                                    *)
(***************************************************************************)

CountIn(s, x) == Cardinality({j \in 1 .. Len(s) : s[j] = x})

(* A count is a number, and nothing is in the empty sequence.              *)
LEMMA CountTyped ==
  ASSUME NEW S, NEW s \in Seq(S), NEW x
  PROVE  /\ IsFiniteSet({j \in 1 .. Len(s) : s[j] = x}) /\ CountIn(s, x) \in Nat
         /\ CountIn(<<>>, x) = 0
<1>1. IsFiniteSet(1 .. Len(s))
  BY FS_Interval
<1>2. IsFiniteSet({j \in 1 .. Len(s) : s[j] = x})
  BY <1>1, FS_Subset
<1>3. {j \in 1 .. Len(<<>>) : (<<>>)[j] = x} = {}
  OBVIOUS
<1> QED
  BY <1>2, <1>3, FS_CardinalityType, FS_EmptySet DEF CountIn

(* What two sequences hold together is the sum of what each holds.         *)
LEMMA CountConcat ==
  ASSUME NEW S, NEW s \in Seq(S), NEW t \in Seq(S), NEW x
  PROVE  CountIn(s \o t, x) = CountIn(s, x) + CountIn(t, x)
<1> DEFINE a == Len(s)
           b == Len(t)
           A == {j \in 1 .. a : s[j] = x}
           B == {j \in 1 .. b : t[j] = x}
           C == {j \in a + 1 .. a + b : t[j - a] = x}
           E == {j \in 1 .. a + b : (s \o t)[j] = x}
           f == [j \in B |-> j + a]
<1>1. a \in Nat /\ b \in Nat /\ Len(s \o t) = a + b
  OBVIOUS
<1>2. IsFiniteSet(A) /\ IsFiniteSet(B)
  BY CountTyped
<1>3. \A j \in 1 .. a : (s \o t)[j] = s[j]
  OBVIOUS
<1>4. \A j \in a + 1 .. a + b : (s \o t)[j] = t[j - a]
  OBVIOUS
<1> HIDE DEF a, b
<1>5. E = A \cup C /\ A \cap C = {}
  <2>1. ASSUME NEW j \in 1 .. a PROVE (j \in E <=> j \in A) /\ j \notin C
    BY <1>1, <1>3
  <2>2. ASSUME NEW j \in a + 1 .. a + b PROVE (j \in E <=> j \in C) /\ j \notin A
    BY <1>1, <1>4
  <2>3. A \subseteq 1 .. a /\ C \subseteq a + 1 .. a + b
    OBVIOUS
  <2>4. E \subseteq (1 .. a) \cup (a + 1 .. a + b)
    BY <1>1
  <2> HIDE DEF A, C, E
  <2> QED
    BY <2>1, <2>2, <2>3, <2>4
<1>6. f \in Bijection(B, C)
  <2>1. f \in [B -> C]
    BY <1>1
  <2>2. \A i \in B, j \in B : f[i] = f[j] => i = j
    BY <1>1
  <2>3. ASSUME NEW j \in C PROVE \E i \in B : f[i] = j
    <3>1. j - a \in B /\ f[j - a] = j
      BY <1>1
    <3> QED
      BY <3>1
  <2> HIDE DEF f, B, C
  <2> QED
    BY <2>1, <2>2, <2>3 DEF Bijection, Injection, Surjection, IsInjective
<1> HIDE DEF A, B, C, E, f
<1>7. IsFiniteSet(C) /\ Cardinality(C) = Cardinality(B)
  BY <1>2, <1>6, FS_Bijection DEF ExistsBijection
<1>8. Cardinality(A \cup C) = Cardinality(A) + Cardinality(C) - Cardinality(A \cap C)
  BY <1>2, <1>7, FS_Union
<1>9. Cardinality(A \cap C) = 0 /\ Cardinality(A) \in Nat /\ Cardinality(C) \in Nat
  BY <1>2, <1>5, <1>7, FS_EmptySet, FS_CardinalityType
<1>10. Cardinality(E) = Cardinality(A) + Cardinality(B)
  BY <1>5, <1>7, <1>8, <1>9
<1> QED
  BY <1>1, <1>10 DEF CountIn, A, B, E, a, b

(* A list holds each keyword that w ends in as often as it was given, and  *)
(* no other.                                                               *)
Reports(list, w) ==
  \A k \in Range(keywords) : k # <<>> =>
    CountIn(list, k) = IF EndOf(k, w) THEN CountIn(keywords, k) ELSE 0

(* A node starts with the keywords pushed there: itself, as often as given.*)
LEMMA PushedCounts ==
  ASSUME KeywordsTyped, NEW n \in Nodes, NEW k
  PROVE  /\ Pushed(n) \in Seq(Seq(Chars))
         /\ CountIn(Pushed(n), k) = IF k = n THEN CountIn(keywords, k) ELSE 0
<1> DEFINE c == Cardinality({w \in DOMAIN keywords : keywords[w] = n})
<1>1. c = CountIn(keywords, n) /\ c \in Nat
  <2>1. DOMAIN keywords = 1 .. Len(keywords)
    BY DEF KeywordsTyped
  <2>2. c = CountIn(keywords, n)
    BY <2>1, Zenon DEF CountIn
  <2> QED
    BY <2>2, CountTyped DEF KeywordsTyped
<1>2. Pushed(n) = [i \in 1 .. c |-> n]
  BY DEF Pushed
<1>3. n \in Seq(Chars)
  BY NodesTyped
<1> HIDE DEF c
<1>4. Pushed(n) \in Seq(Seq(Chars)) /\ Len(Pushed(n)) = c /\ \A i \in 1 .. c : Pushed(n)[i] = n
  BY <1>1, <1>2, <1>3
<1>5. CASE k = n
  <2>1. {j \in 1 .. Len(Pushed(n)) : Pushed(n)[j] = k} = 1 .. c
    BY <1>4, <1>5
  <2>2. Cardinality(1 .. c) = c
    BY <1>1, FS_Interval
  <2> QED
    BY <1>1, <1>4, <1>5, <2>1, <2>2 DEF CountIn
<1>6. CASE k # n
  <2>1. {j \in 1 .. Len(Pushed(n)) : Pushed(n)[j] = k} = {}
    BY <1>4, <1>6
  <2> QED
    BY <1>4, <1>6, <2>1, FS_EmptySet DEF CountIn
<1> QED
  BY <1>5, <1>6

(* A keyword that is given counts as a node.                               *)
LEMMA KeywordIsNode ==
  ASSUME KeywordsTyped, NEW k \in Range(keywords)
  PROVE  k \in Nodes /\ k \in Seq(Chars)
BY NodesTyped DEF Range

(* What ends in a word ends in its longest end.                            *)
LEMMA ReportsOfLongest ==
  ASSUME KeywordsTyped, NEW w \in Seq(Chars), NEW n, Longest(n, w), NEW list, Reports(list, n)
  PROVE  Reports(list, w)
<1> SUFFICES ASSUME NEW k \in Range(keywords), k # <<>>
             PROVE  EndOf(k, n) <=> EndOf(k, w)
  BY DEF Reports
<1>1. k \in Nodes /\ k \in Seq(Chars)
  BY KeywordIsNode
<1>2. n \in Seq(Chars) /\ EndOf(n, w) /\ \A t \in Nodes : EndOf(t, w) => Len(t) <= Len(n)
  BY NodesTyped DEF Longest
<1>3. EndOf(k, n) => EndOf(k, w)
  BY <1>1, <1>2, EndsLead
<1>4. EndOf(k, w) => EndOf(k, n)
  BY <1>1, <1>2, EndsCompare
<1> QED
  BY <1>3, <1>4

(* The root and its children report what was pushed there.                 *)
LEMMA ShortReports ==
  ASSUME KeywordsTyped, NEW n \in Nodes, Len(n) <= 1
  PROVE  Reports(Pushed(n), n)
<1> SUFFICES ASSUME NEW k \in Range(keywords), k # <<>>
             PROVE  EndOf(k, n) <=> k = n
  BY PushedCounts DEF Reports
<1>1. k \in Seq(Chars) /\ n \in Seq(Chars)
  BY KeywordIsNode, NodesTyped
<1>2. Len(k) \in Nat \ {0} /\ Len(n) \in Nat
  BY <1>1
<1>3. k = n => EndOf(k, n)
  BY <1>1, EndsOwn
<1>4. ASSUME EndOf(k, n) PROVE k = n
  <2>1. Len(k) = Len(n)
    BY <1>2, <1>4 DEF EndOf
  <2> QED
    BY <2>1, <1>1, <1>2, <1>4, EndsCompare, EndsOwn
<1> QED
  BY <1>3, <1>4

(* A node whose link is right reports with what it inherits what ends      *)
(* there.                                                                  *)
LEMMA InheritedReports ==
  ASSUME KeywordsTyped, NEW n \in Nodes, n # Root, NEW m, Longest(m, Tail(n)),
         NEW list \in Seq(Seq(Chars)), Reports(list, m)
  PROVE  Reports(Pushed(n) \o list, n)
<1> SUFFICES ASSUME NEW k \in Range(keywords), k # <<>>
             PROVE  CountIn(Pushed(n) \o list, k) = IF EndOf(k, n) THEN CountIn(keywords, k) ELSE 0
  BY DEF Reports
<1>1. n \in Seq(Chars) /\ k \in Seq(Chars) /\ Tail(n) \in Seq(Chars)
  BY NodesTyped, KeywordIsNode, EndsOfTail DEF Root
<1>2. Reports(list, Tail(n))
  BY <1>1, ReportsOfLongest
<1>3. CountIn(list, k) = IF EndOf(k, n) /\ k # n THEN CountIn(keywords, k) ELSE 0
  BY <1>1, <1>2, EndsOfTail DEF Reports, Root
<1>4. CountIn(Pushed(n), k) = IF k = n THEN CountIn(keywords, k) ELSE 0
  BY PushedCounts
<1>5. CountIn(Pushed(n) \o list, k) = CountIn(Pushed(n), k) + CountIn(list, k)
  BY PushedCounts, CountConcat
<1>6. EndOf(n, n) /\ CountIn(keywords, k) \in Nat
  BY <1>1, EndsOwn, CountTyped DEF KeywordsTyped
<1> QED
  BY <1>3, <1>4, <1>5, <1>6

(***************************************************************************)
(* The queue of buildFailureLinks.                                         *)
(***************************************************************************)

Queued(n) == \E i \in 1 .. Len(unlinked) : unlinked[i] = n

(* The queue holds linked nodes, each once and the shortest first, whose   *)
(* children are the ones still to be linked.                               *)
QueueRight ==
  /\ unlinked \in Seq(Nodes)
  /\ \A i \in 1 .. Len(unlinked) :
       /\ unlinked[i] # Root /\ Linked(unlinked[i])
       /\ \A child \in ChildrenOf(unlinked[i]) : ~ Linked(child)
  /\ \A i, j \in 1 .. Len(unlinked) : i < j =>
       /\ unlinked[i] # unlinked[j]
       /\ Len(unlinked[i]) <= Len(unlinked[j]) /\ Len(unlinked[j]) <= Len(unlinked[i]) + 1
  /\ \A n \in Nodes : Linked(n) => Queued(n) \/ \A child \in ChildrenOf(n) : Linked(child)

TrieRight ==
  /\ LinksRight /\ QueueRight
  /\ output \in [Nodes -> Seq(Seq(Chars))]
  /\ \A n \in Nodes : IF Linked(n) THEN Reports(output[n], n) ELSE output[n] = Pushed(n)

(* No longer than what is queued, no node is left to link.                 *)
LEMMA ShortLinked ==
  ASSUME KeywordsTyped, QueueRight, NEW l \in Nat,
         \A i \in 1 .. Len(unlinked) : l <= Len(unlinked[i]),
         NEW n \in Nodes, Len(n) <= l
  PROVE  Linked(n)
<1> DEFINE T == {Len(m) : m \in {m \in Nodes : ~ Linked(m) /\ Len(m) <= l}}
<1>1. Nodes \subseteq Seq(Chars) /\ \A m \in Nodes : Len(m) \in Nat
  BY NodesTyped
<1>2. T = {}
  <2> SUFFICES ASSUME T # {} PROVE FALSE
    OBVIOUS
  <2>1. T \subseteq Nat
    BY <1>1
  <2>2. PICK a \in T : \A b \in T : a <= b
    BY <2>1, LeastExists
  <2>3. PICK m \in Nodes : ~ Linked(m) /\ Len(m) <= l /\ a = Len(m)
    BY <2>2
  <2>4. m # Root /\ m \in Seq(Chars)
    BY <1>1, <2>3 DEF Linked
  <2>5. Front(m) \in Nodes /\ Len(Front(m)) = Len(m) - 1 /\ m \in ChildrenOf(Front(m))
    BY <2>3, <2>4, NodesTyped, FrontAndLast, ChildrenHaveFront DEF Root
  <2>6. Len(Front(m)) \in Nat /\ Len(m) \in Nat
    BY <1>1, <2>5
  <2>7. Len(Front(m)) \notin T
    <3> SUFFICES ASSUME Len(Front(m)) \in T PROVE FALSE
      OBVIOUS
    <3>1. a <= Len(Front(m))
      BY <2>2
    <3> QED
      BY <3>1, <2>3, <2>5, <2>6
  <2>8. Linked(Front(m))
    BY <2>3, <2>5, <2>6, <2>7
  <2>9. Queued(Front(m))
    BY <2>3, <2>5, <2>8 DEF QueueRight
  <2>10. l <= Len(Front(m))
    BY <2>9 DEF Queued
  <2> QED
    BY <2>3, <2>5, <2>6, <2>10
<1> QED
  BY <1>2

(* When the queue is empty every node is linked.                           *)
LEMMA EmptyLinked ==
  ASSUME KeywordsTyped, QueueRight, unlinked = <<>>, NEW n \in Nodes
  PROVE  Linked(n)
<1>1. Len(n) \in Nat
  BY NodesTyped
<1>2. \A i \in 1 .. Len(unlinked) : Len(n) <= Len(unlinked[i])
  OBVIOUS
<1> QED
  BY <1>1, <1>2, ShortLinked

(* At most one is none or one.                                             *)
LEMMA NoneOrOne == \A a \in Nat : a <= 1 <=> a = 0 \/ a = 1
OBVIOUS

(* buildTrie, and the first loop of buildFailureLinks.                     *)
LEMMA TrieStarts ==
  ASSUME TrieInit
  PROVE  TrieRight
<1>1. KeywordsTyped
  BY AhoCorasickAssumption DEF TrieInit, KeywordsTyped, Chars
<1>2. /\ Root \in Nodes /\ Nodes \subseteq Seq(Chars) /\ IsFiniteSet(Nodes) /\ NoNode \notin Nodes
      /\ \A n \in Nodes : Len(n) \in Nat
  BY <1>1, NodesTyped
<1>3. /\ fail = [n \in Nodes |-> IF Len(n) = 1 THEN Root ELSE NoNode]
      /\ output = [n \in Nodes |-> Pushed(n)]
      /\ unlinked = SetToSeq(ChildrenOf(Root))
  BY DEF TrieInit
<1>4. \A n \in Nodes : Linked(n) <=> Len(n) <= 1
  <2> SUFFICES ASSUME NEW n \in Nodes PROVE Linked(n) <=> Len(n) <= 1
    OBVIOUS
  <2>1. n = Root <=> Len(n) = 0
    BY <1>2 DEF Root
  <2>2. fail[n] # NoNode <=> Len(n) = 1
    BY <1>2, <1>3
  <2>3. Len(n) \in Nat
    BY <1>2
  <2>4. Len(n) = 0 \/ Len(n) = 1 <=> Len(n) <= 1
    BY <2>3, NoneOrOne
  <2> QED
    BY <2>1, <2>2, <2>4 DEF Linked
<1>5. ASSUME NEW n \in Nodes PROVE LinkRight(n)
  <2> SUFFICES ASSUME fail[n] # NoNode
               PROVE  n # Root /\ Longest(fail[n], Tail(n)) /\ Linked(fail[n]) /\ Linked(Front(n))
    BY DEF LinkRight
  <2>1. Len(n) = 1 /\ fail[n] = Root /\ n \in Seq(Chars)
    BY <1>2, <1>3
  <2>2. n # Root /\ Tail(n) = <<>>
    <3>1. n # <<>>
      BY <2>1
    <3>2. Tail(n) \in Seq(Chars) /\ Len(Tail(n)) = 0
      BY <2>1, <3>1, EndsOfTail
    <3> QED
      BY <3>1, <3>2, EmptySeq DEF Root
  <2>3. Front(n) = Root
    BY <2>1, <2>2, FrontAndLast DEF Root
  <2>4. Longest(Root, <<>>)
    <3>1. EndOf(Root, <<>>)
      BY DEF Root, EndOf
    <3>2. \A t \in Nodes : EndOf(t, <<>>) => t = Root
      BY <1>2, EndsOwn DEF Root
    <3> QED
      BY <1>2, <3>1, <3>2 DEF Longest, Root
  <2> QED
    BY <2>1, <2>2, <2>3, <2>4 DEF Linked
<1>6. fail \in [Nodes -> Nodes \cup {NoNode}]
  BY <1>2, <1>3
<1>7. LinksRight
  BY <1>1, <1>5, <1>6 DEF LinksRight
<1>8. output \in [Nodes -> Seq(Seq(Chars))]
  BY <1>1, <1>3, PushedCounts
<1>9. ASSUME NEW n \in Nodes
      PROVE  IF Linked(n) THEN Reports(output[n], n) ELSE output[n] = Pushed(n)
  BY <1>1, <1>3, <1>4, ShortReports
<1>10. QueueRight
  <2> DEFINE K == ChildrenOf(Root)
  <2>1. K \subseteq Nodes /\ \A c \in K : Len(c) = 1
    BY DEF ChildrenOf, Root
  <2>2. IsFiniteSet(K)
    BY <1>2, <2>1, FS_Subset
  <2>3. /\ unlinked \in Seq(K) /\ \A c \in K : Queued(c)
        /\ \A i, j \in 1 .. Len(unlinked) : unlinked[i] = unlinked[j] => i = j
    BY <1>3, <2>2, SetToSeqLists DEF Queued
  <2>4. \A i \in 1 .. Len(unlinked) : unlinked[i] \in K
    BY <2>3
  <2> HIDE DEF K
  <2>5. unlinked \in Seq(Nodes)
    BY <2>1, <2>3, SeqMonotonic
  <2>6. ASSUME NEW i \in 1 .. Len(unlinked)
        PROVE  /\ unlinked[i] # Root /\ Linked(unlinked[i])
               /\ \A child \in ChildrenOf(unlinked[i]) : ~ Linked(child)
    <3>1. unlinked[i] \in Nodes /\ Len(unlinked[i]) = 1
      BY <2>1, <2>4
    <3>2. unlinked[i] # Root
      BY <3>1 DEF Root
    <3>3. \A child \in ChildrenOf(unlinked[i]) : child \in Nodes /\ Len(child) = 2
      BY <3>1 DEF ChildrenOf
    <3>4. Linked(unlinked[i])
      BY <1>4, <3>1
    <3>5. \A child \in ChildrenOf(unlinked[i]) : ~ Linked(child)
      BY <1>4, <3>3
    <3> QED
      BY <3>2, <3>4, <3>5
  <2>7. ASSUME NEW i \in 1 .. Len(unlinked), NEW j \in 1 .. Len(unlinked), i < j
        PROVE  /\ unlinked[i] # unlinked[j]
               /\ Len(unlinked[i]) <= Len(unlinked[j])
               /\ Len(unlinked[j]) <= Len(unlinked[i]) + 1
    <3>1. Len(unlinked[i]) = 1 /\ Len(unlinked[j]) = 1
      BY <2>1, <2>4
    <3> QED
      BY <2>3, <2>7, <3>1
  <2>8. ASSUME NEW n \in Nodes, Linked(n)
        PROVE  Queued(n) \/ \A child \in ChildrenOf(n) : Linked(child)
    <3>1. CASE n = Root
      <4>1. \A c \in K : Linked(c)
        BY <1>4, <2>1, NoneOrOne
      <4> QED
        BY <3>1, <4>1 DEF K
    <3>2. CASE n # Root
      <4>1. Len(n) = 1 /\ n \in Seq(Chars)
        <5>1. n \in Seq(Chars) /\ Len(n) \in Nat /\ Len(n) <= 1
          BY <1>2, <1>4, <2>8
        <5>2. Len(n) # 0
          BY <3>2, <5>1 DEF Root
        <5> QED
          BY <5>1, <5>2, NoneOrOne
      <4>2. Front(n) = Root
        BY <4>1, <3>2, FrontAndLast DEF Root
      <4>3. n \in K
        BY <1>1, <1>2, <3>2, <4>2, ChildrenHaveFront DEF K
      <4> QED
        BY <2>3, <4>3
    <3> QED
      BY <3>1, <3>2
  <2> QED
    BY <2>5, <2>6, <2>7, <2>8 DEF QueueRight
<1> QED
  BY <1>7, <1>8, <1>9, <1>10 DEF TrieRight

(* The children of the first of the queue are to be linked, and each is    *)
(* linked to the longest of its ends, which is linked already.             *)
LEMMA ChildLinks ==
  ASSUME TrieRight, unlinked # <<>>, NEW n \in ChildrenOf(Head(unlinked))
  PROVE  /\ Head(unlinked) \in Nodes /\ Head(unlinked) # Root /\ Linked(Head(unlinked))
         /\ n \in Nodes /\ n # Root /\ ~ Linked(n) /\ Front(n) = Head(unlinked)
         /\ Longest(FailOf(n), Tail(n)) /\ FailOf(n) \in Nodes /\ Linked(FailOf(n))
<1> DEFINE h == Head(unlinked)
           c == Last(n)
<1>1. /\ LinksRight /\ QueueRight /\ KeywordsTyped /\ unlinked \in Seq(Nodes)
  BY DEF TrieRight, LinksRight, QueueRight
<1>2. 1 \in 1 .. Len(unlinked) /\ h = unlinked[1] /\ Len(unlinked) \in Nat
  BY <1>1
<1>3. /\ h \in Nodes /\ h # Root /\ Linked(h) /\ \A child \in ChildrenOf(h) : ~ Linked(child)
  BY <1>1, <1>2 DEF QueueRight
<1>4. n \in Nodes /\ ~ Linked(n)
  BY <1>3 DEF ChildrenOf
<1>5. n # Root /\ Front(n) = h
  BY <1>1, <1>3, <1>4, ChildrenHaveFront
<1>6. h \in Seq(Chars) /\ n \in Seq(Chars) /\ Len(h) \in Nat
  BY <1>1, <1>3, <1>4, NodesTyped
<1>7. n = Append(h, c) /\ c \in Chars /\ Len(h) = Len(n) - 1
  BY <1>5, <1>6, FrontAndLast DEF Root
<1>8. Tail(n) = Append(Tail(h), c) /\ Tail(h) \in Seq(Chars)
  BY <1>3, <1>6, <1>7, TailOfAppend, EndsOfTail DEF Root
<1>9. fail[h] \in Nodes /\ Linked(fail[h]) /\ Longest(fail[h], Tail(h))
  BY <1>1, <1>3, LinkLeads DEF Linked
<1>10. FailOf(n) = GoneTo(fail[h], c)
  BY <1>5 DEF FailOf, GoneTo
<1>11. Longest(GoneTo(fail[h], c), Append(Tail(h), c))
  BY <1>1, <1>7, <1>8, <1>9, GoneToLongest
<1>12. Longest(FailOf(n), Tail(n))
  BY <1>8, <1>10, <1>11
<1>13. FailOf(n) \in Nodes /\ Len(FailOf(n)) <= Len(h)
  <2>1. Len(Tail(n)) = Len(n) - 1
    BY <1>5, <1>6, EndsOfTail DEF Root
  <2> QED
    BY <1>7, <1>12, <2>1 DEF Longest, EndOf
<1>14. \A i \in 1 .. Len(unlinked) : Len(h) <= Len(unlinked[i])
  BY <1>1, <1>2, <1>6 DEF QueueRight
<1>15. Linked(FailOf(n))
  BY <1>1, <1>6, <1>13, <1>14, ShortLinked
<1> QED
  BY <1>3, <1>4, <1>5, <1>12, <1>13, <1>15

(* What one turn of the loop does, node by node.                           *)
Turned(n) == n \in ChildrenOf(Head(unlinked))

(* The children of the first of the queue are linked and inherit, and      *)
(* nothing else changes.                                                   *)
LEMMA TurnOf ==
  ASSUME TrieRight, LinkChildren
  PROVE  /\ keywords' = keywords /\ Nodes' = Nodes /\ unlinked # <<>> /\ KeywordsTyped
         /\ Head(unlinked) \in Nodes /\ Linked(Head(unlinked))
         /\ \A n \in Nodes : ChildrenOf(n)' = ChildrenOf(n)
         /\ \A n \in Nodes : fail'[n] = IF Turned(n) THEN FailOf(n) ELSE fail[n]
         /\ \A n \in Nodes :
              output'[n] = IF Turned(n) THEN Inherited(n, FailOf(n)) ELSE output[n]
         /\ fail' \in [Nodes -> Nodes \cup {NoNode}] /\ DOMAIN output' = Nodes
         /\ \A n \in Nodes : Linked(n)' <=> Linked(n) \/ Turned(n)
         /\ \A n \in Nodes : Turned(n) => ~ Linked(n)
<1>1. keywords' = keywords /\ unlinked # <<>>
  BY DEF LinkChildren
<1>2. Nodes' = Nodes
  BY <1>1 DEF Nodes
<1>3. /\ LinksRight /\ QueueRight /\ KeywordsTyped /\ unlinked \in Seq(Nodes)
      /\ fail \in [Nodes -> Nodes \cup {NoNode}]
  BY DEF TrieRight, LinksRight, QueueRight
<1>4. Head(unlinked) \in Nodes /\ Linked(Head(unlinked))
  <2>1. 1 \in 1 .. Len(unlinked) /\ Head(unlinked) = unlinked[1]
    BY <1>1, <1>3
  <2> QED
    BY <2>1, <1>3 DEF QueueRight
<1>5. \A n \in Nodes : ChildrenOf(n)' = ChildrenOf(n)
  BY <1>2 DEF ChildrenOf
<1>6. /\ fail' = [n \in Nodes |-> IF Turned(n) THEN FailOf(n) ELSE fail[n]]
      /\ output' = [n \in Nodes |-> IF Turned(n) THEN Inherited(n, FailOf(n)) ELSE output[n]]
  BY DEF LinkChildren, Turned
<1>7. \A n \in Nodes : Turned(n) => ~ Linked(n) /\ FailOf(n) \in Nodes
  BY <1>1, ChildLinks DEF Turned
<1>8. NoNode \notin Nodes /\ Root \in Nodes
  BY <1>3, NodesTyped
<1>9. ASSUME NEW n \in Nodes PROVE Linked(n)' <=> Linked(n) \/ Turned(n)
  <2>1. Linked(n)' <=> n = Root \/ fail'[n] # NoNode
    BY DEF Linked, Root
  <2> QED
    BY <2>1, <1>6, <1>7, <1>8 DEF Linked
<1> QED
  BY <1>1, <1>2, <1>3, <1>4, <1>5, <1>6, <1>7, <1>9

(* A turn leaves the links right.                                          *)
LEMMA LinksTurned ==
  ASSUME TrieRight, LinkChildren
  PROVE  LinksRight'
<1>1. /\ keywords' = keywords /\ Nodes' = Nodes /\ KeywordsTyped /\ unlinked # <<>>
      /\ \A n \in Nodes : fail'[n] = IF Turned(n) THEN FailOf(n) ELSE fail[n]
      /\ fail' \in [Nodes -> Nodes \cup {NoNode}]
      /\ \A n \in Nodes : Linked(n) => Linked(n)'
  BY TurnOf
<1>2. \A n \in Nodes : Linked(n) => n = Root \/ fail'[n] # NoNode
  BY <1>1 DEF Linked, Root
<1>3. LinksRight /\ \A n \in Nodes : n # Root => Front(n) \in Nodes
  BY <1>1, NodesTyped DEF TrieRight
<1>4. ASSUME NEW n \in Nodes, fail'[n] # NoNode
      PROVE  /\ n # Root /\ Longest(fail'[n], Tail(n)) /\ fail'[n] \in Nodes /\ Linked(fail'[n])
             /\ Linked(Front(n)) /\ Front(n) \in Nodes
  <2>1. CASE Turned(n)
    <3>1. fail'[n] = FailOf(n)
      BY <1>1, <2>1
    <3> QED
      BY <3>1, <1>1, <2>1, ChildLinks DEF Turned
  <2>2. CASE ~ Turned(n)
    <3>1. fail'[n] = fail[n] /\ fail[n] # NoNode
      BY <1>1, <1>4, <2>2
    <3>2. n # Root /\ fail[n] \in Nodes /\ Linked(fail[n]) /\ Longest(fail[n], Tail(n))
      BY <1>3, <3>1, LinkLeads
    <3>3. Linked(Front(n)) /\ Front(n) \in Nodes
      BY <1>3, <3>1, <3>2 DEF LinksRight, LinkRight
    <3> QED
      BY <3>1, <3>2, <3>3
  <2> QED
    BY <2>1, <2>2
<1>5. \A n \in Nodes : LinkRight(n)'
  <2> SUFFICES ASSUME NEW n \in Nodes, fail'[n] # NoNode
               PROVE  /\ n # Root
                      /\ fail'[n] \in Nodes /\ EndOf(fail'[n], Tail(n))
                      /\ \A t \in Nodes : EndOf(t, Tail(n)) => Len(t) <= Len(fail'[n])
                      /\ fail'[n] = Root \/ fail'[fail'[n]] # NoNode
                      /\ Front(n) = Root \/ fail'[Front(n)] # NoNode
    BY <1>1 DEF LinkRight, Longest, Linked, Root
  <2> QED
    BY <1>2, <1>4 DEF Longest
<1> QED
  BY <1>1, <1>5 DEF LinksRight, KeywordsTyped

(* A turn leaves each linked node reporting what ends there.               *)
LEMMA OutputTurned ==
  ASSUME TrieRight, LinkChildren
  PROVE  /\ (output \in [Nodes -> Seq(Seq(Chars))])'
         /\ (\A n \in Nodes : IF Linked(n) THEN Reports(output[n], n) ELSE output[n] = Pushed(n))'
<1>1. /\ keywords' = keywords /\ Nodes' = Nodes /\ KeywordsTyped /\ unlinked # <<>>
      /\ \A n \in Nodes :
           output'[n] = IF Turned(n) THEN Inherited(n, FailOf(n)) ELSE output[n]
      /\ DOMAIN output' = Nodes
      /\ \A n \in Nodes : Linked(n)' <=> Linked(n) \/ Turned(n)
  BY TurnOf
<1>2. /\ output \in [Nodes -> Seq(Seq(Chars))]
      /\ \A n \in Nodes : IF Linked(n) THEN Reports(output[n], n) ELSE output[n] = Pushed(n)
  BY DEF TrieRight
<1>3. ASSUME NEW n \in Nodes, Turned(n)
      PROVE  /\ output'[n] = Pushed(n) \o output[FailOf(n)]
             /\ output'[n] \in Seq(Seq(Chars)) /\ Reports(output'[n], n)
  <2>1. /\ n # Root /\ ~ Linked(n) /\ Longest(FailOf(n), Tail(n)) /\ FailOf(n) \in Nodes
        /\ Linked(FailOf(n))
    BY <1>1, <1>3, ChildLinks DEF Turned
  <2>2. output'[n] = Pushed(n) \o output[FailOf(n)]
    BY <1>1, <1>2, <1>3, <2>1 DEF Inherited
  <2>3. output[FailOf(n)] \in Seq(Seq(Chars)) /\ Reports(output[FailOf(n)], FailOf(n))
    BY <1>2, <2>1
  <2>4. Pushed(n) \in Seq(Seq(Chars))
    BY <1>1, PushedCounts
  <2>5. Reports(Pushed(n) \o output[FailOf(n)], n)
    BY <1>1, <2>1, <2>3, InheritedReports
  <2> QED
    BY <2>2, <2>3, <2>4, <2>5
<1>4. ASSUME NEW n \in Nodes PROVE output'[n] \in Seq(Seq(Chars))
  BY <1>1, <1>2, <1>3
<1>5. output' \in [Nodes -> Seq(Seq(Chars))]
  <2>1. output' = [n \in Nodes |-> output'[n]]
    BY TurnOf DEF LinkChildren
  <2> QED
    BY <1>4, <2>1
<1>6. ASSUME NEW n \in Nodes
      PROVE  IF Linked(n) \/ Turned(n) THEN Reports(output'[n], n) ELSE output'[n] = Pushed(n)
  <2>1. CASE Turned(n)
    BY <2>1, <1>3
  <2>2. CASE ~ Turned(n)
    BY <2>2, <1>1, <1>2
  <2> QED
    BY <2>1, <2>2
<1>7. ASSUME NEW n \in Nodes
      PROVE  IF Linked(n)' THEN Reports(output[n], n)' ELSE output'[n] = Pushed(n)'
  <2>1. CASE Linked(n) \/ Turned(n)
    <3>1. Reports(output[n], n)'
      BY <1>1, <1>6, <2>1 DEF Reports
    <3> QED
      BY <1>1, <2>1, <3>1
  <2>2. CASE ~ (Linked(n) \/ Turned(n))
    <3>1. output'[n] = Pushed(n)'
      BY <1>1, <1>6, <2>2 DEF Pushed
    <3> QED
      BY <1>1, <2>2, <3>1
  <2> QED
    BY <2>1, <2>2
<1> QED
  BY <1>1, <1>5, <1>7

(* The rest of the queue and the children, side by side.                   *)
LEMMA QueueTurned ==
  ASSUME TrieRight, LinkChildren
  PROVE  QueueRight'
<1> DEFINE h == Head(unlinked)
           K == ChildrenOf(h)
           q == SetToSeq(K)
           a == Len(unlinked) - 1
           b == Len(q)
           r == unlinked'
<1>1. /\ keywords' = keywords /\ Nodes' = Nodes /\ KeywordsTyped /\ unlinked # <<>>
      /\ h \in Nodes /\ Linked(h)
      /\ \A n \in Nodes : ChildrenOf(n)' = ChildrenOf(n)
      /\ \A n \in Nodes : Linked(n)' <=> Linked(n) \/ n \in K
  BY TurnOf DEF Turned
<1>2. /\ unlinked \in Seq(Nodes)
      /\ \A i \in 1 .. Len(unlinked) :
           /\ unlinked[i] # Root /\ Linked(unlinked[i])
           /\ \A child \in ChildrenOf(unlinked[i]) : ~ Linked(child)
      /\ \A i, j \in 1 .. Len(unlinked) : i < j =>
           /\ unlinked[i] # unlinked[j]
           /\ Len(unlinked[i]) <= Len(unlinked[j]) /\ Len(unlinked[j]) <= Len(unlinked[i]) + 1
      /\ \A n \in Nodes : Linked(n) => Queued(n) \/ \A child \in ChildrenOf(n) : Linked(child)
  BY DEF TrieRight, QueueRight
<1>3. /\ r = Tail(unlinked) \o q /\ Len(unlinked) \in Nat /\ a \in Nat /\ h = unlinked[1]
      /\ 1 \in 1 .. Len(unlinked)
  BY <1>1, <1>2 DEF LinkChildren
<1>4. /\ K \subseteq Nodes /\ \A c \in K : Len(c) = Len(h) + 1 /\ ~ Linked(c)
  BY <1>2, <1>3 DEF ChildrenOf
<1>5. IsFiniteSet(K)
  BY <1>1, <1>4, NodesTyped, FS_Subset
<1>6. /\ q \in Seq(K) /\ \A c \in K : \E i \in 1 .. b : q[i] = c
      /\ \A i, j \in 1 .. b : q[i] = q[j] => i = j
  BY <1>5, SetToSeqLists
<1>7. Tail(unlinked) \in Seq(Nodes) /\ Len(Tail(unlinked)) = a
      /\ \A i \in 1 .. a : Tail(unlinked)[i] = unlinked[i + 1]
  BY <1>1, <1>2, <1>3
<1> HIDE DEF h, K, q, r
<1>8. q \in Seq(Nodes) /\ b \in Nat /\ \A i \in 1 .. b : q[i] \in K
  BY <1>4, <1>6, SeqMonotonic
<1>9. /\ r \in Seq(Nodes) /\ Len(r) = a + b
      /\ \A i \in 1 .. a : r[i] = Tail(unlinked)[i]
      /\ \A i \in 1 .. b : r[a + i] = q[i]
  BY <1>3, <1>7, <1>8
<1> HIDE DEF a, b
<1>10. \A i \in 1 .. a : r[i] = unlinked[i + 1] /\ i + 1 \in 1 .. Len(unlinked) /\ 1 < i + 1
  BY <1>3, <1>7, <1>9 DEF a
<1>11. ASSUME NEW i \in 1 .. a + b, ~ (i \in 1 .. a)
       PROVE  i - a \in 1 .. b /\ r[i] = q[i - a] /\ r[i] \in K
  <2>1. i - a \in 1 .. b /\ a + (i - a) = i
    BY <1>3, <1>8, <1>11
  <2> QED
    BY <2>1, <1>8, <1>9
<1>12. \A n \in Nodes : Len(n) \in Nat
  BY <1>1, NodesTyped
<1>13. ASSUME NEW i \in 1 .. a
       PROVE  /\ r[i] \in Nodes /\ r[i] # h /\ r[i] # Root /\ Linked(r[i]) /\ r[i] \notin K
              /\ \A child \in ChildrenOf(r[i]) : ~ Linked(child)
              /\ Len(h) <= Len(r[i]) /\ Len(r[i]) <= Len(h) + 1
  BY <1>2, <1>3, <1>4, <1>10, <1>13
<1>14. ASSUME NEW n \in Nodes, NEW m \in Nodes, NEW c \in ChildrenOf(n), c \in ChildrenOf(m)
       PROVE  n = m
  <2>1. c \in Nodes
    BY DEF ChildrenOf
  <2> QED
    BY <1>1, <1>14, <2>1, ChildrenHaveFront
<1>15. ASSUME NEW c \in K
       PROVE  /\ c \in Nodes /\ c # Root
              /\ \A child \in ChildrenOf(c) : ~ Linked(child) /\ child \notin K
  <2>1. c \in Nodes /\ c # h
    BY <1>1, <1>4, <1>12
  <2>2. ASSUME NEW d \in ChildrenOf(c) PROVE ~ Linked(d) /\ d \notin K
    <3>1. d \in Nodes /\ d # Root /\ Front(d) = c
      BY <1>1, <2>1, ChildrenHaveFront DEF ChildrenOf
    <3>2. Linked(d) => Linked(c)
      BY <3>1 DEF TrieRight, LinksRight, LinkRight, Linked
    <3>3. d \in K => c = h
      BY <1>1, <1>14, <2>1 DEF K
    <3> QED
      BY <1>4, <2>1, <3>2, <3>3
  <2>3. c # Root
    BY <1>4 DEF Linked
  <2> QED
    BY <2>1, <2>2, <2>3
<1>16. ASSUME NEW i \in 1 .. a + b
       PROVE  /\ r[i] # Root /\ (Linked(r[i]) \/ r[i] \in K)
              /\ r[i] \in Nodes
              /\ \A child \in ChildrenOf(r[i]) : child \in Nodes /\ ~ Linked(child) /\ child \notin K
  <2>1. CASE i \in 1 .. a
    <3>1. \A child \in ChildrenOf(r[i]) : child \notin K
      BY <1>1, <1>13, <1>14, <2>1 DEF K
    <3> QED
      BY <1>13, <2>1, <3>1 DEF ChildrenOf
  <2>2. CASE ~ (i \in 1 .. a)
    <3>1. r[i] \in K
      BY <1>11, <2>2
    <3> QED
      BY <1>15, <3>1 DEF ChildrenOf
  <2> QED
    BY <2>1, <2>2
<1>17. ASSUME NEW i \in 1 .. a + b, NEW j \in 1 .. a + b, i < j
       PROVE  r[i] # r[j] /\ Len(r[i]) <= Len(r[j]) /\ Len(r[j]) <= Len(r[i]) + 1
  <2>1. CASE j \in 1 .. a
    <3>1. i \in 1 .. a /\ i + 1 < j + 1
      BY <1>3, <1>8, <1>17, <2>1
    <3> QED
      BY <1>2, <1>10, <2>1, <3>1
  <2>2. CASE ~ (j \in 1 .. a) /\ i \in 1 .. a
    <3>1. r[j] \in K /\ Len(r[j]) = Len(h) + 1
      BY <1>4, <1>11, <2>2
    <3>2. Len(r[i]) \in Nat /\ Len(h) \in Nat /\ r[i] # r[j]
      BY <1>1, <1>12, <1>13, <2>2, <3>1
    <3> QED
      BY <1>13, <2>2, <3>1, <3>2
  <2>3. CASE ~ (j \in 1 .. a) /\ ~ (i \in 1 .. a)
    <3>1. /\ i - a \in 1 .. b /\ r[i] = q[i - a] /\ r[i] \in K
          /\ j - a \in 1 .. b /\ r[j] = q[j - a] /\ r[j] \in K
      BY <1>11, <2>3
    <3>2. i - a # j - a
      BY <1>3, <1>17
    <3>3. r[i] # r[j]
      BY <1>6, <3>1, <3>2 DEF b
    <3>4. Len(r[i]) = Len(h) + 1 /\ Len(r[j]) = Len(h) + 1 /\ Len(h) \in Nat
      BY <1>1, <1>4, <1>12, <3>1
    <3> QED
      BY <3>3, <3>4
  <2> QED
    BY <2>1, <2>2, <2>3
<1>18. ASSUME NEW n \in Nodes, Linked(n) \/ n \in K
       PROVE  \/ \E i \in 1 .. a + b : r[i] = n
              \/ \A child \in ChildrenOf(n) : Linked(child) \/ child \in K
  <2>1. CASE n \in K
    <3>1. PICK i \in 1 .. b : q[i] = n
      BY <1>6, <2>1 DEF b
    <3>2. a + i \in 1 .. a + b /\ r[a + i] = n
      <4>1. a + i \in 1 .. a + b
        BY <1>3, <1>8
      <4>2. r[a + i] = q[i]
        BY <1>9
      <4> QED
        BY <3>1, <4>1, <4>2
    <3> QED
      BY <3>2
  <2>2. CASE n = h
    BY <2>2 DEF K
  <2>3. CASE n # h /\ Linked(n) /\ Queued(n)
    <3>1. PICK i \in 1 .. Len(unlinked) : unlinked[i] = n
      BY <2>3 DEF Queued
    <3>2. i - 1 \in 1 .. a /\ i - 1 + 1 = i
      BY <1>3, <2>3, <3>1 DEF a
    <3>3. i - 1 \in 1 .. a + b /\ r[i - 1] = n
      <4>1. i - 1 \in 1 .. a + b
        BY <1>3, <1>8, <3>2
      <4>2. r[i - 1] = unlinked[i - 1 + 1]
        BY <1>10, <3>2
      <4> QED
        BY <3>1, <3>2, <4>1, <4>2
    <3> QED
      BY <3>3
  <2>4. CASE Linked(n) /\ ~ Queued(n)
    BY <1>2, <2>4
  <2> QED
    BY <1>18, <2>1, <2>2, <2>3, <2>4
<1>19. \A n \in Nodes : Queued(n)' <=> \E i \in 1 .. a + b : r[i] = n
  BY <1>9 DEF Queued, r
<1>20. \A n \in Nodes : Linked(n)' <=> n = Root \/ fail'[n] # NoNode
  BY DEF Linked, Root
<1>21. \A i \in 1 .. Len(unlinked') :
         /\ unlinked'[i] # Root' /\ Linked(unlinked[i])'
         /\ \A child \in ChildrenOf(unlinked[i])' : ~ Linked(child)'
  <2> SUFFICES ASSUME NEW i \in 1 .. a + b
               PROVE  /\ r[i] # Root /\ Linked(unlinked[i])'
                      /\ \A child \in ChildrenOf(unlinked[i])' : ~ Linked(child)'
    BY <1>9 DEF r, Root
  <2>1. /\ r[i] \in Nodes /\ r[i] # Root /\ (Linked(r[i]) \/ r[i] \in K)
        /\ \A child \in ChildrenOf(r[i]) : child \in Nodes /\ ~ Linked(child) /\ child \notin K
    BY <1>15, <1>16, <1>13
  <2>2. r[i] = Root \/ fail'[r[i]] # NoNode
    BY <1>1, <1>20, <2>1
  <2>3. Linked(unlinked[i])'
    BY <2>2 DEF Linked, r, Root
  <2>4. ChildrenOf(unlinked[i])' = ChildrenOf(r[i])
    BY <1>1 DEF ChildrenOf, r
  <2> QED
    BY <1>1, <2>1, <2>3, <2>4
<1>22. (\A n \in Nodes : Linked(n) => Queued(n) \/ \A child \in ChildrenOf(n) : Linked(child))'
  <2> SUFFICES ASSUME NEW n \in Nodes, Linked(n)'
               PROVE  Queued(n)' \/ \A child \in ChildrenOf(n)' : Linked(child)'
    BY <1>1
  <2>1. \A child \in ChildrenOf(n) : child \in Nodes
    BY DEF ChildrenOf
  <2> QED
    BY <1>1, <1>18, <1>19, <2>1
<1>23. \A i, j \in 1 .. Len(unlinked') : i < j =>
         /\ unlinked'[i] # unlinked'[j]
         /\ Len(unlinked'[i]) <= Len(unlinked'[j]) /\ Len(unlinked'[j]) <= Len(unlinked'[i]) + 1
  BY <1>9, <1>17 DEF r
<1>24. unlinked' \in Seq(Nodes')
  BY <1>1, <1>9 DEF r
<1> QED
  BY <1>21, <1>22, <1>23, <1>24 DEF QueueRight

(* A turn of the loop leaves the trie right.                               *)
LEMMA TrieTurned ==
  ASSUME TrieRight, LinkChildren
  PROVE  TrieRight'
BY LinksTurned, QueueTurned, OutputTurned DEF TrieRight

(***************************************************************************)
(* The search.                                                             *)
(***************************************************************************)

(* Where a word occurs in t.                                               *)
OccursIn(k, i, t) == i + Len(k) <= Len(t) /\ SubSeq(t, i + 1, i + Len(k)) = k

(* It does where each of its characters is.                                *)
LEMMA OccursPointwise ==
  ASSUME NEW S, NEW k \in Seq(S), NEW t \in Seq(S), NEW i \in Nat
  PROVE  OccursIn(k, i, t) <=>
           i + Len(k) <= Len(t) /\ \A j \in 1 .. Len(k) : k[j] = t[i + j]
<1> DEFINE a == Len(k)
           n == Len(t)
           u == SubSeq(t, i + 1, i + a)
<1>1. a \in Nat /\ n \in Nat
  OBVIOUS
<1> SUFFICES ASSUME i + a <= n PROVE u = k <=> \A j \in 1 .. a : k[j] = t[i + j]
  BY DEF OccursIn
<1>2. \A j \in i + 1 .. i + a : t[j] \in S
  <2>1. \A j \in 1 .. n : t[j] \in S
    OBVIOUS
  <2> HIDE DEF a, n
  <2> QED
    BY <1>1, <2>1
<1>3. /\ u \in Seq(S) /\ Len(u) = IF i + 1 <= i + a THEN (i + a) - (i + 1) + 1 ELSE 0
      /\ \A j \in 1 .. (i + a) - (i + 1) + 1 : u[j] = t[(i + 1) + j - 1]
  <2>1. i + 1 \in Int /\ i + a \in Int
    BY <1>1
  <2> HIDE DEF a
  <2> QED
    BY <1>2, <2>1, SubSeqProperties
<1> HIDE DEF a, n, u
<1>4. /\ Len(u) = a /\ (i + a) - (i + 1) + 1 = a /\ \A j \in 1 .. a : (i + 1) + j - 1 = i + j
  BY <1>1, <1>3
<1>5. \A j \in 1 .. a : u[j] = t[i + j]
  BY <1>3, <1>4
<1>6. ASSUME \A j \in 1 .. a : k[j] = t[i + j] PROVE u = k
  <2>1. \A j \in 1 .. Len(u) : u[j] = k[j]
    BY <1>4, <1>5, <1>6
  <2> QED
    BY <1>3, <1>4, <2>1, SeqEqual DEF a
<1> QED
  BY <1>5, <1>6

(* A word and a character hold what the word held, and what ends there.    *)
LEMMA OccursStep ==
  ASSUME NEW S, NEW k \in Seq(S), NEW t \in Seq(S), NEW c \in S, NEW i \in Nat
  PROVE  OccursIn(k, i, Append(t, c)) <=>
           IF i + Len(k) = Len(t) + 1 THEN EndOf(k, Append(t, c)) ELSE OccursIn(k, i, t)
<1> DEFINE a == Len(k)
           n == Len(t)
           v == Append(t, c)
<1>1. a \in Nat /\ n \in Nat /\ v \in Seq(S) /\ Len(v) = n + 1 /\ \A j \in 1 .. n : v[j] = t[j]
  OBVIOUS
<1> HIDE DEF v
<1>2. OccursIn(k, i, v) <=> i + a <= Len(v) /\ \A j \in 1 .. a : k[j] = v[i + j]
  BY <1>1, OccursPointwise
<1>3. OccursIn(k, i, t) <=> i + a <= n /\ \A j \in 1 .. a : k[j] = t[i + j]
  BY OccursPointwise
<1>4. EndOf(k, v) <=> a <= Len(v) /\ \A j \in 1 .. a : k[j] = v[Len(v) - a + j]
  BY DEF EndOf
<1> HIDE DEF a, n
<1>5. CASE i + a = n + 1
  <2>1. Len(v) - a = i /\ a <= Len(v) /\ i + a <= Len(v)
    BY <1>1, <1>5
  <2> QED
    BY <1>2, <1>4, <1>5, <2>1 DEF a, n, v
<1>6. CASE i + a <= n
  <2>1. /\ i + a <= Len(v) /\ i + a # n + 1
        /\ \A j \in 1 .. a : i + j \in 1 .. n
    BY <1>1, <1>6
  <2>2. \A j \in 1 .. a : v[i + j] = t[i + j]
    BY <1>1, <2>1
  <2> QED
    BY <1>2, <1>3, <1>6, <2>1, <2>2 DEF a, n, v
<1>7. CASE ~ (i + a <= n) /\ i + a # n + 1
  <2>1. ~ (i + a <= Len(v))
    BY <1>1, <1>7
  <2> QED
    BY <1>2, <1>3, <1>7, <2>1 DEF a, n, v
<1> QED
  BY <1>5, <1>6, <1>7

Match == [keyword : Seq(Chars), index : Int]

(* What is pushed for the keywords found at the end of a text of n units.  *)
PushedFor(found, n) ==
  [k \in DOMAIN found |-> [keyword |-> found[k], index |-> n - Len(found[k])]]

(* One is pushed for each, where the keyword begins.                       *)
LEMMA PushedForCounts ==
  ASSUME NEW found \in Seq(Seq(Chars)), NEW n \in Nat, NEW k \in Seq(Chars), NEW i \in Nat
  PROVE  /\ PushedFor(found, n) \in Seq(Match)
         /\ PushedFor(found, n) = <<>> <=> found = <<>>
         /\ CountIn(PushedFor(found, n), [keyword |-> k, index |-> i]) =
              IF i + Len(k) = n THEN CountIn(found, k) ELSE 0
<1> DEFINE p == PushedFor(found, n)
           x == [keyword |-> k, index |-> i]
           A == {j \in 1 .. Len(p) : p[j] = x}
<1>1. DOMAIN found = 1 .. Len(found) /\ Len(found) \in Nat /\ Len(k) \in Nat
      /\ \A j \in 1 .. Len(found) : found[j] \in Seq(Chars) /\ Len(found[j]) \in Nat
  OBVIOUS
<1>2. p = [j \in 1 .. Len(found) |-> [keyword |-> found[j], index |-> n - Len(found[j])]]
  BY <1>1 DEF PushedFor
<1> HIDE DEF p
<1>3. p \in Seq(Match) /\ Len(p) = Len(found)
  BY <1>1, <1>2 DEF Match
<1>4. \A j \in 1 .. Len(found) : p[j] = x <=> found[j] = k /\ n - Len(k) = i
  BY <1>2
<1>5. n - Len(k) = i <=> i + Len(k) = n
  BY <1>1
<1>6. p = <<>> <=> found = <<>>
  BY <1>1, <1>3
<1>7. CASE i + Len(k) = n
  <2>1. A = {j \in 1 .. Len(found) : found[j] = k}
    BY <1>3, <1>4, <1>5, <1>7
  <2> QED
    BY <1>3, <1>6, <1>7, <2>1 DEF CountIn, p
<1>8. CASE i + Len(k) # n
  <2>1. A = {}
    BY <1>3, <1>4, <1>5, <1>8
  <2> QED
    BY <1>3, <1>6, <1>8, <2>1, FS_EmptySet DEF CountIn, p
<1> QED
  BY <1>7, <1>8

(* Each keyword reported where it occurs in what was read, and nowhere     *)
(* else, as often as it was given.                                         *)
FoundRight(list, t) ==
  \A k \in Range(keywords) : k # <<>> => \A i \in Nat :
    CountIn(list, [keyword |-> k, index |-> i]) =
      IF OccursIn(k, i, t) THEN CountIn(keywords, k) ELSE 0

SearchRight ==
  /\ text \in Seq(Units) /\ results \in Seq(Match) /\ Longest(node, text)
  /\ unlinked # <<>> => text = <<>>
  /\ FoundRight(results, text)
  /\ hit <=> results # <<>>

(* The start of a search.                                                  *)
LEMMA SearchStarts ==
  ASSUME TrieInit
  PROVE  SearchRight
<1>1. TrieRight
  BY TrieStarts
<1>2. KeywordsTyped
  BY <1>1 DEF TrieRight, LinksRight
<1>3. text = <<>> /\ node = Root /\ results = <<>> /\ hit = FALSE
  BY DEF TrieInit
<1>4. Longest(Root, <<>>)
  <2>1. EndOf(Root, <<>>) /\ \A t \in Nodes : EndOf(t, <<>>) => t = Root
    BY <1>2, NodesTyped, EndsOwn DEF Root
  <2> QED
    BY <1>2, <2>1, NodesTyped DEF Longest, Root
<1>5. FoundRight(<<>>, <<>>)
  <2> SUFFICES ASSUME NEW k \in Range(keywords), k # <<>>, NEW i \in Nat
               PROVE  /\ CountIn(<<>>, [keyword |-> k, index |-> i]) = 0
                      /\ ~ OccursIn(k, i, <<>>)
    BY DEF FoundRight
  <2>1. k \in Seq(Chars) /\ <<>> \in Seq(Chars) /\ <<>> \in Seq(Match)
    BY <1>2, KeywordIsNode
  <2>2. Len(k) \in Nat \ {0}
    BY <2>1
  <2>3. ~ OccursIn(k, i, <<>>)
    <3>1. ~ (i + Len(k) <= 0) /\ Len(<<>>) = 0
      BY <2>2
    <3> QED
      BY <3>1 DEF OccursIn
  <2> QED
    BY <2>1, <2>3, CountTyped
<1> QED
  BY <1>3, <1>4, <1>5 DEF SearchRight

(* Linking children reads nothing.                                         *)
LEMMA SearchWaits ==
  ASSUME SearchRight, LinkChildren
  PROVE  SearchRight'
<1>1. keywords' = keywords /\ unlinked # <<>> /\ UNCHANGED <<text, node, results, hit>>
  BY DEF LinkChildren
<1>2. Nodes' = Nodes
  BY <1>1 DEF Nodes
<1> QED
  BY <1>1, <1>2 DEF SearchRight, Longest, FoundRight

(* Reading a unit, the search comes to the longest end of what it has read *)
(* and reports what ends there.                                            *)
LEMMA UnitRead ==
  ASSUME TrieRight, SearchRight, NEW char \in Units, ReadUnit(char)
  PROVE  SearchRight'
<1> DEFINE v == Append(text, char)
           m == Advanced(node, char)
           p == PushedFor(output[m], Len(v))
<1>1. /\ keywords' = keywords /\ unlinked' = unlinked /\ output' = output /\ unlinked = <<>>
      /\ text' = v /\ node' = m
  BY DEF ReadUnit
<1>2. Nodes' = Nodes
  BY <1>1 DEF Nodes
<1>3. /\ LinksRight /\ QueueRight /\ KeywordsTyped
      /\ output \in [Nodes -> Seq(Seq(Chars))]
      /\ \A n \in Nodes : IF Linked(n) THEN Reports(output[n], n) ELSE output[n] = Pushed(n)
  BY DEF TrieRight, LinksRight
<1>4. /\ text \in Seq(Units) /\ text \in Seq(Chars) /\ char \in Chars /\ results \in Seq(Match)
      /\ Longest(node, text) /\ FoundRight(results, text) /\ (hit <=> results # <<>>)
      /\ node \in Nodes /\ Linked(node)
  <2>1. text \in Seq(Units) /\ Units \subseteq Chars /\ node \in Nodes
    BY DEF SearchRight, Chars, Longest
  <2>2. text \in Seq(Chars)
    BY <2>1, SeqMonotonic
  <2> QED
    BY <1>1, <1>3, <2>1, <2>2, EmptyLinked DEF SearchRight
<1>5. v \in Seq(Units) /\ v \in Seq(Chars) /\ Len(v) = Len(text) + 1 /\ Len(text) \in Nat
  BY <1>4
<1>6. Longest(m, v)
  <2>1. m = GoneTo(node, char)
    BY DEF Advanced, GoneTo
  <2> QED
    BY <1>3, <1>4, <2>1, GoneToLongest
<1>7. m \in Nodes /\ output[m] \in Seq(Seq(Chars)) /\ Reports(output[m], v)
  <2>1. m \in Nodes
    BY <1>6 DEF Longest
  <2>2. Reports(output[m], m)
    BY <1>1, <1>3, <2>1, EmptyLinked
  <2> QED
    BY <1>3, <1>5, <1>6, <2>1, <2>2, ReportsOfLongest
<1>8. results' = results \o p /\ hit' = (hit \/ output[m] # <<>>)
  <2>1. \A k \in DOMAIN output[m] : Len(text) - Len(output[m][k]) + 1 = Len(v) - Len(output[m][k])
    BY <1>5, <1>7
  <2>2. p = [k \in DOMAIN output[m] |->
               [keyword |-> output[m][k], index |-> Len(text) - Len(output[m][k]) + 1]]
    BY <2>1 DEF PushedFor
  <2>3. /\ results' = results \o [k \in DOMAIN output[m] |->
             [keyword |-> output[m][k], index |-> Len(text) - Len(output[m][k]) + 1]]
        /\ hit' = (hit \/ output[m] # <<>>)
    BY <1>1 DEF ReadUnit
  <2> QED
    BY <2>2, <2>3
<1> HIDE DEF p, v, m
<1>9. p \in Seq(Match) /\ (p = <<>> <=> output[m] = <<>>)
  <2>1. <<>> \in Seq(Chars) /\ 0 \in Nat /\ Len(v) \in Nat
    BY <1>5
  <2> QED
    BY <1>7, <2>1, PushedForCounts DEF p
<1>10. results' \in Seq(Match) /\ (hit' <=> results' # <<>>)
  <2>1. results \o p \in Seq(Match) /\ (results \o p = <<>> <=> results = <<>> /\ p = <<>>)
    BY <1>4, <1>9
  <2>2. output[m] # <<>> <=> p # <<>>
    BY <1>9
  <2>3. hit' <=> hit \/ output[m] # <<>>
    BY <1>8, Zenon
  <2>4. hit' <=> results # <<>> \/ p # <<>>
    BY <1>4, <2>2, <2>3, Zenon
  <2> QED
    BY <1>8, <2>1, <2>4
<1>11. FoundRight(results \o p, v)
  <2> SUFFICES ASSUME NEW k \in Range(keywords), k # <<>>, NEW i \in Nat
               PROVE  CountIn(results \o p, [keyword |-> k, index |-> i]) =
                        IF OccursIn(k, i, v) THEN CountIn(keywords, k) ELSE 0
    BY DEF FoundRight
  <2> DEFINE x == [keyword |-> k, index |-> i]
  <2>1. k \in Seq(Chars) /\ Len(k) \in Nat
    BY <1>3, KeywordIsNode
  <2>2. CountIn(results, x) = IF OccursIn(k, i, text) THEN CountIn(keywords, k) ELSE 0
    BY <1>4 DEF FoundRight
  <2>3. CountIn(p, x) = IF i + Len(k) = Len(v) THEN CountIn(output[m], k) ELSE 0
    BY <1>5, <1>7, <2>1, PushedForCounts DEF p
  <2>4. CountIn(output[m], k) = IF EndOf(k, v) THEN CountIn(keywords, k) ELSE 0
    BY <1>7 DEF Reports
  <2>5. OccursIn(k, i, v) <=>
          IF i + Len(k) = Len(v) THEN EndOf(k, v) ELSE OccursIn(k, i, text)
    BY <1>4, <1>5, <2>1, OccursStep DEF v
  <2>6. i + Len(k) = Len(v) => ~ OccursIn(k, i, text)
    BY <1>5, <2>1 DEF OccursIn
  <2>7. CountIn(results \o p, x) = CountIn(results, x) + CountIn(p, x)
    BY <1>4, <1>9, CountConcat
  <2>8. CountIn(keywords, k) \in Nat
    BY <1>3, CountTyped DEF KeywordsTyped
  <2> HIDE DEF x
  <2>9. CountIn(results \o p, x) = IF OccursIn(k, i, v) THEN CountIn(keywords, k) ELSE 0
    BY <2>2, <2>3, <2>4, <2>5, <2>6, <2>7, <2>8
  <2> QED
    BY <2>9 DEF x
<1>12. FoundRight(results, text)'
  BY <1>1, <1>8, <1>11 DEF FoundRight
<1>13. Longest(node, text)'
  BY <1>1, <1>2, <1>6 DEF Longest
<1> QED
  BY <1>1, <1>5, <1>10, <1>12, <1>13 DEF SearchRight

(* Reading leaves the trie as it is.                                       *)
LEMMA TrieStays ==
  ASSUME TrieRight, UNCHANGED <<keywords, fail, output, unlinked>>
  PROVE  TrieRight'
<1>1. /\ Nodes' = Nodes /\ keywords' = keywords /\ fail' = fail /\ output' = output
      /\ unlinked' = unlinked
  BY DEF Nodes
<1>2. LinksRight /\ QueueRight
  BY DEF TrieRight
<1>3. LinksRight'
  BY <1>1, <1>2 DEF LinksRight, KeywordsTyped, LinkRight, Linked, Longest, Root
<1>4. QueueRight'
  BY <1>1, <1>2 DEF QueueRight, Queued, ChildrenOf, Linked, Root
<1>5. (\A n \in Nodes : IF Linked(n) THEN Reports(output[n], n) ELSE output[n] = Pushed(n))'
  <2> SUFFICES ASSUME NEW n \in Nodes
               PROVE  IF Linked(n)' THEN Reports(output[n], n)' ELSE output'[n] = Pushed(n)'
    BY <1>1
  <2>1. Linked(n)' <=> Linked(n)
    BY <1>1 DEF Linked, Root
  <2>2. Reports(output[n], n)' <=> Reports(output[n], n)
    BY <1>1 DEF Reports
  <2>3. Pushed(n)' = Pushed(n)
    BY <1>1 DEF Pushed
  <2> QED
    BY <1>1, <2>1, <2>2, <2>3 DEF TrieRight
<1> QED
  BY <1>1, <1>3, <1>4, <1>5 DEF TrieRight

(***************************************************************************)
(* That the matching is exact.                                             *)
(***************************************************************************)

(* The ends of a node but itself, as FailLinksLongest collects them.       *)
LEMMA SuffixesAreEnds ==
  ASSUME NEW S, NEW n \in Seq(S), n # <<>>, NEW s \in Seq(S)
  PROVE  s \in Suffixes(n) \ {n} <=> EndOf(s, Tail(n))
<1> DEFINE a == Len(n)
           b == Len(s)
<1>1. a \in Nat /\ b \in Nat /\ \A j \in 1 .. a : n[j] \in S
  OBVIOUS
<1>2. EndOf(s, Tail(n)) <=> EndOf(s, n) /\ s # n
  BY EndsOfTail
<1>3. s \in Suffixes(n) <=> s = <<>> \/ \E l \in 1 .. a : s = SubSeq(n, l, a)
  BY DEF Suffixes
<1> HIDE DEF a, b
<1>4. ASSUME NEW l \in 1 .. a
      PROVE  /\ SubSeq(n, l, a) \in Seq(S) /\ Len(SubSeq(n, l, a)) = a - l + 1
             /\ \A j \in 1 .. a - l + 1 : SubSeq(n, l, a)[j] = n[l + j - 1]
  <2>1. l \in Int /\ a \in Int /\ l <= a /\ \A j \in l .. a : n[j] \in S
    BY <1>1
  <2> QED
    BY <2>1, SubSeqProperties
<1>5. ASSUME NEW l \in 1 .. a, s = SubSeq(n, l, a) PROVE EndOf(s, n)
  <2>1. b = a - l + 1 /\ b <= a /\ \A j \in 1 .. b : l + j - 1 = a - b + j
    BY <1>1, <1>4, <1>5 DEF b
  <2>2. \A j \in 1 .. b : s[j] = n[a - b + j]
    BY <1>4, <1>5, <2>1
  <2> QED
    BY <2>1, <2>2 DEF EndOf, a, b
<1>6. ASSUME EndOf(s, n), s # <<>> PROVE \E l \in 1 .. a : s = SubSeq(n, l, a)
  <2>1. b <= a /\ b > 0 /\ \A j \in 1 .. b : s[j] = n[a - b + j]
    BY <1>1, <1>6 DEF EndOf, a, b
  <2> DEFINE l == a - b + 1
  <2>2. l \in 1 .. a /\ a - l + 1 = b /\ \A j \in 1 .. b : l + j - 1 = a - b + j
    BY <1>1, <2>1
  <2> HIDE DEF l
  <2>3. /\ SubSeq(n, l, a) \in Seq(S) /\ Len(SubSeq(n, l, a)) = b
        /\ \A j \in 1 .. b : SubSeq(n, l, a)[j] = s[j]
    BY <1>4, <2>1, <2>2
  <2>4. s = SubSeq(n, l, a)
    BY <2>3, SeqEqual DEF b
  <2> QED
    BY <2>2, <2>4
<1>7. EndOf(<<>>, n)
  BY EndsOwn
<1> QED
  BY <1>2, <1>3, <1>5, <1>6, <1>7

(* Once the queue is empty, each link leads to the longest end.            *)
LEMMA LinksLongest ==
  ASSUME TrieRight
  PROVE  FailLinksLongest
<1> SUFFICES ASSUME unlinked = <<>>, NEW n \in Nodes \ {Root}
             PROVE  LET known == (Suffixes(n) \ {n}) \cap Nodes
                    IN  fail[n] = CHOOSE s \in known : \A t \in known : Len(t) <= Len(s)
  BY DEF FailLinksLongest
<1> DEFINE known == (Suffixes(n) \ {n}) \cap Nodes
           Best(s) == s \in known /\ \A t \in known : Len(t) <= Len(s)
<1>1. LinksRight /\ QueueRight /\ KeywordsTyped
  BY DEF TrieRight, LinksRight
<1>2. Nodes \subseteq Seq(Chars) /\ n \in Seq(Chars) /\ n # <<>> /\ Tail(n) \in Seq(Chars)
  BY <1>1, NodesTyped, EndsOfTail DEF Root
<1>3. Linked(n)
  BY <1>1, EmptyLinked
<1>4. Longest(fail[n], Tail(n))
  BY <1>1, <1>3, LinkLeads DEF Linked
<1>5. \A s : s \in known <=> s \in Nodes /\ EndOf(s, Tail(n))
  BY <1>2, SuffixesAreEnds
<1> HIDE DEF known
<1>6. \A s : Longest(s, Tail(n)) <=> Best(s)
  BY <1>5 DEF Longest
<1>7. \A s : Best(s) => s = fail[n]
  BY <1>1, <1>2, <1>4, <1>6, LongestIsOne
<1>8. Best(fail[n])
  BY <1>4, <1>6
<1>9. fail[n] = CHOOSE s \in known : \A t \in known : Len(t) <= Len(s)
  BY <1>7, <1>8
<1> QED
  BY <1>9 DEF known

(* And what is reported is what there is.                                  *)
LEMMA FoundIsExact ==
  ASSUME KeywordsTyped, SearchRight
  PROVE  SearchExact
<1>1. ASSUME NEW w \in DOMAIN keywords, keywords[w] # <<>>, NEW i \in 0 .. Len(text) - 1
      PROVE  Reported(keywords[w], i) =
               IF OccursAt(keywords[w], i)
                 THEN Cardinality({v \in DOMAIN keywords : keywords[v] = keywords[w]}) ELSE 0
  <2> DEFINE k == keywords[w]
             x == [keyword |-> k, index |-> i]
  <2>1. k \in Range(keywords) /\ i \in Nat
    BY DEF Range
  <2>2. CountIn(results, x) = IF OccursIn(k, i, text) THEN CountIn(keywords, k) ELSE 0
    BY <1>1, <2>1 DEF SearchRight, FoundRight
  <2>3. DOMAIN results = 1 .. Len(results) /\ DOMAIN keywords = 1 .. Len(keywords)
    BY DEF SearchRight, KeywordsTyped
  <2> HIDE DEF k
  <2>4. Reported(k, i) = CountIn(results, x)
    BY <2>3, Zenon DEF Reported, CountIn
  <2>5. Cardinality({v \in DOMAIN keywords : keywords[v] = k}) = CountIn(keywords, k)
    BY <2>3, Zenon DEF CountIn
  <2>6. OccursAt(k, i) <=> OccursIn(k, i, text)
    BY DEF OccursAt, OccursIn
  <2>7. Reported(k, i) = IF OccursAt(k, i)
          THEN Cardinality({v \in DOMAIN keywords : keywords[v] = k}) ELSE 0
    BY <2>2, <2>4, <2>5, <2>6, Zenon
  <2> QED
    BY <2>7 DEF k
<1> QED
  BY <1>1 DEF SearchExact, SearchRight

(* Each failure link leads to the longest proper suffix in the trie once   *)
(* all are built, and a search reports each keyword that is not empty      *)
(* exactly where it occurs, as often as it was given: for every dictionary *)
(* and every text (ahocorasick.ts:38-108).                                 *)
THEOREM MatchingExactHolds == GuardSpec => []MatchingExact
<1> DEFINE Right == TrieRight /\ SearchRight
<1>1. GuardInit => Right
  BY PartsStart, TrieStarts, SearchStarts
<1>2. Right /\ [GuardNext]_all => Right'
  <2> SUFFICES ASSUME TrieRight, SearchRight, [MatchingNext]_matching
               PROVE  TrieRight' /\ SearchRight'
    BY PartsStep
  <2>1. CASE LinkChildren
    BY <2>1, TrieTurned, SearchWaits
  <2>2. ASSUME NEW char \in Units, ReadUnit(char) PROVE TrieRight' /\ SearchRight'
    BY <2>2, TrieStays, UnitRead DEF ReadUnit
  <2>3. CASE UNCHANGED matching
    <3>1. TrieRight'
      BY <2>3, TrieStays DEF matching
    <3>2. /\ keywords' = keywords /\ text' = text /\ results' = results /\ node' = node
          /\ hit' = hit /\ unlinked' = unlinked /\ Nodes' = Nodes
      BY <2>3 DEF matching, Nodes
    <3> QED
      BY <3>1, <3>2 DEF SearchRight, Longest, FoundRight
  <2> QED
    BY <2>1, <2>2, <2>3 DEF MatchingNext
<1>3. Right => MatchingExact
  BY LinksLongest, FoundIsExact DEF MatchingExact, TrieRight, LinksRight
<1> QED
  BY <1>1, <1>2, <1>3, PTL DEF GuardSpec, all

================================================================================
