------------------------- MODULE CircuitBreakerProofs -------------------------
(***************************************************************************)
(* The safety properties of CircuitBreaker, for every threshold, timeout,  *)
(* quota and finite set of calls, and the proof that it implements         *)
(* BreakerContract.                                                        *)
(***************************************************************************)
EXTENDS CircuitBreaker, BreakerLemmas, FiniteSetTheorems, TLAPS

(* What each part of the inductive invariant adds: openedAt is known and   *)
(* in the past, and no call belongs to a period that has not begun.  The   *)
(* last is why a new period starts with no probe of its own.               *)
OpenedAtKnown ==
  /\ cb.openedAt = Null <=> cb.state = "CLOSED"
  /\ cb.openedAt <= now

PeriodsPast == \A c \in Calls : period[c] <= periods

IInv ==
  /\ TypeOK
  /\ OpenedAtKnown
  /\ PeriodsPast
  /\ ProbeAccounting
  /\ NeverClosedAtThreshold
  /\ TripsOnEvidence

(***************************************************************************)
(* The history variables.                                                  *)
(***************************************************************************)

(* The sets that are counted are finite.                                   *)
LEMMA CallSetsFinite ==
  /\ IsFiniteSet(Probes) /\ Cardinality(Probes) \in Nat
  /\ IsFiniteSet(Failed) /\ Cardinality(Failed) \in Nat
<1>1. Probes \subseteq Calls /\ Failed \subseteq Calls
  BY DEF Probes, Failed
<1>2. IsFiniteSet(Calls)
  BY CircuitBreakerAssumption
<1>3. IsFiniteSet(Probes) /\ IsFiniteSet(Failed)
  BY <1>1, <1>2, FS_Subset
<1> QED
  BY <1>3, FS_CardinalityType

(* A period that begins has no probes yet.                                 *)
LEMMA NewPeriodEmpty ==
  ASSUME TypeOK, PeriodsPast, TimeoutElapsed(cb, now), CountPeriod,
         UNCHANGED period
  PROVE  periods' = periods + 1 /\ Probes' = {}
<1>1. periods' = periods + 1
  BY DEF CountPeriod
<1>2. \A c \in Calls : period'[c] # periods'
  BY <1>1 DEF PeriodsPast, TypeOK
<1> QED
  BY <1>1, <1>2 DEF Probes

(***************************************************************************)
(* Preservation, one lemma per group of actions that share an argument.    *)
(***************************************************************************)

(* Looking at the state without starting a call: polls, refusals and a     *)
(* throwing onHalfOpen.                                                    *)
LEMMA LookPreserves ==
  ASSUME IInv, cb' = GetState(cb, now), CountPeriod, UNCHANGED <<now, period>>,
         pc' \in [Calls -> PC],
         Failed' = Failed,
         \A c \in Calls : pc'[c] = "running" <=> pc[c] = "running"
  PROVE  IInv'
<1> USE DEF IInv
<1>1. TypeOK'
  BY GetStateFields DEF TypeOK, CountPeriod
<1>2. OpenedAtKnown' /\ NeverClosedAtThreshold' /\ TripsOnEvidence'
  <2>1. cb'.failureCount = cb.failureCount /\ cb'.openedAt = cb.openedAt
    BY GetStateFields DEF TypeOK
  <2>2. cb'.state = "CLOSED" <=> cb.state = "CLOSED"
    BY GetStateFields DEF TypeOK, TimeoutElapsed
  <2> QED
    BY <2>1, <2>2 DEF OpenedAtKnown, NeverClosedAtThreshold, TripsOnEvidence
<1>3. PeriodsPast'
  BY DEF PeriodsPast, TypeOK, CountPeriod
<1>4. ProbeAccounting'
  <2>1. CASE TimeoutElapsed(cb, now)
    <3>1. periods' = periods + 1 /\ Probes' = {}
      BY <2>1, NewPeriodEmpty
    <3>2. cb'.halfOpenAttempts = 0
      BY <2>1, GetStateFields DEF TypeOK
    <3> QED
      BY <3>1, <3>2, FS_EmptySet, BreakerAssumption DEF ProbeAccounting, TypeOK
  <2>2. CASE ~ TimeoutElapsed(cb, now)
    <3>1. cb' = cb /\ periods' = periods
      BY <2>2, GetStateFields DEF TypeOK, CountPeriod
    <3>2. Probes' = Probes
      BY <3>1 DEF Probes
    <3> QED
      BY <3>1, <3>2 DEF ProbeAccounting
  <2> QED
    BY <2>1, <2>2
<1> QED
  BY <1>1, <1>2, <1>3, <1>4

(* A call that starts is a new probe exactly when the circuit is HALF_OPEN.*)
LEMMA CallAdmittedPreserves ==
  ASSUME IInv, NEW c \in Calls, CallAdmitted(c)
  PROVE  IInv'
<1> DEFINE g == GetState(cb, now)
<1> USE DEF IInv
<1>1. g \in BreakerRecord /\ cb' = Admit(g)
  BY GetStateFields DEF TypeOK, CallAdmitted
<1>2. TypeOK'
  BY <1>1, AdmitFields DEF TypeOK, CallAdmitted, CountPeriod, PC
<1>3. OpenedAtKnown' /\ NeverClosedAtThreshold' /\ TripsOnEvidence'
  <2>1. cb'.failureCount = cb.failureCount /\ cb'.openedAt = cb.openedAt
    BY <1>1, GetStateFields, AdmitFields DEF TypeOK
  <2>2. cb'.state = "CLOSED" <=> cb.state = "CLOSED"
    <3>1. cb'.state = g.state
      BY <1>1, AdmitFields
    <3>2. g.state = "CLOSED" <=> cb.state = "CLOSED"
      BY GetStateFields DEF TypeOK, TimeoutElapsed
    <3> QED
      BY <3>1, <3>2
  <2>3. Failed' = Failed
    BY DEF CallAdmitted, Failed, TypeOK
  <2> QED
    BY <2>1, <2>2, <2>3 DEF OpenedAtKnown, NeverClosedAtThreshold, TripsOnEvidence, CallAdmitted
<1>4. PeriodsPast'
  BY <1>2 DEF PeriodsPast, TypeOK, CountPeriod, CallAdmitted
<1>5. ASSUME cb'.state = "HALF_OPEN"
      PROVE  /\ periods' > 0
             /\ cb'.halfOpenAttempts = Cardinality(Probes')
             /\ cb'.halfOpenAttempts <= HalfOpenMaxRequests
  <2>1. /\ g.state = "HALF_OPEN"
        /\ cb'.halfOpenAttempts = g.halfOpenAttempts + 1
        /\ g.halfOpenAttempts < HalfOpenMaxRequests
    BY <1>1, <1>5, AdmitFields DEF CallAdmitted, Admits
  <2>2. period'[c] = periods' /\ pc'[c] = "running"
    BY <1>5 DEF CallAdmitted, TypeOK
  <2>3. \A d \in Calls \ {c} : period'[d] = period[d] /\ pc'[d] = pc[d]
    BY DEF CallAdmitted, TypeOK
  <2>4. CASE TimeoutElapsed(cb, now)
    <3>1. periods' = periods + 1 /\ g.halfOpenAttempts = 0
      BY <2>4, GetStateFields DEF CallAdmitted, CountPeriod, TypeOK
    <3>2. Probes' = {c}
      BY <3>1, <2>2, <2>3 DEF Probes, PeriodsPast, TypeOK
    <3>3. Cardinality(Probes') = 1
      BY <3>2, FS_Singleton
    <3>4. periods' > 0
      BY <3>1 DEF TypeOK
    <3> QED
      BY <2>1, <3>1, <3>3, <3>4, BreakerAssumption
  <2>5. CASE ~ TimeoutElapsed(cb, now)
    <3>1. periods' = periods /\ g = cb
      BY <2>5, GetStateFields DEF CallAdmitted, CountPeriod, TypeOK
    <3>2. Probes' = Probes \cup {c} /\ c \notin Probes
      BY <3>1, <2>2, <2>3 DEF Probes, CallAdmitted
    <3>3. Cardinality(Probes') = Cardinality(Probes) + 1
      BY <3>2, CallSetsFinite, FS_AddElement
    <3> QED
      BY <2>1, <3>1, <3>3, BreakerAssumption DEF ProbeAccounting, TypeOK, BreakerRecord
  <2> QED
    BY <2>4, <2>5
<1> QED
  BY <1>2, <1>3, <1>4, <1>5 DEF ProbeAccounting

(* A call that settles is never left in a HALF_OPEN circuit, and only one  *)
(* that failed is evidence.                                                *)
LEMMA SucceedPreserves ==
  ASSUME IInv, NEW c \in Calls, Succeed(c)
  PROVE  IInv'
<1> USE DEF IInv
<1>1. TypeOK'
  BY OnSuccessFields DEF TypeOK, Succeed, PC
<1>2. Failed' = Failed
  BY DEF Succeed, Failed, TypeOK
<1>3. CASE cb.state = "HALF_OPEN"
  <2>1. cb' = ResetBreaker
    BY <1>3, OnSuccessFields DEF Succeed, TypeOK
  <2>2. cb'.state = "CLOSED" /\ cb'.failureCount = 0 /\ cb'.openedAt = Null
    BY <2>1 DEF ResetBreaker
  <2> QED
    BY <1>1, <1>2, <2>2, CallSetsFinite DEF Succeed, TypeOK, OpenedAtKnown, PeriodsPast,
       ProbeAccounting, NeverClosedAtThreshold, TripsOnEvidence, Null
<1>4. CASE cb.state # "HALF_OPEN"
  <2>1. /\ cb'.state = cb.state /\ cb'.openedAt = cb.openedAt
        /\ cb'.failureCount <= cb.failureCount
    BY <1>4, OnSuccessFields DEF Succeed, TypeOK
  <2> QED
    BY <1>1, <1>2, <1>4, <2>1, CallSetsFinite, BreakerAssumption
    DEF Succeed, TypeOK, BreakerRecord, OpenedAtKnown, PeriodsPast, ProbeAccounting,
        NeverClosedAtThreshold, TripsOnEvidence
<1> QED
  BY <1>3, <1>4

(* Both ways to fail: the function's own failure counted on cb, and a      *)
(* throwing onClose counted on the breaker just reset.                     *)
LEMMA FailurePreserves ==
  ASSUME IInv, NEW c \in Calls, NEW b \in BreakerRecord,
         pc[c] = "running", pc' = [pc EXCEPT ![c] = "failed"],
         b = cb \/ b = ResetBreaker,
         cb' = OnFailure(b, now), UNCHANGED <<now, period, periods>>
  PROVE  IInv'
<1> USE DEF IInv
<1>1. TypeOK'
  BY OnFailureFields DEF TypeOK, PC
<1>2. Failed' = Failed \cup {c} /\ c \notin Failed
  BY DEF Failed, TypeOK
<1>3. Cardinality(Failed') = Cardinality(Failed) + 1 /\ Cardinality(Failed) \in Nat
  BY <1>2, CallSetsFinite, FS_AddElement
<1>4. /\ b.failureCount <= Cardinality(Failed)
      /\ b.state # "CLOSED" => Cardinality(Failed) >= Threshold
      /\ b.openedAt = Null <=> b.state = "CLOSED"
      /\ b.openedAt <= now
  BY <1>3 DEF TripsOnEvidence, OpenedAtKnown, ResetBreaker, Null, TypeOK
<1>5. /\ cb'.failureCount = b.failureCount + 1
      /\ b.state = "HALF_OPEN" => cb'.state = "OPEN" /\ cb'.openedAt = now
      /\ b.state = "OPEN" => cb'.state = "OPEN" /\ cb'.openedAt = b.openedAt
      /\ b.state = "CLOSED" /\ b.failureCount + 1 >= Threshold =>
           cb'.state = "OPEN" /\ cb'.openedAt = now
      /\ b.state = "CLOSED" /\ b.failureCount + 1 < Threshold =>
           cb'.state = "CLOSED" /\ cb'.openedAt = b.openedAt
  BY OnFailureFields DEF TypeOK
<1>6. /\ b.state \in CircuitState /\ b.failureCount \in Nat
      /\ b.openedAt \in Nat \cup {Null} /\ now \in Nat
  BY DEF BreakerRecord, TypeOK
<1>7. cb'.state # "HALF_OPEN" /\ NeverClosedAtThreshold'
  BY <1>5, <1>6, BreakerAssumption DEF CircuitState, NeverClosedAtThreshold
<1>8. TripsOnEvidence'
  BY <1>3, <1>4, <1>5, <1>6, BreakerAssumption DEF CircuitState, TripsOnEvidence
<1>9. OpenedAtKnown'
  BY <1>4, <1>5, <1>6, BreakerAssumption DEF CircuitState, OpenedAtKnown, Null
<1> QED
  BY <1>1, <1>7, <1>8, <1>9 DEF PeriodsPast, ProbeAccounting

(* The invariant holds in the initial state and is kept by every step.     *)
LEMMA InitIInv == Init => IInv
<1> SUFFICES ASSUME Init PROVE IInv
  OBVIOUS
<1>1. /\ cb.state = "CLOSED" /\ cb.failureCount = 0 /\ cb.openedAt = Null
      /\ cb \in BreakerRecord
  BY DEF Init, ResetBreaker, BreakerRecord, CircuitState, Null
<1> QED
  BY <1>1, CallSetsFinite DEF Init, IInv, TypeOK, PC, OpenedAtKnown, PeriodsPast,
     ProbeAccounting, NeverClosedAtThreshold, TripsOnEvidence, Null

(* Every step of the breaker and of its calls keeps the invariant.         *)
LEMMA NextIInv == IInv /\ [Next]_vars => IInv'
<1> SUFFICES ASSUME IInv, [Next]_vars PROVE IInv'
  OBVIOUS
<1>1. CASE Tick
  <2>1. Probes' = Probes /\ Failed' = Failed
    BY <1>1 DEF Tick, Probes, Failed
  <2> QED
    BY <1>1, <2>1 DEF Tick, IInv, TypeOK, BreakerRecord, OpenedAtKnown, PeriodsPast,
       ProbeAccounting, NeverClosedAtThreshold, TripsOnEvidence, Null
<1>2. CASE PollState
  <2>1. Failed' = Failed
    BY <1>2 DEF PollState, Failed
  <2> QED
    BY <1>2, <2>1, LookPreserves DEF PollState, IInv, TypeOK
<1>3. CASE Reset
  <2>1. /\ cb'.state = "CLOSED" /\ cb'.failureCount = 0 /\ cb'.openedAt = Null
        /\ cb' \in BreakerRecord
    BY <1>3 DEF Reset, ResetBreaker, BreakerRecord, CircuitState, Null
  <2>2. Failed' = Failed
    BY <1>3 DEF Reset, Failed
  <2> QED
    BY <1>3, <2>1, <2>2, CallSetsFinite DEF Reset, IInv, TypeOK, OpenedAtKnown, PeriodsPast,
       ProbeAccounting, NeverClosedAtThreshold, TripsOnEvidence, Null
<1>4. ASSUME NEW c \in Calls, CallAdmitted(c) PROVE IInv'
  BY <1>4, CallAdmittedPreserves
<1>5. ASSUME NEW c \in Calls, CallRefused(c) \/ CallbackThrows(c) PROVE IInv'
  <2>1. /\ cb' = GetState(cb, now) /\ CountPeriod /\ UNCHANGED <<now, period>>
        /\ pc[c] = "idle" /\ pc' = [pc EXCEPT ![c] = "refused"]
    BY <1>5 DEF CallRefused, CallbackThrows
  <2>2. /\ pc' \in [Calls -> PC] /\ Failed' = Failed
        /\ \A d \in Calls : pc'[d] = "running" <=> pc[d] = "running"
    BY <2>1 DEF IInv, TypeOK, PC, Failed
  <2> QED
    BY <2>1, <2>2, LookPreserves
<1>6. ASSUME NEW c \in Calls, Settle(c) PROVE IInv'
  <2>1. CASE Succeed(c)
    BY <2>1, SucceedPreserves
  <2>2. CASE Fail(c)
    BY <2>2, FailurePreserves DEF Fail, IInv, TypeOK
  <2>3. CASE SucceedButOnCloseThrows(c)
    <3>1. OnSuccess(cb) = ResetBreaker /\ OnSuccess(cb) \in BreakerRecord
      BY <2>3, OnSuccessFields DEF SucceedButOnCloseThrows, IInv, TypeOK
    <3> QED
      BY <2>3, <3>1, FailurePreserves DEF SucceedButOnCloseThrows
  <2> QED
    BY <1>6, <2>1, <2>2, <2>3 DEF Settle
<1>7. CASE UNCHANGED vars
  <2>1. Probes' = Probes /\ Failed' = Failed
    BY <1>7 DEF vars, Probes, Failed
  <2> QED
    BY <1>7, <2>1 DEF vars, IInv, TypeOK, OpenedAtKnown, PeriodsPast, ProbeAccounting,
       NeverClosedAtThreshold, TripsOnEvidence
<1> QED
  BY <1>1, <1>2, <1>3, <1>4, <1>5, <1>6, <1>7 DEF Next

(* The invariant holds throughout.                                         *)
LEMMA SpecIInv == Spec => []IInv
BY InitIInv, NextIInv, PTL DEF Spec

(***************************************************************************)
(* The theorems.                                                           *)
(***************************************************************************)

(* Every reachable breaker has fields of the declared types.               *)
THEOREM TypeCorrect == Spec => []TypeOK
BY SpecIInv, PTL DEF IInv

(* For every quota and timeout, halfOpenAttempts of a HALF_OPEN circuit is *)
(* the number of its own probes in flight and never exceeds the quota.     *)
THEOREM ProbeAccountingHolds == Spec => []ProbeAccounting
BY SpecIInv, PTL DEF IInv

(* No history of successes, failures, resets and throwing callbacks leaves *)
(* a circuit CLOSED at its threshold.                                      *)
THEOREM NeverClosedAtThresholdHolds == Spec => []NeverClosedAtThreshold
BY SpecIInv, PTL DEF IInv

(* A circuit that left CLOSED has seen at least Threshold calls fail.      *)
THEOREM TripsOnEvidenceHolds == Spec => []TripsOnEvidence
BY SpecIInv, PTL DEF IInv

(* For every threshold the circuit opens when it has to and never sooner.  *)
THEOREM TripsRightlyHolds == Spec => []TripsRightly
BY NeverClosedAtThresholdHolds, TripsOnEvidenceHolds, PTL DEF TripsRightly

(***************************************************************************)
(* Refinement: each step of the breaker is a step of the contract or       *)
(* leaves the contract's variables alone.                                  *)
(***************************************************************************)
(* What the breaker does to its gate, in the words of the contract.        *)
LEMMA GateSteps ==
  /\ SameGate(cb, cb') => Contract!Hold
  /\ Passing(cb') => Contract!Pass
  /\ Blocking(cb', now) => Contract!Block
  /\ \A left : Probing(cb', left) => Contract!Probe(left)
  /\ WaitOver(cb, now) => Contract!Waited
BY DEF SameGate, Passing, Blocking, Probing, WaitOver, Mode, Until, Quota, Contract!Hold,
   Contract!Pass, Contract!Block, Contract!Probe, Contract!Waited

(* A look at the state does nothing to the gate, or begins a probing       *)
(* period once the wait is over.                                           *)
LEMMA LookRefines ==
  ASSUME IInv, cb' = GetState(cb, now)
  PROVE  Contract!Hold \/ (Contract!Waited /\ Contract!Probe(HalfOpenMaxRequests))
BY GetStateGate, GateSteps DEF IInv, TypeOK

(* A call that starts finds the gate passing, or takes one of the probes.  *)
LEMMA StartRefines ==
  ASSUME IInv, NEW c \in Calls, CallAdmitted(c)
  PROVE  Contract!Start(c)
<1>1. /\ cb \in BreakerRecord /\ now \in Nat
      /\ Admits(GetState(cb, now)) /\ cb' = Admit(GetState(cb, now))
      /\ pc[c] = "idle" /\ pc' = [pc EXCEPT ![c] = "running"] /\ now' = now
  BY DEF IInv, TypeOK, CallAdmitted
<1>2. \/ Mode = "passing" /\ Contract!Hold
      \/ Mode = "probing" /\ Quota > 0 /\ Contract!Probe(Quota - 1)
      \/ /\ Contract!Waited /\ HalfOpenMaxRequests > 0
         /\ Contract!Probe(HalfOpenMaxRequests - 1)
  BY <1>1, AdmitGate, GateSteps DEF Mode, Quota
<1> QED
  BY <1>1, <1>2 DEF Contract!Start

(* A call is refused only by a gate that is not passing.                   *)
LEMMA RefuseRefines ==
  ASSUME IInv, NEW c \in Calls, CallRefused(c) \/ CallbackThrows(c)
  PROVE  Contract!Refuse(c)
<1>1. /\ cb' = GetState(cb, now) /\ pc[c] = "idle"
      /\ pc' = [pc EXCEPT ![c] = "refused"] /\ now' = now
      /\ cb \in BreakerRecord /\ now \in Nat
  BY DEF CallRefused, CallbackThrows, IInv, TypeOK
<1>2. Mode # "passing"
  BY <1>1, RefuseGate DEF CallRefused, CallbackThrows, TimeoutElapsed, Mode, GateMode
<1>3. Contract!Hold \/ (Contract!Waited /\ Contract!Probe(HalfOpenMaxRequests))
  BY <1>1, LookRefines
<1> QED
  BY <1>1, <1>2, <1>3 DEF Contract!Refuse

(* A settlement decides a probing period, may stop a passing gate, and     *)
(* never moves a blocking one.                                             *)
LEMMA SettleRefines ==
  ASSUME IInv, NEW c \in Calls, Settle(c)
  PROVE  Contract!Settle(c)
<1>1. /\ pc[c] = "running" /\ now' = now
      /\ \E result \in {"ok", "failed"} : pc' = [pc EXCEPT ![c] = result]
  BY DEF Settle, Succeed, Fail, SucceedButOnCloseThrows
<1>2. /\ cb \in BreakerRecord /\ now \in Nat
      /\ Mode \in {"passing", "probing", "blocking"}
  BY DEF IInv, TypeOK, Mode, GateMode
<1> DEFINE effect == \/ Mode = "passing" /\ (Contract!Hold \/ Contract!Block)
                     \/ Mode = "probing" /\ (Contract!Pass \/ Contract!Block)
                     \/ Mode = "blocking" /\ Contract!Hold
<1>3. ASSUME Succeed(c) PROVE effect
  <2>1. IF Mode = "probing" THEN Passing(cb') ELSE SameGate(cb, cb')
    BY <1>2, <1>3, OnSuccessGate DEF Succeed, Mode
  <2> QED
    BY <1>2, <2>1, GateSteps
<1>4. ASSUME Fail(c) PROVE effect
  <2>1. /\ Mode = "probing" => Blocking(cb', now)
        /\ Mode = "passing" => SameGate(cb, cb') \/ Blocking(cb', now)
        /\ Mode = "blocking" => SameGate(cb, cb')
    BY <1>2, <1>4, OnFailureGate DEF Fail, Mode
  <2> QED
    BY <1>2, <2>1, GateSteps
<1>5. ASSUME SucceedButOnCloseThrows(c) PROVE effect
  <2>1. Mode = "probing" /\ OnSuccess(cb) \in BreakerRecord /\ Passing(OnSuccess(cb))
    BY <1>2, <1>5, OnSuccessFields, OnSuccessGate
       DEF SucceedButOnCloseThrows, Mode, GateMode
  <2>2. SameGate(OnSuccess(cb), cb') \/ Blocking(cb', now)
    BY <1>2, <1>5, <2>1, OnFailureGate DEF SucceedButOnCloseThrows, Passing
  <2>3. Passing(cb') \/ Blocking(cb', now)
    BY <2>1, <2>2 DEF SameGate, Passing
  <2> QED
    BY <2>1, <2>3, GateSteps
<1>6. effect
  BY <1>3, <1>4, <1>5 DEF Settle
<1> QED
  BY <1>1, <1>6 DEF Contract!Settle

(* Every step of the breaker is a step of the contract or a stutter.       *)
LEMMA NextRefines == IInv /\ [Next]_vars => [Contract!Next]_(Contract!vars)
<1> SUFFICES ASSUME IInv, [Next]_vars
             PROVE  Contract!Next \/ UNCHANGED <<pc, now, Mode, Until, Quota>>
  BY DEF Contract!vars
<1>1. CASE Tick
  <2>1. now' > now /\ UNCHANGED <<pc, Mode, Until, Quota>>
    BY <1>1 DEF Tick, Mode, Until, Quota, GateMode, GateUntil, GateQuota, IInv, TypeOK
  <2> QED
    BY <2>1 DEF Contract!Next, Contract!Tick
<1>2. CASE PollState
  <2>1. cb' = GetState(cb, now) /\ UNCHANGED <<pc, now>>
    BY <1>2 DEF PollState
  <2> QED
    BY <2>1, LookRefines DEF Contract!Next, Contract!Look, Contract!Hold
<1>3. CASE Reset
  <2>1. cb'.state = "CLOSED" /\ UNCHANGED <<pc, now>>
    BY <1>3 DEF Reset, ResetBreaker
  <2> QED
    BY <2>1 DEF Contract!Next, Contract!Override, Contract!Pass, Mode, Until, Quota,
         GateMode, GateUntil, GateQuota
<1>4. ASSUME NEW c \in Calls,
             CallAdmitted(c) \/ CallRefused(c) \/ CallbackThrows(c) \/ Settle(c)
      PROVE  Contract!Next
  <2>1. Contract!Start(c) \/ Contract!Refuse(c) \/ Contract!Settle(c)
    BY <1>4, StartRefines, RefuseRefines, SettleRefines
  <2> QED
    BY <2>1 DEF Contract!Next
<1>5. CASE UNCHANGED vars
  BY <1>5 DEF vars, Mode, Until, Quota, GateMode, GateUntil, GateQuota
<1> QED
  BY <1>1, <1>2, <1>3, <1>4, <1>5 DEF Next

(* The breaker implements the gate: callers of a closed circuit are never  *)
(* refused, and an opened one starts no call for a whole ResetTimeout.     *)
THEOREM BreakerImplementsContract == Spec => ImplementsContract
<1>1. Init => Contract!Init
  BY DEF Init, ResetBreaker, Contract!Init, Mode, Until, Quota, GateMode, GateUntil,
     GateQuota
<1> QED
  BY <1>1, SpecIInv, NextRefines, PTL DEF Spec, ImplementsContract, Contract!Spec

===============================================================================
