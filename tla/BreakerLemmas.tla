---------------------------- MODULE BreakerLemmas ----------------------------
(***************************************************************************)
(* What the methods of the breaker do to its fields, for the proofs about  *)
(* the modules that embed one.                                             *)
(***************************************************************************)
EXTENDS Breaker, TLAPS

(* getState() leaves a well-typed breaker and only acts on an elapsed one. *)
LEMMA GetStateFields ==
  ASSUME NEW b \in BreakerRecord, NEW t \in Nat
  PROVE  /\ GetState(b, t) \in BreakerRecord
         /\ GetState(b, t).failureCount = b.failureCount
         /\ GetState(b, t).openedAt = b.openedAt
         /\ TimeoutElapsed(b, t) =>
              GetState(b, t).state = "HALF_OPEN" /\ GetState(b, t).halfOpenAttempts = 0
         /\ ~ TimeoutElapsed(b, t) => GetState(b, t) = b
BY DEF GetState, TimeoutElapsed, BreakerRecord, CircuitState, Null

(* Admission changes nothing but the count of probes.                      *)
LEMMA AdmitFields ==
  ASSUME NEW b \in BreakerRecord
  PROVE  /\ Admit(b) \in BreakerRecord
         /\ Admit(b).state = b.state
         /\ Admit(b).failureCount = b.failureCount
         /\ Admit(b).openedAt = b.openedAt
         /\ b.state = "HALF_OPEN" => Admit(b).halfOpenAttempts = b.halfOpenAttempts + 1
         /\ b.state # "HALF_OPEN" => Admit(b) = b
BY DEF Admit, BreakerRecord, CircuitState

(* A success either resets the breaker or lowers the failure count.        *)
LEMMA OnSuccessFields ==
  ASSUME NEW b \in BreakerRecord
  PROVE  /\ OnSuccess(b) \in BreakerRecord
         /\ b.state = "HALF_OPEN" => OnSuccess(b) = ResetBreaker
         /\ b.state # "HALF_OPEN" =>
              /\ OnSuccess(b).state = b.state
              /\ OnSuccess(b).openedAt = b.openedAt
              /\ OnSuccess(b).halfOpenAttempts = b.halfOpenAttempts
              /\ OnSuccess(b).failureCount <= b.failureCount
BY DEF OnSuccess, ResetBreaker, BreakerRecord, CircuitState, Null

(* A failure is counted; it opens a HALF_OPEN circuit at once and a CLOSED *)
(* one at the threshold.                                                   *)
LEMMA OnFailureFields ==
  ASSUME NEW b \in BreakerRecord, NEW t \in Nat
  PROVE  /\ OnFailure(b, t) \in BreakerRecord
         /\ OnFailure(b, t).failureCount = b.failureCount + 1
         /\ b.state = "HALF_OPEN" =>
              OnFailure(b, t).state = "OPEN" /\ OnFailure(b, t).openedAt = t
         /\ b.state = "OPEN" =>
              OnFailure(b, t).state = "OPEN" /\ OnFailure(b, t).openedAt = b.openedAt
         /\ b.state = "CLOSED" /\ b.failureCount + 1 >= Threshold =>
              OnFailure(b, t).state = "OPEN" /\ OnFailure(b, t).openedAt = t
         /\ b.state = "CLOSED" /\ b.failureCount + 1 < Threshold =>
              OnFailure(b, t).state = "CLOSED" /\ OnFailure(b, t).openedAt = b.openedAt
<1> USE BreakerAssumption DEF BreakerRecord, CircuitState, Null
<1>1. \A k \in Nat : Opened(b.failureCount + 1, t, k) \in BreakerRecord
  BY DEF Opened
<1>2. [b EXCEPT !.failureCount = b.failureCount + 1] \in BreakerRecord
  OBVIOUS
<1> QED
  BY <1>1, <1>2 DEF OnFailure, Opened

(***************************************************************************)
(* The gate of BreakerContract, seen on the breaker before (b) and after   *)
(* (g) a method: what each method does to it.  The modules that embed a    *)
(* breaker compose their refinement from these.                            *)
(***************************************************************************)
SameGate(b, g) ==
  /\ GateMode(g) = GateMode(b)
  /\ GateUntil(g) = GateUntil(b)
  /\ GateQuota(g) = GateQuota(b)

Passing(g)       == GateMode(g) = "passing" /\ GateUntil(g) = 0 /\ GateQuota(g) = 0
Probing(g, left) == GateMode(g) = "probing" /\ GateUntil(g) = 0 /\ GateQuota(g) = left
Blocking(g, t)   ==
  GateMode(g) = "blocking" /\ GateUntil(g) = t + ResetTimeout /\ GateQuota(g) = 0

(* The wait of a blocking gate is over.                                    *)
WaitOver(b, t) == GateMode(b) = "blocking" /\ t >= GateUntil(b)

(* A look at the state does nothing, or begins probing after the wait.     *)
LEMMA GetStateGate ==
  ASSUME NEW b \in BreakerRecord, NEW t \in Nat, NEW g, g = GetState(b, t)
  PROVE  SameGate(b, g) \/ (WaitOver(b, t) /\ Probing(g, HalfOpenMaxRequests))
<1>1. CASE TimeoutElapsed(b, t)
  <2>1. g.state = "HALF_OPEN" /\ g.halfOpenAttempts = 0
    BY <1>1, GetStateFields
  <2>2. b.state = "OPEN" /\ t >= b.openedAt + ResetTimeout
    BY <1>1, BreakerAssumption DEF TimeoutElapsed, BreakerRecord, Null
  <2> QED
    BY <2>1, <2>2, BreakerAssumption
       DEF WaitOver, Probing, GateMode, GateUntil, GateQuota
<1>2. CASE ~ TimeoutElapsed(b, t)
  BY <1>2, GetStateFields DEF SameGate
<1> QED
  BY <1>1, <1>2

(* A call is admitted by a passing gate, or takes one of the probes.       *)
LEMMA AdmitGate ==
  ASSUME NEW b \in BreakerRecord, NEW t \in Nat, Admits(GetState(b, t)),
         NEW g, g = Admit(GetState(b, t))
  PROVE  \/ GateMode(b) = "passing" /\ SameGate(b, g)
         \/ GateMode(b) = "probing" /\ GateQuota(b) > 0 /\ Probing(g, GateQuota(b) - 1)
         \/ /\ WaitOver(b, t) /\ HalfOpenMaxRequests > 0
            /\ Probing(g, HalfOpenMaxRequests - 1)
<1> DEFINE h == GetState(b, t)
<1>1. h \in BreakerRecord /\ h.halfOpenAttempts \in Nat
  BY GetStateFields DEF BreakerRecord
<1>2. CASE h.state = "CLOSED"
  <2>1. h = b /\ g = h
    BY <1>1, <1>2, GetStateFields, AdmitFields
  <2> QED
    BY <1>2, <2>1 DEF SameGate, GateMode
<1>3. CASE h.state = "HALF_OPEN" /\ h.halfOpenAttempts < HalfOpenMaxRequests
  <2>1. g.state = "HALF_OPEN" /\ g.halfOpenAttempts = h.halfOpenAttempts + 1
    BY <1>1, <1>3, AdmitFields
  <2>2. GateMode(h) = "probing" /\ GateQuota(h) > 0 /\ Probing(g, GateQuota(h) - 1)
    <3>1. GateQuota(h) = HalfOpenMaxRequests - h.halfOpenAttempts
      BY <1>3 DEF GateQuota
    <3>2. GateQuota(g) = HalfOpenMaxRequests - (h.halfOpenAttempts + 1)
      BY <2>1 DEF GateQuota
    <3> HIDE DEF h
    <3>3. GateQuota(h) > 0 /\ GateQuota(g) = GateQuota(h) - 1
      BY <1>1, <1>3, <3>1, <3>2, BreakerAssumption
    <3> QED
      BY <1>3, <2>1, <3>3 DEF Probing, GateMode, GateUntil
  <2>3. SameGate(b, h) \/ (WaitOver(b, t) /\ Probing(h, HalfOpenMaxRequests))
    BY GetStateGate
  <2> HIDE DEF h
  <2> QED
    BY <2>2, <2>3 DEF SameGate, Probing
<1> QED
  BY <1>2, <1>3 DEF Admits

(* Only a gate that does not pass refuses.                                 *)
LEMMA RefuseGate ==
  ASSUME NEW b \in BreakerRecord, NEW t \in Nat, ~ Admits(GetState(b, t))
  PROVE  GateMode(b) # "passing"
BY GetStateFields DEF Admits, TimeoutElapsed, GateMode

(* A success ends a probing period and leaves any other gate alone.        *)
LEMMA OnSuccessGate ==
  ASSUME NEW b \in BreakerRecord, NEW g, g = OnSuccess(b)
  PROVE  IF GateMode(b) = "probing" THEN Passing(g) ELSE SameGate(b, g)
<1>1. b.state \in CircuitState
  BY DEF BreakerRecord
<1>2. CASE b.state = "HALF_OPEN"
  BY <1>2, OnSuccessFields DEF ResetBreaker, Passing, GateMode, GateUntil, GateQuota
<1>3. CASE b.state # "HALF_OPEN"
  BY <1>1, <1>3, OnSuccessFields DEF CircuitState, SameGate, GateMode, GateUntil, GateQuota
<1> QED
  BY <1>2, <1>3

(* A failure blocks a probing gate, may block a passing one and does not   *)
(* prolong the wait of one that blocks.                                    *)
LEMMA OnFailureGate ==
  ASSUME NEW b \in BreakerRecord, NEW t \in Nat, NEW g, g = OnFailure(b, t)
  PROVE  /\ GateMode(b) = "probing" => Blocking(g, t)
         /\ GateMode(b) = "passing" => SameGate(b, g) \/ Blocking(g, t)
         /\ GateMode(b) = "blocking" => SameGate(b, g)
<1> DEFINE opened == g.state = "OPEN" /\ g.openedAt = t
<1>1. /\ b.state = "HALF_OPEN" => opened
      /\ b.state = "OPEN" => g.state = "OPEN" /\ g.openedAt = b.openedAt
      /\ b.state = "CLOSED" => g.state = "CLOSED" \/ opened
  <2>1. b.failureCount + 1 >= Threshold \/ b.failureCount + 1 < Threshold
    BY BreakerAssumption DEF BreakerRecord
  <2> QED
    BY <2>1, OnFailureFields
<1>2. opened => Blocking(g, t)
  BY DEF Blocking, GateMode, GateUntil, GateQuota
<1>3. b.state \in CircuitState
  BY DEF BreakerRecord
<1> QED
  BY <1>1, <1>2, <1>3 DEF CircuitState, SameGate, GateMode, GateUntil, GateQuota

===============================================================================
