---------------------------- MODULE CircuitBreaker ----------------------------
(***************************************************************************)
(* One CircuitBreaker shared by concurrent calls.  call() is atomic up to  *)
(* the first await inside fn() and again from its settlement on, so a call *)
(* is two actions, Call and Succeed/Fail, and anything may run in between. *)
(* A function that never settles is a call that stays "running".           *)
(***************************************************************************)
EXTENDS Breaker, FiniteSets

CONSTANTS
  Calls,                (* invocations of call(); a retry is another one    *)
  CallbacksMayThrow,    (* can onHalfOpen or onClose throw?                 *)
  MaxTime               (* bound on the clock                               *)

ASSUME CircuitBreakerAssumption ==
  /\ IsFiniteSet(Calls)
  /\ CallbacksMayThrow \in BOOLEAN
  /\ MaxTime \in Nat

VARIABLES
  cb,       (* the breaker's fields                                         *)
  now,      (* Date.now()                                                   *)
  pc,       (* where each call is                                           *)
  period,   (* history: the HALF_OPEN period that admitted a call, 0 if the *)
            (* circuit was CLOSED                                           *)
  periods   (* history: how many HALF_OPEN periods there have been          *)

vars == <<cb, now, pc, period, periods>>

PC == {"idle", "running", "ok", "failed", "refused"}

Init ==
  /\ cb = ResetBreaker
  /\ now = 0
  /\ pc = [c \in Calls |-> "idle"]
  /\ period = [c \in Calls |-> 0]
  /\ periods = 0

Tick ==
  /\ now < MaxTime
  /\ now' = now + 1
  /\ UNCHANGED <<cb, pc, period, periods>>

(* Every look at the state may begin a HALF_OPEN period.                   *)
CountPeriod == periods' = IF TimeoutElapsed(cb, now) THEN periods + 1 ELSE periods

(* getState() called by anyone, e.g. for the details of a VaultError.      *)
PollState ==
  /\ cb' = GetState(cb, now)
  /\ CountPeriod
  /\ UNCHANGED <<now, pc, period>>

CallAdmitted(c) ==
  /\ pc[c] = "idle"
  /\ Admits(GetState(cb, now))
  /\ cb' = Admit(GetState(cb, now))
  /\ CountPeriod
  /\ pc' = [pc EXCEPT ![c] = "running"]
  /\ period' = [period EXCEPT ![c] = IF cb'.state = "HALF_OPEN" THEN periods' ELSE 0]
  /\ UNCHANGED now

CallRefused(c) ==
  /\ pc[c] = "idle"
  /\ ~ Admits(GetState(cb, now))
  /\ cb' = GetState(cb, now)
  /\ CountPeriod
  /\ pc' = [pc EXCEPT ![c] = "refused"]
  /\ UNCHANGED <<now, period>>

(* getState() has changed the state when onHalfOpen throws out of call().  *)
CallbackThrows(c) ==
  /\ CallbacksMayThrow
  /\ pc[c] = "idle"
  /\ TimeoutElapsed(cb, now)
  /\ cb' = GetState(cb, now)
  /\ CountPeriod
  /\ pc' = [pc EXCEPT ![c] = "refused"]
  /\ UNCHANGED <<now, period>>

Succeed(c) ==
  /\ pc[c] = "running"
  /\ cb' = OnSuccess(cb)
  /\ pc' = [pc EXCEPT ![c] = "ok"]
  /\ UNCHANGED <<now, period, periods>>

Fail(c) ==
  /\ pc[c] = "running"
  /\ cb' = OnFailure(cb, now)
  /\ pc' = [pc EXCEPT ![c] = "failed"]
  /\ UNCHANGED <<now, period, periods>>

(* onClose runs inside the try block of call(): when it throws, the call   *)
(* that closed the circuit is also counted as a failure and rejects.       *)
SucceedButOnCloseThrows(c) ==
  /\ CallbacksMayThrow
  /\ pc[c] = "running"
  /\ cb.state = "HALF_OPEN"
  /\ cb' = OnFailure(OnSuccess(cb), now)
  /\ pc' = [pc EXCEPT ![c] = "failed"]
  /\ UNCHANGED <<now, period, periods>>

Reset ==
  /\ cb' = ResetBreaker
  /\ UNCHANGED <<now, pc, period, periods>>

Settle(c) == Succeed(c) \/ Fail(c) \/ SucceedButOnCloseThrows(c)

Next ==
  \/ Tick
  \/ PollState
  \/ Reset
  \/ \E c \in Calls :
       CallAdmitted(c) \/ CallRefused(c) \/ CallbackThrows(c) \/ Settle(c)

Spec == Init /\ [][Next]_vars

(* Fairness of a downstream service that answers every call; nothing makes *)
(* callers call, poll or reset.                                            *)
FairSpec == Spec /\ \A c \in Calls : WF_vars(Settle(c))

-------------------------------------------------------------------------------
TypeOK ==
  /\ cb \in BreakerRecord
  /\ now \in Nat
  /\ pc \in [Calls -> PC]
  /\ period \in [Calls -> Nat]
  /\ periods \in Nat

(* The running calls that the present HALF_OPEN period admitted.           *)
Probes == {c \in Calls : pc[c] = "running" /\ period[c] = periods}

(* While HALF_OPEN, halfOpenAttempts is exactly the number of probes in    *)
(* flight and within the quota: no probe is forgotten and none counted     *)
(* twice, whatever older calls, polls and resets did before (lines 48-81). *)
ProbeAccounting ==
  cb.state = "HALF_OPEN" =>
    /\ periods > 0
    /\ cb.halfOpenAttempts = Cardinality(Probes)
    /\ cb.halfOpenAttempts <= HalfOpenMaxRequests

(* A circuit never stays CLOSED once its failures reach the threshold,     *)
(* although failures decay with successes that settle in any state and an  *)
(* onClose that throws counts a failure into a circuit just reset.         *)
NeverClosedAtThreshold ==
  cb.state = "CLOSED" => cb.failureCount = 0 \/ cb.failureCount < Threshold

(* Every counted failure is a call that failed: the circuit leaves CLOSED  *)
(* only on the evidence of at least Threshold failed calls.                *)
Failed == {c \in Calls : pc[c] = "failed"}

TripsOnEvidence ==
  /\ cb.failureCount <= Cardinality(Failed)
  /\ cb.state # "CLOSED" => Cardinality(Failed) >= Threshold

(* The circuit opens when it has to and never sooner: it is not CLOSED at  *)
(* its threshold, and not OPEN without the failed calls that say so,       *)
(* whatever decays and resets have made of failureCount (lines 84-111).    *)
TripsRightly == NeverClosedAtThreshold /\ TripsOnEvidence

(* The abstract gate this breaker implements.                              *)
Mode  == GateMode(cb)
Until == GateUntil(cb)
Quota == GateQuota(cb)

Contract == INSTANCE BreakerContract WITH mode <- Mode, until <- Until, quota <- Quota

(* The breaker keeps the promises of BreakerContract: closed circuits      *)
(* refuse nothing, an opened one starts no call for a whole timeout, and   *)
(* one settlement decides a probing period.                                *)
ImplementsContract == Contract!Spec

(* A HALF_OPEN circuit that spent its quota does not stay so: if every     *)
(* call that runs settles, the period ends.                                *)
QuotaSpent == cb.state = "HALF_OPEN" /\ cb.halfOpenAttempts = HalfOpenMaxRequests

NoWedge == QuotaSpent ~> ~ QuotaSpent

===============================================================================
