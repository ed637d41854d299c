------------------------------- MODULE Breaker -------------------------------
(***************************************************************************)
(* The methods of class CircuitBreaker as functions of its fields.         *)
(* successCount and lastFailureTime are left out: getStats reports them    *)
(* and no method reads them.  Every module that embeds a breaker (the      *)
(* breaker alone, the worker pool, the wrapped vault) extends this one.    *)
(***************************************************************************)
EXTENDS Integers

CONSTANTS
  Threshold,            (* failures before a CLOSED circuit opens           *)
  ResetTimeout,         (* time an OPEN circuit waits before probing        *)
  HalfOpenMaxRequests   (* calls admitted per HALF_OPEN period              *)

ASSUME BreakerAssumption ==
  /\ Threshold \in Nat
  /\ ResetTimeout \in Nat
  /\ HalfOpenMaxRequests \in Nat

CircuitState == {"CLOSED", "OPEN", "HALF_OPEN"}

Null == -1              (* openedAt = null *)

BreakerRecord ==
  [state : CircuitState, failureCount : Nat,
   openedAt : Nat \cup {Null}, halfOpenAttempts : Nat]

(* The fields of a new breaker, and the effect of reset().                 *)
ResetBreaker ==
  [state |-> "CLOSED", failureCount |-> 0,
   openedAt |-> Null, halfOpenAttempts |-> 0]

(* Mutants (names with an underscore) are slips the properties must catch; *)
(* each precedes the definition it deforms.                                *)
TimeoutElapsed_Ignored(b, t) == b.state = "OPEN" /\ b.openedAt # Null

(* The effect of getState(): an OPEN circuit whose timeout has elapsed     *)
(* becomes HALF_OPEN when somebody looks at it, never on its own.          *)
TimeoutElapsed(b, t) ==
  b.state = "OPEN" /\ b.openedAt # Null /\ t - b.openedAt >= ResetTimeout

GetState(b, t) ==
  IF TimeoutElapsed(b, t)
    THEN [b EXCEPT !.state = "HALF_OPEN", !.halfOpenAttempts = 0]
    ELSE b

(* Does call() run its function, on a breaker that getState() refreshed,   *)
(* and what does it count before running it?                               *)
Admits(b) ==
  \/ b.state = "CLOSED"
  \/ b.state = "HALF_OPEN" /\ b.halfOpenAttempts < HalfOpenMaxRequests

Admit_Uncounted(b) == b

Admit(b) ==
  IF b.state = "HALF_OPEN" THEN [b EXCEPT !.halfOpenAttempts = @ + 1] ELSE b

OnSuccess(b) ==
  IF b.state = "HALF_OPEN"
    THEN ResetBreaker
    ELSE [b EXCEPT !.failureCount = IF @ > 0 THEN @ - 1 ELSE 0]

(* An OPEN breaker, opened at time t.                                      *)
Opened(failures, t, attempts) ==
  [state |-> "OPEN", failureCount |-> failures,
   openedAt |-> t, halfOpenAttempts |-> attempts]

OnFailure_StrictThreshold(b, t) ==
  IF b.state = "HALF_OPEN" \/ (b.state = "CLOSED" /\ b.failureCount >= Threshold)
    THEN Opened(b.failureCount + 1, t, 0)
    ELSE [b EXCEPT !.failureCount = @ + 1]

OnFailure_ProbeIgnored(b, t) ==
  IF b.state = "CLOSED" /\ b.failureCount + 1 >= Threshold
    THEN Opened(b.failureCount + 1, t, b.halfOpenAttempts)
    ELSE [b EXCEPT !.failureCount = @ + 1]

OnFailure(b, t) ==
  LET failures == b.failureCount + 1 IN
  IF b.state = "HALF_OPEN"
    THEN Opened(failures, t, 0)
  ELSE IF b.state = "CLOSED" /\ failures >= Threshold
    THEN Opened(failures, t, b.halfOpenAttempts)
  ELSE [b EXCEPT !.failureCount = failures]

(* How a breaker looks to its callers: the variables of BreakerContract.   *)
GateMode(b) ==
  IF b.state = "CLOSED" THEN "passing"
  ELSE IF b.state = "OPEN" THEN "blocking"
  ELSE "probing"
GateUntil(b) == IF b.state = "OPEN" THEN b.openedAt + ResetTimeout ELSE 0
GateQuota(b) ==
  IF b.state = "HALF_OPEN" THEN HalfOpenMaxRequests - b.halfOpenAttempts ELSE 0

=============================================================================
