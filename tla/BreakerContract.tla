--------------------------- MODULE BreakerContract ---------------------------
(***************************************************************************)
(* What a circuit breaker promises to its callers, whatever it counts:     *)
(*   - while it passes, no call is refused;                                *)
(*   - once it blocks, no call starts before ResetTimeout has gone by;     *)
(*   - after that at most HalfOpenMaxRequests calls start until one call   *)
(*     settles, and that settlement decides between passing and blocking   *)
(*     for a full timeout again.                                           *)
(***************************************************************************)
EXTENDS Integers

CONSTANTS Calls, ResetTimeout, HalfOpenMaxRequests

VARIABLES
  pc,      (* [Calls -> {"idle","running","ok","failed","refused"}]         *)
  now,     (* the clock                                                     *)
  mode,    (* "passing", "blocking" or "probing"                            *)
  until,   (* while blocking: when probing may begin                        *)
  quota    (* while probing: how many calls may still start                 *)

vars == <<pc, now, mode, until, quota>>

Init ==
  /\ pc = [c \in Calls |-> "idle"]
  /\ now \in Nat
  /\ mode = "passing" /\ until = 0 /\ quota = 0

Tick == now' > now /\ UNCHANGED <<pc, mode, until, quota>>

(* The next three say how a gate may change; `calls' is what the callers see. *)
Pass  == mode' = "passing" /\ until' = 0 /\ quota' = 0
Block == mode' = "blocking" /\ until' = now + ResetTimeout /\ quota' = 0
Probe(left) == mode' = "probing" /\ until' = 0 /\ quota' = left
Hold  == UNCHANGED <<mode, until, quota>>

Waited == mode = "blocking" /\ now >= until

(* Somebody looks at the gate after the timeout.                           *)
Look == Waited /\ Probe(HalfOpenMaxRequests) /\ UNCHANGED <<pc, now>>

Start(c) ==
  /\ pc[c] = "idle"
  /\ pc' = [pc EXCEPT ![c] = "running"]
  /\ \/ mode = "passing" /\ Hold
     \/ mode = "probing" /\ quota > 0 /\ Probe(quota - 1)
     \/ Waited /\ HalfOpenMaxRequests > 0 /\ Probe(HalfOpenMaxRequests - 1)
  /\ UNCHANGED now

Refuse(c) ==
  /\ pc[c] = "idle"
  /\ mode # "passing"
  /\ pc' = [pc EXCEPT ![c] = "refused"]
  /\ Hold \/ (Waited /\ Probe(HalfOpenMaxRequests))
  /\ UNCHANGED now

Settle(c) ==
  /\ pc[c] = "running"
  /\ \E result \in {"ok", "failed"} : pc' = [pc EXCEPT ![c] = result]
  /\ \/ mode = "passing" /\ (Hold \/ Block)
     \/ mode = "probing" /\ (Pass \/ Block)
     \/ mode = "blocking" /\ Hold
  /\ UNCHANGED now

Override == Pass /\ UNCHANGED <<pc, now>>

Next ==
  \/ Tick
  \/ Look
  \/ Override
  \/ \E c \in Calls : Start(c) \/ Refuse(c) \/ Settle(c)

Spec == Init /\ [][Next]_vars

=============================================================================
