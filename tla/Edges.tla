---------------------------------- MODULE Edges ----------------------------------
(***************************************************************************)
(* What stands between KeySpot and those who use it: the wrappers around   *)
(* models, agents and vector stores, the command line, and the server's    *)
(* bookkeeping of requests.  They are separate programs: a behaviour moves *)
(* one of them, chosen from Parts at the start, and the others stay as     *)
(* they were built.                                                        *)
(***************************************************************************)
EXTENDS Wrappers, CommandLine, RequestMetrics

CONSTANTS Parts   (* those that may move                                    *)

ASSUME EdgesAssumption == Parts \subseteq {"wrappers", "cli", "requests"}

VARIABLE part

EdgesInit ==
  /\ part \in Parts
  /\ WrapInit /\ CommandInit /\ MetricsInit
  /\ part # "wrappers" =>
       /\ shape = Unwrapped /\ content = [p \in 1 .. 6 |-> "clean"]
       /\ strategy = CHOOSE one \in Strategies : TRUE
  /\ part # "cli" =>
       /\ args = [first |-> "none", git |-> FALSE, prune |-> FALSE, json |-> FALSE]
       /\ access = [f \in Files |-> "ok"]
       /\ disk = [f \in Files |-> {}] /\ index = [f \in Files |-> {}]

Still(p, v) == part = p \/ UNCHANGED v

EdgesNext ==
  /\ \/ part = "wrappers" /\ WrapNext
     \/ part = "cli" /\ CommandNext
     \/ part = "requests" /\ MetricsNext
  /\ Still("wrappers", wrapping) /\ Still("cli", commanding) /\ Still("requests", telemetry)
  /\ UNCHANGED part

EdgesSpec == EdgesInit /\ [][EdgesNext]_<<part, wrapping, commanding, telemetry>>

===============================================================================
