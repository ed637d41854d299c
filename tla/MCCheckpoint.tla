----------------------------- MODULE MCCheckpoint -----------------------------
EXTENDS CheckpointPorts

CONSTANTS c1, c2, s1, s2

(* The default instance, on states whose strings hold two secrets each.    *)
Default ==
  [texts |-> { <<s2, s1>> }, addressing |-> [l \in Leaf |-> "exact"],
   lands |-> [l \in Leaf |-> {}],
   pruneStrategy |-> "vault_with_taint", hexPattern |-> TRUE,
   rotationHook |-> FALSE, callerWrites |-> FALSE]

Rotating == [Default EXCEPT !.texts = { <<s1>> }, !.rotationHook = TRUE]
Masking  == [Default EXCEPT !.texts = { <<>>, <<s1>> }, !.pruneStrategy = "redact"]
Writing  == [Default EXCEPT !.texts = { <<s1>> }, !.callerWrites = TRUE]

(* Custom patterns without the hex rule, and a key with a dot.             *)
Dotted ==
  [Default EXCEPT !.texts = { <<>>, <<s1>> }, !.hexPattern = FALSE,
                  !.addressing[NumLeaves] = "dotted"]

(* A key whose path leads to another leaf, before or after it, to an object *)
(* above another leaf, or to a place that holds none: {"a.b": .., a: {..}}. *)
Astray(l, way, ls) ==
  [Default EXCEPT !.texts = { <<s1>> }, !.addressing[l] = way, !.lands[l] = ls]

Strayed ==
  {Astray(1, "onto", {2}), Astray(2, "onto", {1}), Astray(1, "over", {2}), Astray(1, "onto", {})}

Working == {Default, Rotating, Masking, Writing, Dotted} \cup Strayed

(* The last leaf is reached through an object visited before, or through a *)
(* key that the guard of replaceAtPath refuses.                            *)
Unreached ==
  {[Default EXCEPT !.texts = { <<s1>> }, !.addressing[NumLeaves] = a] :
     a \in {"unvisited", "blocked"}}

(* For the worker and Python: states whose first leaf is reached in every  *)
(* way there is, and a string alone, where the second leaf is nothing.     *)
Reached ==
  {[Rotating EXCEPT !.addressing[1] = a] : a \in {"exact", "dotted", "blocked", "unvisited"}}

String ==
  [Default EXCEPT !.texts = { <<s1>> }, !.addressing = << "root", "unvisited" >>]

Ported == Reached \cup Strayed \cup {String, Default, Masking}

AllConfigs == Working \cup Ported
ConfigsOf == [p \in Ports |-> IF p = "local" THEN Working ELSE Ported]
Shared == [p \in Ports |-> Unreached]
===============================================================================
