------------------------------- MODULE TaintEngine -------------------------------
(***************************************************************************)
(* core/src/taint.ts: which values are tainted by which secrets.  The map  *)
(* remembers the order in which its keys were first inserted: setting a    *)
(* key it holds keeps its place, and eviction drops the oldest tenth.  A   *)
(* value is its hash here; a taint is the identity of its secret, its      *)
(* source and timestamp are only displayed.                                *)
(***************************************************************************)
EXTENDS Naturals, Sequences, FiniteSets, SequencesExt

CONSTANTS
  Values,      (* strings and objects, up to equality of their hash         *)
  Secrets,     (* secret identities                                         *)
  MaxTaints,   (* maxEntries                                                *)
  MaxTaintOps  (* bound on the operations of a behaviour                    *)

ASSUME TaintAssumption ==
  /\ IsFiniteSet(Values) /\ IsFiniteSet(Secrets)
  /\ {MaxTaints, MaxTaintOps} \subseteq Nat

VARIABLES
  order,   (* the keys of taintMap, oldest first                            *)
  taints,  (* [Values -> the secrets each carries], {} for a value without  *)
           (* an entry                                                      *)
  taintOps,
  kept,    (* history: what a map that never evicts, and to which propagate *)
           (* adds what its sources carry, would say of each value          *)
  lossy    (* history: an entry was evicted, or a propagate replaced taints *)

tainting == <<order, taints, taintOps, kept, lossy>>

TaintInit ==
  /\ order = <<>>
  /\ taints = [v \in Values |-> {}]
  /\ taintOps = 0
  /\ kept = [v \in Values |-> {}]
  /\ lossy = FALSE

-------------------------------------------------------------------------------
Inserted(v) == IF v \in Range(order) THEN order ELSE Append(order, v)

(* Math.ceil(maxEntries * 0.1); the loop drops one key before it compares. *)
Drop == IF MaxTaints = 0 THEN 1 ELSE (MaxTaints + 9) \div 10

(* Plausible bugs: eviction one entry early, and of the whole map.         *)
Evicted_AtLimit(keys) == IF Len(keys) >= MaxTaints THEN SubSeq(keys, 1, Drop) ELSE <<>>
Evicted_All(keys) == IF Len(keys) > MaxTaints THEN keys ELSE <<>>

(* evictIfNeeded, on the keys there are after an insertion.                *)
Evicted(keys) == IF Len(keys) > MaxTaints THEN SubSeq(keys, 1, Drop) ELSE <<>>

Operation == taintOps < MaxTaintOps /\ taintOps' = taintOps + 1

(* tag: nothing happens for a taint the value carries; else it is added    *)
(* and the map is cut, which takes the value itself when it is the oldest. *)
Tag(v, s) ==
  /\ Operation
  /\ IF s \in taints[v]
       THEN UNCHANGED <<order, taints>>
       ELSE LET keys == Inserted(v)
                out  == Evicted(keys)
            IN /\ order' = SubSeq(keys, Len(out) + 1, Len(keys))
               /\ taints' = [x \in Values |->
                    IF x \in Range(out) THEN {}
                    ELSE IF x = v THEN taints[v] \cup {s} ELSE taints[x]]
  /\ kept' = [kept EXCEPT ![v] = @ \cup {s}]
  /\ lossy' = (lossy \/ (s \notin taints[v] /\ Len(Inserted(v)) > MaxTaints))

(* propagate: what the sources carry replaces what the derived value had;  *)
(* nothing is evicted.  With no tainted source nothing changes.            *)
Propagate(sources, v) ==
  /\ Operation
  /\ LET all == UNION {taints[x] : x \in sources}
     IN /\ IF all = {}
          THEN UNCHANGED <<order, taints>>
          ELSE /\ order' = Inserted(v)
               /\ taints' = [taints EXCEPT ![v] = all]
        /\ lossy' = (lossy \/ (all # {} /\ ~(taints[v] \subseteq all)))
  /\ kept' = [kept EXCEPT ![v] = @ \cup UNION {kept[x] : x \in sources}]

(* untaint removes the value; a later tag inserts it as the newest.        *)
Untaint(v) ==
  /\ Operation
  /\ order' = RemoveFirst(order, v)
  /\ taints' = [taints EXCEPT ![v] = {}]
  /\ kept' = [kept EXCEPT ![v] = {}]
  /\ UNCHANGED lossy

TaintNext ==
  \E v \in Values :
    \/ \E s \in Secrets : Tag(v, s)
    \/ \E sources \in SUBSET Values : Propagate(sources, v)
    \/ Untaint(v)

-------------------------------------------------------------------------------
(* Until the limit is passed or a propagate replaces what a value carried, *)
(* the map says exactly which secrets reached which value: an untaint in   *)
(* between, a value tagged twice or derived from itself lose nothing.      *)
ExactWithinLimit == ~lossy => taints = kept

(* Propagation overfills the map without evicting; whatever its size, no   *)
(* operation but its own untaint takes the taint of one of the newest      *)
(* MaxTaints - Drop values.                                               *)
NewestSurvive ==
  [][\A i \in DOMAIN order :
       i > Len(order) - (MaxTaints - Drop) =>
         taints'[order[i]] # {} \/ Untaint(order[i])]_tainting

===============================================================================
