------------------------------- MODULE StateWalk -------------------------------
(***************************************************************************)
(* Scanner.scan (core/src/scanner.ts) on a state of objects and arrays:    *)
(* depth first, member by member, past what lies too deep, is too large or *)
(* was visited before.  A state may hold an object twice, or within itself.*)
(*                                                                         *)
(* A string is its length; what is found in it is Checkpoint's.  Numbers,  *)
(* which only add to a size, are left out, and so are the awaits: nothing  *)
(* of a walk is shared with another one.                                   *)
(***************************************************************************)
EXTENDS Naturals, Sequences, FiniteSets, FiniteSetsExt, SequencesExt

CONSTANTS
  Objects,       (* objects and arrays                                      *)
  Top,           (* the one scan is called with                             *)
  States,        (* records [kind, members] over Objects; a member is       *)
                 (* [object] or [text], a length                            *)
  MaxScanDepth, MaxScanSize

ASSUME StateWalkAssumption ==
  /\ IsFiniteSet(Objects) /\ Top \in Objects
  /\ {MaxScanDepth, MaxScanSize} \subseteq Nat
  /\ \A s \in States :
       /\ s.kind \in [Objects -> {"object", "array"}]
       /\ s.members \in [Objects -> Seq([object : Objects] \cup [text : Nat])]

VARIABLES
  scanning,  (* the state                                                   *)
  frames,    (* the calls of scan in progress, outermost first: the object  *)
             (* of each and which member comes next                         *)
  visited,
  scanned,   (* the strings scanned: <<object, place in it>>                *)
  metAt      (* history: the depth at which each object was first met       *)

walking == <<scanning, frames, visited, scanned, metAt>>

WalkInit ==
  /\ scanning \in States
  /\ frames = <<>>
  /\ visited = {}
  /\ scanned = <<>>
  /\ metAt = [o \in Objects |-> 0]

-------------------------------------------------------------------------------
Members(o) == scanning.members[o]
IsText(m) == DOMAIN m = {"text"}
Held(o) == {m.object : m \in {n \in Range(Members(o)) : ~IsText(n)}}

(* Objects from which o is reached, and o; in at most Cardinality steps.   *)
Below(o) ==
  LET down[d \in Nat] == IF d = 0 THEN {o} ELSE down[d - 1] \cup UNION {Held(x) : x \in down[d - 1]}
  IN  down[Cardinality(Objects)]

(* approxSize, which counts an object once however often it is held; that  *)
(* it stops early makes no difference to the comparison.                   *)
ApproxSize(o) ==
  MapThenSumSet(
    LAMBDA x : FoldLeft(LAMBDA sum, m : IF IsText(m) THEN sum + m.text ELSE sum, 0, Members(x)),
    Below(o))

(* Only an object is measured: an array is entered whatever its size.      *)
Enterable(o) == scanning.kind[o] = "object" => ApproxSize(o) <= MaxScanSize

(* A plausible bug: one level is lost.                                     *)
InDepth_Strict(depth) == depth < MaxScanDepth

InDepth(depth) == depth <= MaxScanDepth

(* A call of scan for an object: it is visited before it is measured.      *)
Enter(o, below) ==
  LET depth == Len(below)
  IN  IF InDepth(depth) /\ o \notin visited
        THEN /\ visited' = visited \cup {o}
             /\ metAt' = [metAt EXCEPT ![o] = depth]
             /\ frames' = IF Enterable(o) THEN Append(below, [object |-> o, next |-> 1]) ELSE below
        ELSE /\ frames' = below
             /\ UNCHANGED <<visited, metAt>>

ScanState ==
  /\ visited = {}
  /\ Enter(Top, <<>>)
  /\ UNCHANGED <<scanning, scanned>>

Innermost == frames[Len(frames)]

(* The next member: a string within the limits is scanned, an object is    *)
(* entered.                                                                *)
ScanMember ==
  /\ frames # <<>> /\ Innermost.next <= Len(Members(Innermost.object))
  /\ LET m     == Members(Innermost.object)[Innermost.next]
         below == [frames EXCEPT ![Len(frames)].next = @ + 1]
     IN IF IsText(m)
          THEN /\ scanned' = IF InDepth(Len(frames)) /\ m.text <= MaxScanSize
                               THEN Append(scanned, <<Innermost.object, Innermost.next>>)
                               ELSE scanned
               /\ frames' = below
               /\ UNCHANGED <<visited, metAt>>
          ELSE Enter(m.object, below) /\ UNCHANGED scanned
  /\ UNCHANGED scanning

ReturnScan ==
  /\ frames # <<>> /\ Innermost.next > Len(Members(Innermost.object))
  /\ frames' = Front(frames)
  /\ UNCHANGED <<scanning, visited, scanned, metAt>>

WalkNext == ScanState \/ ScanMember \/ ReturnScan

-------------------------------------------------------------------------------
(* Objects that can be reached in d steps through objects that are entered.*)
Reached[d \in Nat] ==
  IF d = 0 THEN {Top} ELSE Reached[d - 1] \cup UNION {Held(o) : o \in {x \in Reached[d - 1] : Enterable(x)}}

(* A string is scanned once, however often its object is held and whatever *)
(* holds itself.                                                           *)
ScannedOnce == IsInjective(scanned)

(* A string within the limits by some way is passed over only if an object *)
(* it lies in was first met by a longer way: then the depth ran out, and   *)
(* the shorter way finds the object visited (scanner.ts:120-191).          *)
MissedExplained ==
  (frames = <<>> /\ visited # {}) =>
    \A o \in Objects : \A i \in DOMAIN Members(o) :
      LET m == Members(o)[i]
      IN  (IsText(m) /\ m.text <= MaxScanSize /\ Enterable(o) /\ MaxScanDepth > 0
             /\ o \in Reached[MaxScanDepth - 1] /\ <<o, i>> \notin Range(scanned)) =>
            \E a \in visited : metAt[a] > 0 /\ a \in Reached[metAt[a] - 1] /\ o \in Below(a)

(* The walk over a state misses and repeats nothing without a reason.      *)
WalkSound == ScannedOnce /\ MissedExplained

===============================================================================
