-------------------------- MODULE CheckpointProofs ---------------------------
(***************************************************************************)
(* The three checkpoints of the repository, for any number of calls at     *)
(* once, of leaves and of secrets, and for every configuration: what       *)
(* CheckpointPorts states of returned states, vault, audit log and taint   *)
(* engine, and that each of them keeps CheckpointContract.                 *)
(***************************************************************************)
EXTENDS CheckpointPorts, WellFoundedInduction, NaturalsInduction, SequenceTheorems, TLAPS

-------------------------------------------------------------------------------
(* Sequences.                                                              *)

(* Among natural numbers there is a least.                                 *)
LEMMA LeastExists ==
  ASSUME NEW T, T \subseteq Nat, T # {}
  PROVE  \E n \in T : \A m \in T : n <= m
<1> DEFINE R == OpToRel(<, Nat)
<1>1. IsWellFoundedOn(R, Nat)
  BY NatLessThanWellFounded
<1>2. \A x \in Nat, y \in Nat : <<x, y>> \in R <=> x < y
  BY DEF OpToRel
<1> HIDE DEF R
<1>3. PICK x \in T : \A y \in T : ~ (<<y, x>> \in R)
  BY <1>1, WFMin
<1>4. \A y \in T : ~ (y < x)
  BY <1>2, <1>3
<1> QED
  BY <1>4

(* f concatenates the first n sequences, one after the other.              *)
Flattens(f, seqs, n) ==
  f = [i \in 1 .. n |-> IF i = 1 THEN seqs[i] ELSE f[i - 1] \o seqs[i]]

(* A concatenation holds the elements of the sequences and no other.       *)
Collects(r, seqs, n) ==
  /\ \A k \in 1 .. Len(r) : \E i \in 1 .. n : \E j \in 1 .. Len(seqs[i]) : r[k] = seqs[i][j]
  /\ \A i \in 1 .. n : \A j \in 1 .. Len(seqs[i]) : \E k \in 1 .. Len(r) : r[k] = seqs[i][j]

(* One sequence more is appended to what there is.                         *)
LEMMA FlattensStep ==
  ASSUME NEW S, NEW n \in Nat, NEW seqs \in [1 .. n -> Seq(S)], NEW m \in Nat, m + 1 <= n,
         NEW g \in [1 .. m -> Seq(S)], Flattens(g, seqs, m),
         m > 0 => Collects(g[m], seqs, m)
  PROVE  \E h \in [1 .. m + 1 -> Seq(S)] : Flattens(h, seqs, m + 1) /\ Collects(h[m + 1], seqs, m + 1)
<1> DEFINE h == [i \in 1 .. m + 1 |-> IF i = m + 1 THEN IF i = 1 THEN seqs[i] ELSE g[m] \o seqs[i] ELSE g[i]]
<1>1. h \in [1 .. m + 1 -> Seq(S)]
  <2>1. ASSUME NEW i \in 1 .. m + 1 PROVE h[i] \in Seq(S)
    <3>1. seqs[m + 1] \in Seq(S)
      OBVIOUS
    <3>2. i # m + 1 => i \in 1 .. m
      OBVIOUS
    <3>3. m # 0 => g[m] \in Seq(S) /\ g[m] \o seqs[m + 1] \in Seq(S)
      BY <3>1
    <3> QED
      BY <3>1, <3>2, <3>3
  <2> QED
    BY <2>1
<1>2. Flattens(h, seqs, m + 1)
  <2>1. ASSUME NEW i \in 1 .. m + 1
        PROVE  h[i] = IF i = 1 THEN seqs[i] ELSE h[i - 1] \o seqs[i]
    <3>1. CASE i = m + 1
      <4>1. CASE m = 0
        BY <3>1, <4>1
      <4>2. CASE m # 0
        <5>1. h[i - 1] = g[m]
          BY <3>1, <4>2
        <5> QED
          BY <3>1, <4>2, <5>1
      <4> QED
        BY <4>1, <4>2
    <3>2. CASE i # m + 1
      <4>1. i \in 1 .. m /\ h[i] = g[i]
        BY <3>2
      <4>2. g[i] = IF i = 1 THEN seqs[i] ELSE g[i - 1] \o seqs[i]
        BY <4>1 DEF Flattens
      <4>3. i # 1 => h[i - 1] = g[i - 1]
        BY <4>1
      <4> QED
        BY <4>1, <4>2, <4>3
    <3> QED
      BY <3>1, <3>2
  <2>2. h = [i \in 1 .. m + 1 |-> h[i]]
    OBVIOUS
  <2> HIDE DEF h
  <2>3. [i \in 1 .. m + 1 |-> h[i]] = [i \in 1 .. m + 1 |-> IF i = 1 THEN seqs[i] ELSE h[i - 1] \o seqs[i]]
    BY <2>1
  <2> QED
    BY <2>2, <2>3 DEF Flattens
<1>3. Collects(h[m + 1], seqs, m + 1)
  <2>1. CASE m = 0
    BY <2>1 DEF Collects
  <2>2. CASE m # 0
    <3>1. PICK r, s : r = g[m] /\ s = seqs[m + 1]
      OBVIOUS
    <3>2. Collects(r, seqs, m) /\ r \in Seq(S) /\ s \in Seq(S)
      BY <2>2, <3>1
    <3>a. h[m + 1] = r \o s
      <4>1. m + 1 \in 1 .. m + 1 /\ m + 1 # 1
        BY <2>2
      <4>2. h[m + 1] = g[m] \o seqs[m + 1]
        BY <4>1
      <4> HIDE DEF h
      <4> QED
        BY <3>1, <4>2
    <3> HIDE DEF h
    <3>3. /\ Len(r \o s) = Len(r) + Len(s) /\ Len(r) \in Nat /\ Len(s) \in Nat
          /\ \A k \in 1 .. Len(r) : (r \o s)[k] = r[k]
          /\ \A j \in 1 .. Len(s) : (r \o s)[Len(r) + j] = s[j]
      BY <3>2
    <3>4. ASSUME NEW k \in 1 .. Len(r \o s)
          PROVE  \E i \in 1 .. m + 1 : \E j \in 1 .. Len(seqs[i]) : (r \o s)[k] = seqs[i][j]
      <4>1. CASE k <= Len(r)
        BY <3>2, <3>3, <4>1 DEF Collects
      <4>2. CASE k > Len(r)
        <5>1. k - Len(r) \in 1 .. Len(s) /\ k = Len(r) + (k - Len(r))
          BY <3>3, <4>2
        <5>2. (r \o s)[k] = s[k - Len(r)]
          BY <3>3, <5>1
        <5> QED
          BY <3>1, <5>1, <5>2
      <4> QED
        BY <3>3, <4>1, <4>2
    <3>5. ASSUME NEW i \in 1 .. m + 1, NEW j \in 1 .. Len(seqs[i])
          PROVE  \E k \in 1 .. Len(r \o s) : (r \o s)[k] = seqs[i][j]
      <4>1. CASE i = m + 1
        <5>0. seqs[i] = s
          BY <3>1, <4>1
        <5>1. j \in 1 .. Len(s) /\ Len(r) + j \in 1 .. Len(r \o s)
          BY <3>3, <5>0
        <5> QED
          BY <3>3, <5>0, <5>1
      <4>2. CASE i # m + 1
        <5>1. i \in 1 .. m
          BY <4>2
        <5>2. PICK k \in 1 .. Len(r) : r[k] = seqs[i][j]
          BY <3>2, <5>1 DEF Collects
        <5>3. k \in 1 .. Len(r \o s) /\ (r \o s)[k] = seqs[i][j]
          BY <3>3, <5>2
        <5> QED
          BY <5>3
      <4> QED
        BY <4>1, <4>2
    <3>6. Collects(r \o s, seqs, m + 1)
      BY <3>4, <3>5 DEF Collects
    <3> QED
      BY <3>a, <3>6
  <2> QED
    BY <2>1, <2>2
<1> QED
  BY <1>1, <1>2, <1>3

(* There is such a function for any number of sequences.                   *)
LEMMA FlattensExist ==
  ASSUME NEW S, NEW n \in Nat, NEW seqs \in [1 .. n -> Seq(S)]
  PROVE  \E f \in [1 .. n -> Seq(S)] :
           Flattens(f, seqs, n) /\ (n > 0 => Collects(f[n], seqs, n))
<1> DEFINE Good(m) ==
      \E g \in [1 .. m -> Seq(S)] : Flattens(g, seqs, m) /\ (m > 0 => Collects(g[m], seqs, m))
           Bad == {m \in 0 .. n : ~ Good(m)}
<1>1. SUFFICES ASSUME Bad # {} PROVE FALSE
  <2>1. n \in 0 .. n
    OBVIOUS
  <2> QED
    BY <1>1, <2>1
<1>2. Bad \subseteq Nat
  OBVIOUS
<1>3. PICK l \in Bad : \A m \in Bad : l <= m
  BY <1>1, <1>2, LeastExists
<1>4. CASE l = 0
  <2> DEFINE g == [i \in 1 .. 0 |-> <<>>]
  <2>1. g \in [1 .. 0 -> Seq(S)]
    OBVIOUS
  <2>2. Flattens(g, seqs, 0)
    <3> SUFFICES g = [i \in 1 .. 0 |-> IF i = 1 THEN seqs[i] ELSE g[i - 1] \o seqs[i]]
      BY DEF Flattens
    <3> QED
      OBVIOUS
  <2> HIDE DEF g
  <2>3. Good(0)
    <3>1. ~ (0 > 0)
      OBVIOUS
    <3> QED
      BY <2>1, <2>2, <3>1
  <2> QED
    BY <1>4, <2>3
<1>5. CASE l # 0
  <2>1. l - 1 \in 0 .. n /\ l - 1 \in Nat /\ (l - 1) + 1 = l /\ (l - 1) + 1 <= n
    BY <1>2, <1>5
  <2>2. Good(l - 1)
    BY <1>3, <2>1
  <2>3. PICK g \in [1 .. l - 1 -> Seq(S)] :
          Flattens(g, seqs, l - 1) /\ (l - 1 > 0 => Collects(g[l - 1], seqs, l - 1))
    BY <2>2
  <2>4. \E h \in [1 .. (l - 1) + 1 -> Seq(S)] :
          Flattens(h, seqs, (l - 1) + 1) /\ Collects(h[(l - 1) + 1], seqs, (l - 1) + 1)
    BY <2>1, <2>3, FlattensStep
  <2>5. Good(l)
    BY <2>1, <2>4
  <2> QED
    BY <2>5
<1> QED
  BY <1>4, <1>5

(* FlattenSeq is well defined, and collects.                               *)
LEMMA FlattenSeqCollects ==
  ASSUME NEW S, NEW n \in Nat, NEW seqs \in [1 .. n -> Seq(S)]
  PROVE  FlattenSeq(seqs) \in Seq(S) /\ Collects(FlattenSeq(seqs), seqs, n)
<1>0. seqs \in Seq(Seq(S)) /\ Len(seqs) = n
  OBVIOUS
<1>1. CASE n = 0
  <2>1. FlattenSeq(seqs) = seqs /\ seqs = <<>>
    BY <1>0, <1>1 DEF FlattenSeq
  <2> QED
    BY <1>1, <2>1 DEF Collects
<1>2. CASE n # 0
  <2> DEFINE F == CHOOSE f : Flattens(f, seqs, n)
  <2>1. FlattenSeq(seqs) = F[n]
    BY <1>0, <1>2 DEF FlattenSeq, Flattens
  <2>2. \E f : Flattens(f, seqs, n)
    BY FlattensExist
  <2>3. Flattens(F, seqs, n)
    BY <2>2
  <2>4. PICK f \in [1 .. n -> Seq(S)] : Flattens(f, seqs, n) /\ Collects(f[n], seqs, n)
    BY <1>2, FlattensExist
  <2> HIDE DEF F
  <2>5. \A i \in 1 .. n : F[i] = f[i]
    <3> DEFINE D == {i \in 1 .. n : F[i] # f[i]}
    <3>1. SUFFICES ASSUME D # {} PROVE FALSE
      BY <3>1
    <3>2. D \subseteq Nat
      OBVIOUS
    <3>3. PICK i \in D : \A j \in D : i <= j
      BY <3>1, <3>2, LeastExists
    <3>4. i # 1 => F[i - 1] = f[i - 1]
      BY <3>3
    <3>5. F[i] = IF i = 1 THEN seqs[i] ELSE F[i - 1] \o seqs[i]
      BY <2>3, <3>3 DEF Flattens
    <3>6. f[i] = IF i = 1 THEN seqs[i] ELSE f[i - 1] \o seqs[i]
      BY <2>4, <3>3 DEF Flattens
    <3> QED
      BY <3>3, <3>4, <3>5, <3>6
  <2>6. F[n] = f[n]
    BY <1>2, <2>5
  <2> QED
    BY <1>2, <2>1, <2>4, <2>6
<1> QED
  BY <1>1, <1>2

-------------------------------------------------------------------------------
(* What is found in a state and stored in the vault, and the types of the  *)
(* variables.                                                              *)
Raws == Secrets \cup [kind : {"hmac"}, id : Nat \ {0}] \cup {Tainted} \cup Strings

Values == Raws \cup [kind : {"rotated"}, of : Raws]

Entries == [value : Values, by : Calls, leaf : Leaf]

Finding == [leaf : Leaf, raw : Raws]

EventTypes ==
  {"checkpoint_start", "checkpoint_end", "secret_vaulted", "taint_redacted", "redact", "remove", "replace"}

Events == [call : Calls, type : EventTypes, match : Nat, id : Nat]

States == [Leaf -> Strings] \cup {<<>>}

(***************************************************************************)
(* The inductive invariant.                                                *)
(***************************************************************************)
CallTypes ==
  /\ state \in [Calls -> States]
  /\ phase \in [Calls -> {"idle", "scanning", "replacing", "written", "done", "rejected"}]
  /\ cursor \in [Calls -> Nat \ {0}]
  /\ matches \in [Calls -> Seq(Finding)]
  /\ clean \in [Calls -> States]

Types ==
  /\ port \in Ports /\ config \in Configs
  /\ CallTypes
  /\ vault \in Seq(Entries)
  /\ tainted \subseteq Strings \cup Values
  /\ audit \subseteq Events
  /\ flagged \in [Calls -> SUBSET (Strings \cup Values)]

(* Where a call stands in its scan and in its matches.                     *)
PlaceOK(c) ==
  /\ phase[c] = "idle" => cursor[c] = 1 /\ matches[c] = <<>> /\ clean[c] = <<>>
  /\ phase[c] = "scanning" =>
       /\ state[c] \in [Leaf -> Strings] /\ clean[c] = <<>> /\ cursor[c] <= NumLeaves + 1
       /\ port # "local" => cursor[c] = 1 /\ matches[c] = <<>>
  /\ phase[c] \in {"replacing", "written", "done"} =>
       /\ state[c] \in [Leaf -> Strings] /\ clean[c] \in [Leaf -> Strings]
       /\ cursor[c] <= Len(matches[c]) + 1
  /\ phase[c] = "written" => cursor[c] <= Len(matches[c])
  /\ phase[c] = "done" => cursor[c] = Len(matches[c]) + 1
  /\ DOMAIN clean[c] = {} \/ DOMAIN clean[c] = DOMAIN state[c]

(* A reference is only where replacing can put one, and names an entry;    *)
(* the local engine knows it.                                              *)
RefPlace(l) == port = "local" \/ config.addressing[l] # "root"

RefKnown(content, l) ==
  content.kind = "ref" =>
    /\ content.id \in 1 .. Len(vault) /\ RefPlace(l)
    /\ port = "local" => content \in tainted

(* The references of a call: those it was given are other calls'.          *)
RefsOK(c) ==
  /\ \A l \in DOMAIN state[c] :
       /\ RefKnown(state[c][l], l)
       /\ state[c][l].kind = "ref" => vault[state[c][l].id].by # c
  /\ \A l \in DOMAIN clean[c] : RefKnown(clean[c][l], l)

(* A match is of a leaf the scan visits, which holds a string that is no   *)
(* mask.                                                                   *)
MatchOK(c, m) ==
  /\ config.addressing[m.leaf] # "unvisited"
  /\ state[c][m.leaf] \notin {Masked, Gone}
  /\ port = "local" => m.raw \in Found \cup {Tainted}

(* What a scan has to find: a text with a secret, and a derived string     *)
(* that was tagged before the call began.                                  *)
Marked(c, content) ==
  \/ content.kind = "text" /\ content.found # <<>>
  \/ content = Derived /\ Derived \in flagged[c]

(* The leaves that are scanned, and the matches at one of them.            *)
Scanned(c) ==
  IF phase[c] = "scanning" THEN {l \in Leaf : l < cursor[c]}
  ELSE IF phase[c] \in {"replacing", "written", "done"} THEN Leaf ELSE {}

FoundAt(c, l) == {k \in 1 .. Len(matches[c]) : matches[c][k].leaf = l}

(* Every marked leaf that is scanned has a match.                          *)
MatchesOK(c) ==
  /\ \A k \in 1 .. Len(matches[c]) : MatchOK(c, matches[c][k])
  /\ \A l \in Scanned(c) :
       config.addressing[l] # "unvisited" /\ Marked(c, state[c][l]) => FoundAt(c, l) # {}

(* The leaves a match's path leads to, and the handled matches whose path  *)
(* leads to a leaf.                                                        *)
Lands(l) == IF port # "local" /\ config.addressing[l] = "root" THEN {} ELSE Landing(l)

Landed(c, l) ==
  {k \in 1 .. Len(matches[c]) : k < cursor[c] /\ l \in Lands(matches[c][k].leaf)}

(* What such a match has made of the leaf.                                 *)
Replaced(c, l, raw) ==
  \/ clean[c][l] \in {Masked, Gone}
  \/ \E i \in 1 .. Len(vault) :
       /\ clean[c][l] = Ref(i) /\ vault[i].by = c /\ vault[i].value \in {raw, Rotated(raw)}

(* A leaf is untouched, or what the last of them made of it.               *)
HandledOK(c, l) ==
  /\ Landed(c, l) = {} => clean[c][l] = state[c][l]
  /\ Landed(c, l) # {} =>
       \E last \in Landed(c, l) :
         (\A k \in Landed(c, l) : k <= last) /\ Replaced(c, l, matches[c][last].raw)

(* A handled match was reached, unless nothing can reach it.               *)
Reachable(l) == l \in Lands(l) \/ config.addressing[l] \in Unreachable

ReachedOK(c) ==
  phase[c] \in {"replacing", "written", "done"} =>
    \A k \in 1 .. Len(matches[c]) : k < cursor[c] => Reachable(matches[c][k].leaf)

(* The entry a call has written and not yet put into its state.            *)
IsOwn(c, i) ==
  /\ i \in 1 .. Len(vault) /\ vault[i].by = c
  /\ \A k \in 1 .. Len(vault) : vault[k].by = c => k <= i

OwnOK(c) ==
  phase[c] = "written" =>
    \E i \in 1 .. Len(vault) :
      IsOwn(c, i) /\ vault[i].value \in {Match(c).raw, Rotated(Match(c).raw)}

(* All of it for a call.                                                   *)
CallOK(c) ==
  /\ PlaceOK(c) /\ RefsOK(c) /\ MatchesOK(c) /\ OwnOK(c)
  /\ \A l \in DOMAIN clean[c] : HandledOK(c, l)
  /\ ReachedOK(c)
  /\ flagged[c] \subseteq tainted

(* An entry belongs to a call that has begun to replace.                   *)
EntryOK(i) ==
  /\ phase[vault[i].by] \notin {"idle", "scanning"}
  /\ port = "local" => vault[i].value \in Found \cup {Rotated(f) : f \in Found}

(* The entries of the vault, and the taint engine, which a worker's copy   *)
(* never shares.                                                           *)
EntriesOK == \A i \in 1 .. Len(vault) : EntryOK(i)

EngineOK ==
  /\ Masked \notin tainted /\ Gone \notin tainted
  /\ port = "worker" => tainted = {}

(* The invariant.                                                          *)
IInv ==
  /\ Types
  /\ \A c \in Calls : CallOK(c)
  /\ EntriesOK /\ EngineOK /\ AuditMatchesVault

-------------------------------------------------------------------------------
(* Facts about strings, matches and entries.                               *)

(* The strings of each kind.                                               *)
LEMMA KindsOfStrings ==
  ASSUME NEW content \in Strings
  PROVE  /\ content.kind \in {"text", "late"} => content.found \in Seq(Secrets)
         /\ content.kind = "ref" => content.id \in Nat \ {0} /\ content = Ref(content.id)
         /\ content = Derived => content.kind = "derived"
         /\ content = Masked => content.kind = "masked"
         /\ content = Gone => content.kind = "gone"
         /\ content.kind \in {"text", "late", "ref", "derived", "masked", "gone"}
<1>1. CASE content \in [kind : {"text", "late"}, found : Seq(Secrets)]
  BY <1>1 DEF Derived, Masked, Gone
<1>2. CASE content \in [kind : {"ref"}, id : Nat \ {0}]
  BY <1>2 DEF Derived, Masked, Gone, Ref
<1>3. CASE content \in {Derived, Masked, Gone}
  BY <1>3 DEF Derived, Masked, Gone
<1> QED
  BY <1>1, <1>2, <1>3 DEF Strings

(* The strings that the checkpoint makes, and how they differ.             *)
LEMMA MakeStrings ==
  /\ \A q \in Seq(Secrets) : Text(q) \in Strings /\ Late(q) \in Strings
  /\ \A q : Text(q).kind = "text" /\ Text(q).found = q /\ Late(q).kind = "late" /\ Late(q).found = q
  /\ \A i \in Nat \ {0} : Ref(i) \in Strings
  /\ \A i : Ref(i).kind = "ref" /\ Ref(i).id = i
  /\ Derived \in Strings /\ Derived.kind = "derived"
  /\ Masked \in Strings /\ Masked.kind = "masked"
  /\ Gone \in Strings /\ Gone.kind = "gone"
BY DEF Strings, Text, Late, Ref, Derived, Masked, Gone

(* What can be found in a state, and what can be stored.                   *)
LEMMA MakeRaws ==
  /\ Secrets \subseteq Raws /\ Tainted \in Raws /\ Strings \subseteq Raws /\ Raws \subseteq Values
  /\ \A i \in Nat \ {0} : Hmac(i) \in Raws
  /\ \A r \in Raws : Rotated(r) \in Values
BY DEF Raws, Values, Hmac, Rotated

(* What the patterns find in a string: its secrets, or the digest of a     *)
(* reference.                                                              *)
LEMMA DetectFinds ==
  ASSUME NEW content \in Strings
  PROVE  /\ Detect(content) \in Seq(Raws)
         /\ \A k \in 1 .. Len(Detect(content)) :
              \/ Detect(content)[k] \in Secrets
              \/ content.kind = "ref" /\ Detect(content)[k] = Hmac(content.id)
         /\ content.kind = "text" /\ content.found # <<>> => Detect(content) # <<>>
         /\ content \in {Derived, Masked, Gone} => Detect(content) = <<>>
<1>1. CASE content.kind \in {"text", "late"}
  <2>1. Detect(content) = content.found
    BY <1>1 DEF Detect
  <2>2. content.found \in Seq(Secrets) /\ content \notin {Derived, Masked, Gone}
    BY <1>1, KindsOfStrings
  <2>3. content.found \in Seq(Raws)
    BY <2>2, MakeRaws
  <2> QED
    BY <2>1, <2>2, <2>3
<1>2. CASE content.kind = "ref" /\ config.hexPattern
  <2>1. Detect(content) = << Hmac(content.id) >>
    BY <1>2 DEF Detect
  <2>2. content.id \in Nat \ {0} /\ content \notin {Derived, Masked, Gone}
    BY <1>2, KindsOfStrings
  <2>3. Hmac(content.id) \in Raws
    BY <2>2, MakeRaws
  <2> QED
    BY <1>2, <2>1, <2>2, <2>3
<1>3. CASE ~ (content.kind \in {"text", "late"}) /\ ~ (content.kind = "ref" /\ config.hexPattern)
  <2>1. Detect(content) = <<>>
    BY <1>3 DEF Detect
  <2> QED
    BY <1>3, <2>1
<1> QED
  BY <1>1, <1>2, <1>3

(* More in the vault and in the engine, none of it gone.                   *)
Grown ==
  /\ port' = port /\ config' = config /\ tainted \subseteq tainted'
  /\ Len(vault) \in Nat /\ Len(vault') \in Nat /\ Len(vault) <= Len(vault')
  /\ \A i \in 1 .. Len(vault) : vault'[i] = vault[i]

(* What can be found grows with the vault.                                 *)
LEMMA FoundGrows ==
  ASSUME Grown
  PROVE  Found \subseteq Found'
BY DEF Grown, Found

(* An entry more, and the others where they were.                          *)
LEMMA AppendGrows ==
  ASSUME vault \in Seq(Entries), NEW c \in Calls, NEW value \in Values, NEW l \in Leaf,
         vault' = Append(vault, Entry(c, value, l))
  PROVE  /\ vault' \in Seq(Entries)
         /\ Len(vault') = Len(vault) + 1 /\ Len(vault) \in Nat
         /\ \A i \in 1 .. Len(vault) : vault'[i] = vault[i]
         /\ vault'[Len(vault) + 1].value = value /\ vault'[Len(vault) + 1].by = c
<1>1. Entry(c, value, l) \in Entries /\ Entry(c, value, l).value = value /\ Entry(c, value, l).by = c
  BY DEF Entry, Entries
<1> QED
  BY <1>1

(* The entry a call has written is the last of its own.                    *)
LEMMA LastOfOwn ==
  ASSUME NEW v \in Seq(Entries), NEW c, NEW i \in 1 .. Len(v), v[i].by = c,
         \A k \in 1 .. Len(v) : v[k].by = c => k <= i
  PROVE  (CHOOSE j \in 1 .. Len(v) : v[j].by = c /\ \A k \in 1 .. Len(v) : v[k].by = c => k <= j) = i
<1> DEFINE P(j) == v[j].by = c /\ \A k \in 1 .. Len(v) : v[k].by = c => k <= j
           own == CHOOSE j \in 1 .. Len(v) : P(j)
<1>1. i \in 1 .. Len(v) /\ P(i)
  OBVIOUS
<1>2. own \in 1 .. Len(v) /\ P(own)
  BY <1>1
<1> QED
  BY <1>1, <1>2

(* So it is the one that a call refers to.                                 *)
LEMMA OwnEntryIs ==
  ASSUME NEW c, NEW i, IsOwn(c, i), vault \in Seq(Entries)
  PROVE  OwnEntry(c) = i
BY LastOfOwn DEF IsOwn, OwnEntry

(* And after a step.                                                       *)
LEMMA OwnEntryBecomes ==
  ASSUME NEW c, NEW i, IsOwn(c, i)', vault' \in Seq(Entries)
  PROVE  OwnEntry(c)' = i
BY LastOfOwn DEF IsOwn, OwnEntry

-------------------------------------------------------------------------------
(* Scanning.                                                               *)

(* What a scan of a leaf yields: matches of that leaf, at least one if it  *)
(* is marked.                                                              *)
Yields(c, l, found) ==
  /\ found \in Seq(Finding)
  /\ \A k \in 1 .. Len(found) : found[k].leaf = l /\ MatchOK(c, found[k])
  /\ config.addressing[l] # "unvisited" /\ Marked(c, state[c][l]) => found # <<>>

(* What the patterns find.                                                 *)
LEMMA DetectYields ==
  ASSUME NEW c \in Calls, NEW l \in Leaf, state[c] \in [Leaf -> Strings],
         RefKnown(state[c][l], l), config.addressing[l] # "unvisited",
         Detect(state[c][l]) # <<>>
  PROVE  Yields(c, l, [k \in 1 .. Len(Detect(state[c][l])) |-> [leaf |-> l, raw |-> Detect(state[c][l])[k]]])
<1>0. PICK content \in Strings : content = state[c][l]
  OBVIOUS
<1>1. PICK d : content = state[c][l] /\ d = Detect(content)
  BY <1>0
<1>2. /\ d \in Seq(Raws)
      /\ \A k \in 1 .. Len(d) : d[k] \in Secrets \/ (content.kind = "ref" /\ d[k] = Hmac(content.id))
      /\ content \notin {Masked, Gone}
  BY <1>1, DetectFinds
<1>3. ASSUME NEW k \in 1 .. Len(d)
      PROVE  [leaf |-> l, raw |-> d[k]] \in Finding /\ MatchOK(c, [leaf |-> l, raw |-> d[k]])
  <2>1. d[k] \in Raws /\ d[k] \in Found
    <3>1. d[k] \in Raws
      BY <1>2
    <3>2. content.kind = "ref" => content.id \in 1 .. Len(vault)
      BY <1>1 DEF RefKnown
    <3> QED
      BY <1>2, <3>1, <3>2 DEF Found
  <2> QED
    BY <1>1, <1>2, <2>1 DEF Finding, MatchOK
<1>4. PICK f : f = [k \in 1 .. Len(d) |-> [leaf |-> l, raw |-> d[k]]]
  OBVIOUS
<1>5. Len(d) \in Nat /\ Len(d) # 0
  BY <1>1, <1>2
<1>6. f \in Seq(Finding) /\ Len(f) = Len(d)
  BY <1>3, <1>4, <1>5
<1>7. \A k \in 1 .. Len(f) : f[k].leaf = l /\ MatchOK(c, f[k])
  BY <1>3, <1>4, <1>6
<1>8. f # <<>>
  BY <1>5, <1>6
<1>9. Yields(c, l, f)
  BY <1>6, <1>7, <1>8 DEF Yields
<1> QED
  BY <1>1, <1>4, <1>9

(* A string that the engine knows is one match.                            *)
LEMMA OneYields ==
  ASSUME NEW c \in Calls, NEW l \in Leaf, NEW raw \in Raws, raw = Tainted \/ port # "local",
         config.addressing[l] # "unvisited", state[c][l] \notin {Masked, Gone}
  PROVE  Yields(c, l, << [leaf |-> l, raw |-> raw] >>)
<1>1. PICK m : m = [leaf |-> l, raw |-> raw]
  OBVIOUS
<1>2. m \in Finding /\ m.leaf = l /\ MatchOK(c, m)
  BY <1>1 DEF Finding, MatchOK
<1>3. << m >> \in Seq(Finding) /\ Len(<< m >>) = 1 /\ << m >>[1] = m /\ << m >> # <<>>
  BY <1>2
<1>4. Yields(c, l, << m >>)
  BY <1>2, <1>3 DEF Yields
<1> QED
  BY <1>1, <1>4

(* No match, where the scan does not go or nothing is marked.              *)
LEMMA NoneYields ==
  ASSUME NEW c \in Calls, NEW l \in Leaf,
         config.addressing[l] = "unvisited" \/ ~ Marked(c, state[c][l])
  PROVE  Yields(c, l, <<>>)
BY DEF Yields

(* A string that no pattern finds anything in is marked only if the engine *)
(* knows it.                                                               *)
LEMMA MarkedKnown ==
  ASSUME NEW c \in Calls, NEW content \in Strings, flagged[c] \subseteq tainted,
         Detect(content) = <<>>, Marked(c, content)
  PROVE  content = Derived /\ content \in tainted
BY DetectFinds DEF Marked

(* The local scan of a leaf (scanner.ts:147-179).                          *)
LEMMA MatchesInYields ==
  ASSUME NEW c \in Calls, NEW l \in Leaf, state[c] \in [Leaf -> Strings],
         RefKnown(state[c][l], l), Masked \notin tainted, Gone \notin tainted,
         flagged[c] \subseteq tainted
  PROVE  Yields(c, l, MatchesIn(c, l))
<1>1. state[c][l] \in Strings
  OBVIOUS
<1>2. CASE config.addressing[l] = "unvisited"
  BY <1>2, NoneYields DEF MatchesIn
<1>3. CASE config.addressing[l] # "unvisited" /\ Detect(state[c][l]) # <<>>
  BY <1>3, DetectYields DEF MatchesIn
<1>4. CASE /\ config.addressing[l] # "unvisited" /\ Detect(state[c][l]) = <<>>
           /\ state[c][l] \in tainted
  <2>1. MatchesIn(c, l) = << [leaf |-> l, raw |-> Tainted] >>
    BY <1>4 DEF MatchesIn
  <2>2. Tainted \in Raws /\ state[c][l] \notin {Masked, Gone}
    BY <1>4, MakeRaws
  <2> QED
    BY <1>4, <2>1, <2>2, OneYields
<1>5. CASE /\ config.addressing[l] # "unvisited" /\ Detect(state[c][l]) = <<>>
           /\ state[c][l] \notin tainted
  <2>1. MatchesIn(c, l) = <<>>
    BY <1>5 DEF MatchesIn
  <2>2. ~ Marked(c, state[c][l])
    BY <1>1, <1>5, MarkedKnown
  <2> QED
    BY <2>1, <2>2, NoneYields
<1> QED
  BY <1>2, <1>3, <1>4, <1>5

(* The worker's scan of a leaf, and Python's.                              *)
LEMMA PortMatchesInYields ==
  ASSUME NEW c \in Calls, NEW l \in Leaf, state[c] \in [Leaf -> Strings],
         RefKnown(state[c][l], l), Masked \notin tainted, Gone \notin tainted,
         flagged[c] \subseteq tainted,
         port \in {"worker", "python"}, port = "worker" => tainted = {}
  PROVE  Yields(c, l, PortMatchesIn(c, l))
<1>1. state[c][l] \in Strings
  OBVIOUS
<1>2. CASE config.addressing[l] = "unvisited"
  BY <1>2, NoneYields DEF PortMatchesIn
<1>3. CASE config.addressing[l] # "unvisited" /\ Detect(state[c][l]) # <<>>
  BY <1>3, MatchesInYields DEF PortMatchesIn
<1>4. CASE /\ config.addressing[l] # "unvisited" /\ Detect(state[c][l]) = <<>>
           /\ port = "python" /\ state[c][l] \in tainted
  <2>1. PortMatchesIn(c, l) = << [leaf |-> l, raw |-> state[c][l]] >>
    BY <1>4 DEF PortMatchesIn
  <2>2. state[c][l] \in Raws /\ state[c][l] \notin {Masked, Gone} /\ port # "local"
    BY <1>1, <1>4, MakeRaws
  <2> QED
    BY <1>4, <2>1, <2>2, OneYields
<1>5. CASE /\ config.addressing[l] # "unvisited" /\ Detect(state[c][l]) = <<>>
           /\ ~ (port = "python" /\ state[c][l] \in tainted)
  <2>1. PortMatchesIn(c, l) = <<>>
    BY <1>5 DEF PortMatchesIn
  <2>2. ~ Marked(c, state[c][l])
    BY <1>1, <1>5, MarkedKnown
  <2> QED
    BY <2>1, <2>2, NoneYields
<1> QED
  BY <1>2, <1>3, <1>4, <1>5

-------------------------------------------------------------------------------
(* A step leaves a call's strings and matches as they are.                 *)
SameStrings(c) ==
  /\ state'[c] = state[c] /\ clean'[c] = clean[c]
  /\ matches'[c] = matches[c] /\ flagged'[c] = flagged[c]

(* A known reference stays known while vault and engine grow.              *)
LEMMA RefKnownStable ==
  ASSUME Grown, NEW content, NEW l \in Leaf, RefKnown(content, l)
  PROVE  RefKnown(content, l)'
BY DEF Grown, RefKnown, RefPlace

(* So do all of a call.                                                    *)
LEMMA RefsStable ==
  ASSUME Grown, NEW c \in Calls, state'[c] = state[c], clean'[c] = clean[c],
         state[c] \in States, clean[c] \in States, RefsOK(c)
  PROVE  RefsOK(c)'
<1>1. \A l \in DOMAIN state[c] : l \in Leaf
  BY DEF States
<1>2. \A l \in DOMAIN clean[c] : l \in Leaf
  BY DEF States
<1>3. \A l \in DOMAIN state[c] : RefKnown(state[c][l], l)'
  BY <1>1, RefKnownStable DEF RefsOK, RefKnown, Grown, RefPlace
<1>4. \A l \in DOMAIN clean[c] : RefKnown(clean[c][l], l)'
  BY <1>2, RefKnownStable DEF RefsOK, RefKnown, Grown, RefPlace
<1>5. \A l \in DOMAIN state[c] : state[c][l].kind = "ref" => vault'[state[c][l].id].by # c
  BY <1>1 DEF RefsOK, RefKnown, Grown
<1> QED
  BY <1>3, <1>4, <1>5 DEF RefsOK

(* A match stays good while the string it is of is left alone.             *)
LEMMA MatchStable ==
  ASSUME Grown, NEW c \in Calls, state'[c] = state[c], NEW m \in Finding, MatchOK(c, m)
  PROVE  MatchOK(c, m)'
BY FoundGrows DEF Grown, MatchOK

(* So do all of a call, and no marked leaf becomes unmatched.              *)
LEMMA MatchesStable ==
  ASSUME Grown, NEW c \in Calls, SameStrings(c), matches[c] \in Seq(Finding), MatchesOK(c),
         Scanned(c)' \subseteq Scanned(c)
  PROVE  MatchesOK(c)'
<1>1. ASSUME NEW k \in 1 .. Len(matches[c])
      PROVE  MatchOK(c, matches[c][k])'
  <2>1. PICK m \in Finding : m = matches[c][k]
    BY <1>1
  <2>2. MatchOK(c, m)'
    BY <2>1, MatchStable DEF MatchesOK, SameStrings
  <2> QED
    BY <2>1, <2>2 DEF SameStrings, MatchOK
<1>2. ASSUME NEW l \in Scanned(c)', config'.addressing[l] # "unvisited", Marked(c, state[c][l])'
      PROVE  FoundAt(c, l)' # {}
  <2>1. Marked(c, state[c][l])
    BY <1>2 DEF Marked, SameStrings
  <2>2. FoundAt(c, l) # {}
    BY <1>2, <2>1 DEF MatchesOK, Grown
  <2> QED
    BY <2>2 DEF FoundAt, SameStrings
<1> QED
  BY <1>1, <1>2 DEF MatchesOK, SameStrings, Marked

(* What replaced a secret still refers to its entry.                       *)
LEMMA ReplacedStable ==
  ASSUME Grown, NEW c \in Calls, NEW l \in Leaf, clean'[c][l] = clean[c][l], NEW raw, Replaced(c, l, raw)
  PROVE  Replaced(c, l, raw)'
BY DEF Grown, Replaced

(* A path leads where it led.                                              *)
LEMMA LandsSame ==
  ASSUME UNCHANGED <<port, config>>
  PROVE  \A l : Lands(l)' = Lands(l) /\ (Reachable(l)' <=> Reachable(l))
BY DEF Lands, Landing, Reachable, Unreachable

(* A leaf that no match of a step leads to.                                *)
LEMMA HandledSame ==
  ASSUME Grown, NEW c \in Calls, NEW l \in Leaf, HandledOK(c, l),
         Landed(c, l)' = Landed(c, l), matches'[c] = matches[c],
         clean'[c][l] = clean[c][l], state'[c][l] = state[c][l]
  PROVE  HandledOK(c, l)'
<1>1. CASE Landed(c, l) = {}
  BY <1>1 DEF HandledOK
<1>2. CASE Landed(c, l) # {}
  <2>1. PICK last \in Landed(c, l) :
          (\A k \in Landed(c, l) : k <= last) /\ Replaced(c, l, matches[c][last].raw)
    BY <1>2 DEF HandledOK
  <2>2. Replaced(c, l, matches[c][last].raw)'
    <3>1. PICK raw : raw = matches[c][last].raw
      OBVIOUS
    <3>2. Replaced(c, l, raw)'
      BY <2>1, <3>1, ReplacedStable
    <3> QED
      BY <3>1, <3>2 DEF Replaced
  <2> QED
    BY <1>2, <2>1, <2>2 DEF HandledOK, Replaced
<1> QED
  BY <1>1, <1>2

(* A call that goes no further in its matches.                             *)
LEMMA ReachedStable ==
  ASSUME Grown, NEW c \in Calls, matches'[c] = matches[c], cursor'[c] = cursor[c],
         phase'[c] \in {"replacing", "written", "done"} => phase[c] \in {"replacing", "written", "done"},
         ReachedOK(c)
  PROVE  ReachedOK(c)'
<1>1. \A l : Reachable(l)' <=> Reachable(l)
  BY LandsSame DEF Grown
<1>2. ASSUME phase'[c] \in {"replacing", "written", "done"}, NEW k \in 1 .. Len(matches[c]), k < cursor[c]
      PROVE  Reachable(matches[c][k].leaf)'
  <2>1. PICK l : l = matches[c][k].leaf
    OBVIOUS
  <2>2. Reachable(l)
    BY <1>2, <2>1 DEF ReachedOK
  <2>3. Reachable(l)'
    BY <1>1, <2>2
  <2> QED
    BY <2>1, <2>3 DEF Reachable
<1> QED
  BY <1>2 DEF ReachedOK, Reachable

(* A call that handles no match.                                           *)
LEMMA HandledStable ==
  ASSUME Grown, NEW c \in Calls, SameStrings(c), clean[c] \in States, cursor'[c] = cursor[c],
         \A l \in DOMAIN clean[c] : HandledOK(c, l)
  PROVE  \A l \in DOMAIN clean'[c] : HandledOK(c, l)'
<1>1. ASSUME NEW l \in DOMAIN clean[c] PROVE HandledOK(c, l)'
  <2>1. l \in Leaf
    BY <1>1 DEF States
  <2>2. Landed(c, l)' = Landed(c, l)
    BY LandsSame DEF Landed, SameStrings, Grown
  <2>3. HandledOK(c, l)
    BY <1>1
  <2> QED
    BY <2>1, <2>2, <2>3, HandledSame DEF SameStrings
<1> QED
  BY <1>1 DEF SameStrings

(* The entry to refer to is the same while others' are added.              *)
LEMMA OwnStable ==
  ASSUME Grown, NEW c \in Calls, phase'[c] = phase[c], cursor'[c] = cursor[c], matches'[c] = matches[c],
         \A i \in 1 .. Len(vault') : i > Len(vault) => vault'[i].by # c,
         OwnOK(c)
  PROVE  OwnOK(c)'
<1>1. CASE phase[c] # "written"
  BY <1>1 DEF OwnOK
<1>2. CASE phase[c] = "written"
  <2>1. PICK i \in 1 .. Len(vault) :
          IsOwn(c, i) /\ vault[i].value \in {Match(c).raw, Rotated(Match(c).raw)}
    BY <1>2 DEF OwnOK
  <2>2. i \in 1 .. Len(vault') /\ vault'[i] = vault[i] /\ vault[i].by = c
    BY <2>1 DEF IsOwn, Grown
  <2>a. ASSUME NEW k \in 1 .. Len(vault'), vault'[k].by = c PROVE k <= i
    <3>1. k \in 1 .. Len(vault) /\ vault'[k] = vault[k]
      BY <2>a DEF Grown
    <3> QED
      BY <2>1, <2>a, <3>1 DEF IsOwn
  <2>3. IsOwn(c, i)'
    BY <2>2, <2>a DEF IsOwn
  <2> QED
    BY <2>1, <2>2, <2>3 DEF OwnOK, Match
<1> QED
  BY <1>1, <1>2

(* A step of another call, or of the agent.                                *)
LEMMA BystanderStable ==
  ASSUME Types, Grown, NEW c \in Calls, SameStrings(c), phase'[c] = phase[c], cursor'[c] = cursor[c],
         \A i \in 1 .. Len(vault') : i > Len(vault) => vault'[i].by # c,
         CallOK(c)
  PROVE  CallOK(c)'
<1>1. PlaceOK(c)'
  BY DEF CallOK, PlaceOK, SameStrings, Grown
<1>2. state[c] \in States /\ clean[c] \in States /\ matches[c] \in Seq(Finding)
  BY DEF Types, CallTypes, Finding
<1>3. RefsOK(c)'
  BY <1>2, RefsStable DEF CallOK, SameStrings
<1>4. Scanned(c)' = Scanned(c)
  BY DEF Scanned
<1>5. MatchesOK(c)'
  BY <1>2, <1>4, MatchesStable DEF CallOK
<1>6. OwnOK(c)'
  BY OwnStable DEF CallOK, SameStrings
<1>7. \A l \in DOMAIN clean'[c] : HandledOK(c, l)'
  BY <1>2, HandledStable DEF CallOK
<1>8. flagged'[c] \subseteq tainted'
  BY DEF CallOK, SameStrings, Grown
<1>9. ReachedOK(c)'
  BY ReachedStable DEF CallOK, SameStrings
<1> QED
  BY <1>1, <1>3, <1>5, <1>6, <1>7, <1>8, <1>9 DEF CallOK

(* A call that gives up.                                                   *)
LEMMA RejectedStable ==
  ASSUME Types, Grown, NEW c \in Calls, SameStrings(c), phase'[c] = "rejected", cursor'[c] = cursor[c],
         CallOK(c)
  PROVE  CallOK(c)'
<1>1. PlaceOK(c)'
  BY DEF CallOK, PlaceOK, SameStrings, Grown
<1>2. state[c] \in States /\ clean[c] \in States /\ matches[c] \in Seq(Finding)
  BY DEF Types, CallTypes, Finding
<1>3. RefsOK(c)'
  BY <1>2, RefsStable DEF CallOK, SameStrings
<1>4. Scanned(c)' = {}
  BY DEF Scanned
<1>5. MatchesOK(c)'
  BY <1>2, <1>4, MatchesStable DEF CallOK
<1>6. OwnOK(c)'
  BY DEF OwnOK
<1>7. \A l \in DOMAIN clean'[c] : HandledOK(c, l)'
  BY <1>2, HandledStable DEF CallOK
<1>8. flagged'[c] \subseteq tainted'
  BY DEF CallOK, SameStrings, Grown
<1>9. ReachedOK(c)'
  BY ReachedStable DEF CallOK, SameStrings
<1> QED
  BY <1>1, <1>3, <1>5, <1>6, <1>7, <1>8, <1>9 DEF CallOK

-------------------------------------------------------------------------------
(* What the steps of one call have in common.                              *)

(* Nothing of another call changes, and no entry of it is new.             *)
OnlyCall(c) ==
  \A d \in Calls \ {c} :
    /\ SameStrings(d) /\ phase'[d] = phase[d] /\ cursor'[d] = cursor[d]
    /\ \A i \in 1 .. Len(vault') : i > Len(vault) => vault'[i].by # d

(* A step of one call keeps the invariant if it keeps its own part.        *)
LEMMA StepAssembled ==
  ASSUME IInv, Grown, NEW c \in Calls, OnlyCall(c),
         Types', CallOK(c)', EntriesOK', EngineOK', AuditMatchesVault'
  PROVE  IInv'
<1>1. ASSUME NEW d \in Calls PROVE CallOK(d)'
  <2>1. CASE d # c
    BY <2>1, BystanderStable DEF IInv, OnlyCall
  <2>2. CASE d = c
    BY <2>2
  <2> QED
    BY <2>1, <2>2
<1> QED
  BY <1>1 DEF IInv

(* Entries stay as they are, and so does who may own one.                  *)
LEMMA EntriesStable ==
  ASSUME IInv, Grown, NEW c \in Calls, OnlyCall(c),
         phase[c] \notin {"idle", "scanning"} => phase'[c] \notin {"idle", "scanning"},
         \A i \in 1 .. Len(vault') : i > Len(vault) => EntryOK(i)'
  PROVE  EntriesOK'
<1>1. ASSUME NEW i \in 1 .. Len(vault') PROVE EntryOK(i)'
  <2>1. CASE i > Len(vault)
    BY <2>1
  <2>2. CASE ~ (i > Len(vault))
    <3>1. i \in 1 .. Len(vault) /\ vault'[i] = vault[i]
      BY <2>2 DEF Grown
    <3>2. EntryOK(i)
      BY <3>1 DEF IInv, EntriesOK
    <3>3. vault[i].by \in Calls
      <4>1. vault \in Seq(Entries)
        BY DEF IInv, Types
      <4>2. vault[i] \in Entries
        BY <3>1, <4>1
      <4> QED
        BY <4>2 DEF Entries
    <3>4. phase'[vault[i].by] \notin {"idle", "scanning"}
      BY <3>2, <3>3 DEF EntryOK, OnlyCall
    <3>5. port' = "local" => vault[i].value \in Found' \cup {Rotated(f) : f \in Found'}
      BY <3>2, FoundGrows DEF EntryOK, Grown
    <3> QED
      BY <3>1, <3>4, <3>5 DEF EntryOK
  <2> QED
    BY <2>1, <2>2
<1> QED
  BY <1>1 DEF EntriesOK

(* A call with an entry not yet logged still has the same one.             *)
LEMMA OwnEntryStable ==
  ASSUME IInv, Types', Grown, NEW d \in Calls, phase[d] = "written",
         \A i \in 1 .. Len(vault') : i > Len(vault) => vault'[i].by # d
  PROVE  OwnEntry(d)' = OwnEntry(d)
<1>1. PICK i \in 1 .. Len(vault) : IsOwn(d, i)
  BY DEF IInv, CallOK, OwnOK
<1>2. IsOwn(d, i)'
  BY <1>1 DEF IsOwn, Grown
<1>3. OwnEntry(d) = i
  BY <1>1, OwnEntryIs DEF IInv, Types
<1>4. OwnEntry(d)' = i
  BY <1>2, OwnEntryBecomes DEF Types
<1> QED
  BY <1>3, <1>4

(* The audit log and the vault still agree: what is new in either is the   *)
(* call's own, and its entry is logged, given up or its to log.            *)
Logged(c, i) == \E e \in audit : e.type = "secret_vaulted" /\ e.call = c /\ e.id = i

(* A step keeps audit log and vault in agreement under these conditions.   *)
LEMMA AuditStable ==
  ASSUME IInv, Types', Grown, NEW c \in Calls, OnlyCall(c), audit \subseteq audit',
         phase[c] = "written" => phase'[c] = "rejected" \/ Logged(c, OwnEntry(c))',
         phase[c] = "rejected" => phase'[c] = "rejected",
         \A i \in 1 .. Len(vault') : i > Len(vault) =>
           /\ vault'[i].by = c
           /\ phase'[c] = "rejected" \/ (phase'[c] = "written" /\ i = OwnEntry(c)'),
         \A e \in audit' \ audit : e.type = "secret_vaulted" =>
           e.id \in 1 .. Len(vault') /\ vault'[e.id].by = e.call,
         phase[c] = "written" => OwnEntry(c)' = OwnEntry(c)
  PROVE  AuditMatchesVault'
<1> DEFINE Kept(d, i) == Logged(d, i)' \/ (phase'[d] = "written" /\ i = OwnEntry(d)') \/ phase'[d] = "rejected"
<1>1. ASSUME NEW i \in 1 .. Len(vault'), NEW d, d = vault'[i].by
      PROVE  Kept(d, i)
  <2>1. CASE i > Len(vault)
    BY <1>1, <2>1
  <2>2. CASE ~ (i > Len(vault))
    <3>1. i \in 1 .. Len(vault) /\ vault[i].by = d
      BY <1>1, <2>2 DEF Grown
    <3>2. vault \in Seq(Entries)
      BY DEF IInv, Types
    <3>3. d \in Calls
      <4>1. vault[i] \in Entries
        BY <3>1, <3>2
      <4> QED
        BY <3>1, <4>1 DEF Entries
    <3>4. Logged(d, i) \/ (phase[d] = "written" /\ i = OwnEntry(d)) \/ phase[d] = "rejected"
      BY <3>1 DEF IInv, AuditMatchesVault, Logged
    <3>5. CASE Logged(d, i)
      BY <3>5 DEF Logged
    <3>6. CASE phase[d] = "written" /\ i = OwnEntry(d)
      <4>1. CASE d = c
        <5>1. CASE phase'[c] = "rejected"
          BY <4>1, <5>1
        <5>2. CASE Logged(c, OwnEntry(c))'
          BY <3>6, <4>1, <5>2 DEF Logged
        <5> QED
          BY <3>6, <4>1, <5>1, <5>2
      <4>2. CASE d # c
        <5>1. phase'[d] = "written" /\ \A k \in 1 .. Len(vault') : k > Len(vault) => vault'[k].by # d
          BY <3>3, <3>6, <4>2 DEF OnlyCall
        <5>2. OwnEntry(d)' = OwnEntry(d)
          BY <3>3, <3>6, <5>1, OwnEntryStable
        <5> QED
          BY <3>6, <5>1, <5>2
      <4> QED
        BY <4>1, <4>2
    <3>7. CASE phase[d] = "rejected"
      BY <3>3, <3>7 DEF OnlyCall
    <3> QED
      BY <3>4, <3>5, <3>6, <3>7
  <2> QED
    BY <2>1, <2>2
<1>2. ASSUME NEW e \in audit', e.type = "secret_vaulted"
      PROVE  e.id \in 1 .. Len(vault') /\ vault'[e.id].by = e.call
  <2>1. CASE e \notin audit
    BY <1>2, <2>1
  <2>2. CASE e \in audit
    BY <1>2, <2>2 DEF IInv, AuditMatchesVault, Grown
  <2> QED
    BY <2>1, <2>2
<1> QED
  BY <1>1, <1>2 DEF AuditMatchesVault, Logged

(* Nothing new in the vault, nothing to log.                               *)
LEMMA QuietGrows ==
  ASSUME IInv, UNCHANGED <<port, config, vault>>, tainted \subseteq tainted'
  PROVE  Grown
BY DEF IInv, Types, Grown

(* They hold of a step that logs no reference.                             *)
LEMMA QuietAudit ==
  ASSUME IInv, Types', Grown, vault' = vault, NEW c \in Calls, OnlyCall(c), audit \subseteq audit',
         phase[c] = "written" => phase'[c] = "rejected",
         phase[c] = "rejected" => phase'[c] = "rejected",
         \A e \in audit' \ audit : e.type # "secret_vaulted"
  PROVE  AuditMatchesVault'
<1>1. \A i \in 1 .. Len(vault') : ~ (i > Len(vault))
  BY DEF Grown
<1>2. OwnEntry(c)' = OwnEntry(c)
  BY DEF OwnEntry
<1> QED
  BY <1>1, <1>2, AuditStable

(* Without a new entry only the phase could disturb the old ones.          *)
LEMMA QuietEntries ==
  ASSUME IInv, Grown, vault' = vault, NEW c \in Calls, OnlyCall(c),
         phase[c] \notin {"idle", "scanning"} => phase'[c] \notin {"idle", "scanning"}
  PROVE  EntriesOK'
<1>1. \A i \in 1 .. Len(vault') : ~ (i > Len(vault))
  BY DEF Grown
<1> QED
  BY <1>1, EntriesStable

(* What an event holds.                                                    *)
LEMMA EventIs ==
  ASSUME cursor \in [Calls -> Nat \ {0}], NEW c \in Calls, NEW type \in EventTypes, NEW i \in Nat
  PROVE  /\ Event(c, type, i) \in Events
         /\ Event(c, type, i).type = type /\ Event(c, type, i).call = c /\ Event(c, type, i).id = i
BY DEF Event, Events

(* Assumptions on the configuration.                                       *)
LEMMA ConfigIs ==
  ASSUME config \in Configs
  PROVE  /\ config.texts \subseteq Seq(Secrets)
         /\ config.addressing \in
              [Leaf -> {"exact", "dotted", "onto", "over", "blocked", "unvisited", "root"}]
         /\ config.lands \in [Leaf -> SUBSET Leaf]
         /\ \A l \in Leaf : config.addressing[l] = "root" =>
              \A m \in Leaf \ {l} : config.addressing[m] = "unvisited"
         /\ config.pruneStrategy \in {"vault_with_taint", "redact", "remove", "replace"}
BY CheckpointAssumption

(* There are three checkpoints.                                            *)
LEMMA PortIs ==
  ASSUME port \in Ports
  PROVE  port \in {"local", "worker", "python"}
BY PortsAssumption

-------------------------------------------------------------------------------
(* The steps around the scan.                                              *)

(* The agent tags a string: the engine grows, and nothing else.            *)
LEMMA TagDerivedKeeps ==
  ASSUME IInv, TagDerived, UNCHANGED port, port # "worker"
  PROVE  IInv'
<1>1. Grown
  BY QuietGrows DEF TagDerived
<1>2. Types'
  <2>1. Derived \in Strings
    BY MakeStrings
  <2> QED
    BY <2>1 DEF IInv, Types, CallTypes, TagDerived
<1>3. ASSUME NEW c \in Calls PROVE CallOK(c)'
  <2>1. SameStrings(c) /\ phase' = phase /\ cursor' = cursor /\ vault' = vault
    BY DEF SameStrings, TagDerived
  <2>2. \A i \in 1 .. Len(vault') : ~ (i > Len(vault))
    BY <1>1, <2>1 DEF Grown
  <2> QED
    BY <1>1, <2>1, <2>2, BystanderStable DEF IInv
<1>4. EntriesOK'
  BY DEF IInv, EntriesOK, EntryOK, Found, TagDerived
<1>5. EngineOK'
  <2>1. Masked # Derived /\ Gone # Derived
    BY MakeStrings
  <2> QED
    BY <2>1 DEF IInv, EngineOK, TagDerived
<1>6. AuditMatchesVault'
  BY DEF IInv, AuditMatchesVault, OwnEntry, TagDerived
<1> QED
  BY <1>2, <1>3, <1>4, <1>5, <1>6 DEF IInv

(* What a call may be given.                                               *)
LEMMA InputsKnown ==
  ASSUME IInv, NEW c \in Calls, phase[c] = "idle", NEW s \in Inputs
  PROVE  /\ s \in [Leaf -> Strings]
         /\ \A l \in Leaf :
              RefKnown(s[l], l) /\ (s[l].kind = "ref" => vault[s[l].id].by # c)
<1>1. CASE s \in [Leaf -> Content]
  <2>1. \A x \in Content : x \in Strings /\ x.kind # "ref"
    BY MakeStrings, ConfigIs DEF Content, IInv, Types
  <2> QED
    BY <1>1, <2>1 DEF RefKnown
<1>2. ASSUME NEW d \in Calls, phase[d] = "done", s = clean[d]
      PROVE  /\ s \in [Leaf -> Strings]
             /\ \A l \in Leaf :
                  RefKnown(s[l], l) /\ (s[l].kind = "ref" => vault[s[l].id].by # c)
  <2>1. s \in [Leaf -> Strings]
    BY <1>2 DEF IInv, CallOK, PlaceOK
  <2>2. DOMAIN clean[d] = Leaf
    BY <1>2, <2>1
  <2>3. ASSUME NEW l \in Leaf PROVE RefKnown(s[l], l)
    BY <1>2, <2>2 DEF IInv, CallOK, RefsOK
  <2>4. ASSUME NEW l \in Leaf, s[l].kind = "ref" PROVE vault[s[l].id].by # c
    <3>1. EntryOK(s[l].id)
      BY <2>3, <2>4 DEF IInv, EntriesOK, RefKnown
    <3> QED
      BY <3>1 DEF EntryOK
  <2> QED
    BY <2>1, <2>3, <2>4
<1> QED
  BY <1>1, <1>2 DEF Inputs

(* A call begins with what InputsKnown says.                               *)
LEMMA BeginKeeps ==
  ASSUME IInv, NEW c \in Calls, Begin(c), UNCHANGED port
  PROVE  IInv'
<1>1. Grown
  BY QuietGrows DEF Begin
<1>2. PICK s \in Inputs : state' = [state EXCEPT ![c] = s]
  BY DEF Begin
<1>3. /\ s \in [Leaf -> Strings]
      /\ \A l \in Leaf : RefKnown(s[l], l) /\ (s[l].kind = "ref" => vault[s[l].id].by # c)
  BY InputsKnown DEF Begin
<1>t. /\ state \in [Calls -> States] /\ flagged \in [Calls -> SUBSET (Strings \cup Values)]
      /\ tainted \subseteq Strings \cup Values
      /\ phase \in [Calls -> {"idle", "scanning", "replacing", "written", "done", "rejected"}]
      /\ cursor \in [Calls -> Nat \ {0}]
      /\ audit \subseteq Events
  BY DEF IInv, Types, CallTypes
<1>4. /\ state'[c] = s /\ phase[c] = "idle" /\ phase'[c] = "scanning" /\ flagged'[c] = tainted
      /\ UNCHANGED <<config, cursor, matches, clean, vault, tainted>>
  BY <1>2, <1>t DEF Begin
<1>5. OnlyCall(c)
  <2>1. \A i \in 1 .. Len(vault') : ~ (i > Len(vault))
    BY <1>1, <1>4 DEF Grown
  <2> QED
    BY <1>2, <1>t, <2>1 DEF OnlyCall, SameStrings, Begin
<1>6. Types'
  <2>1. state' \in [Calls -> States]
    BY <1>2, <1>3, <1>t DEF States
  <2>2. phase' \in [Calls -> {"idle", "scanning", "replacing", "written", "done", "rejected"}]
    BY <1>t DEF Begin
  <2>3. flagged' \in [Calls -> SUBSET (Strings \cup Values)]
    BY <1>t DEF Begin
  <2>4. audit' \subseteq Events
    <3>0. "checkpoint_start" \in EventTypes
      BY DEF EventTypes
    <3>1. Event(c, "checkpoint_start", 0) \in Events
      BY <1>t, <3>0, EventIs
    <3> QED
      BY <1>t, <3>1 DEF Begin
  <2> QED
    BY <1>4, <2>1, <2>2, <2>3, <2>4 DEF IInv, Types, CallTypes
<1>7. CallOK(c)'
  <2>1. CallOK(c) /\ cursor[c] = 1 /\ matches[c] = <<>> /\ clean[c] = <<>>
    BY <1>4 DEF IInv, CallOK, PlaceOK
  <2>2. DOMAIN clean'[c] = {}
    BY <1>4, <2>1
  <2>3. PlaceOK(c)'
    <3>1. NumLeaves \in Nat
      BY CheckpointAssumption
    <3> QED
      BY <1>3, <1>4, <2>1, <2>2, <3>1 DEF PlaceOK
  <2>4. RefsOK(c)'
    <3>1. DOMAIN s = Leaf
      BY <1>3
    <3>2. \A l \in Leaf : RefKnown(s[l], l)'
      BY <1>1, <1>3, RefKnownStable DEF RefKnown, Grown, RefPlace
    <3> QED
      BY <1>3, <1>4, <2>2, <3>1, <3>2 DEF RefsOK, RefKnown, RefPlace
  <2>5. MatchesOK(c)'
    <3>1. Scanned(c)' = {}
      <4>1. \A l \in Leaf : ~ (l < 1)
        BY DEF Leaf
      <4> QED
        BY <1>4, <2>1, <4>1 DEF Scanned
    <3> QED
      BY <1>4, <2>1, <3>1 DEF MatchesOK
  <2> QED
    BY <1>4, <2>2, <2>3, <2>4, <2>5 DEF CallOK, OwnOK, ReachedOK
<1>8. EntriesOK'
  BY <1>1, <1>4, <1>5, QuietEntries
<1>9. EngineOK'
  BY <1>4 DEF IInv, EngineOK
<1>10. AuditMatchesVault'
  BY <1>1, <1>4, <1>5, <1>6, QuietAudit DEF Begin, Event
<1> QED
  BY <1>1, <1>5, <1>6, <1>7, <1>8, <1>9, <1>10, StepAssembled

(* A match about to be handled.                                            *)
LEMMA MatchIs ==
  ASSUME IInv, NEW c \in Calls, cursor[c] <= Len(matches[c])
  PROVE  /\ Match(c) \in Finding /\ Match(c).leaf \in Leaf /\ Match(c).raw \in Raws
         /\ MatchOK(c, Match(c)) /\ cursor[c] \in 1 .. Len(matches[c])
<1>1. matches[c] \in Seq(Finding) /\ cursor[c] \in Nat \ {0}
  BY DEF IInv, Types, CallTypes
<1>2. cursor[c] \in 1 .. Len(matches[c])
  BY <1>1
<1>3. Match(c) \in Finding
  BY <1>1, <1>2 DEF Match
<1>4. MatchOK(c, Match(c))
  BY <1>2 DEF Match, IInv, CallOK, MatchesOK
<1> QED
  BY <1>2, <1>3, <1>4 DEF Finding

(* The entry just written is the last of its call.                         *)
LEMMA NewEntry ==
  ASSUME IInv, NEW c \in Calls, NEW value \in Values, NEW l \in Leaf,
         vault' = Append(vault, Entry(c, value, l)), UNCHANGED <<port, config, tainted>>
  PROVE  /\ Grown /\ vault' \in Seq(Entries)
         /\ \E n \in 1 .. Len(vault') :
              /\ n > Len(vault) /\ IsOwn(c, n)' /\ vault'[n].value = value
              /\ \A i \in 1 .. Len(vault') : i > Len(vault) => i = n /\ vault'[i].by = c
<1>1. vault \in Seq(Entries)
  BY DEF IInv, Types
<1>2. /\ vault' \in Seq(Entries)
      /\ Len(vault') = Len(vault) + 1 /\ Len(vault) \in Nat
      /\ \A i \in 1 .. Len(vault) : vault'[i] = vault[i]
      /\ vault'[Len(vault) + 1].value = value /\ vault'[Len(vault) + 1].by = c
  BY <1>1, AppendGrows
<1>3. PICK n : n = Len(vault) + 1
  OBVIOUS
<1>4. \A i \in 1 .. Len(vault') : i <= n
  BY <1>2, <1>3
<1>5. /\ n \in 1 .. Len(vault') /\ n > Len(vault) /\ vault'[n].value = value /\ vault'[n].by = c
      /\ \A i \in 1 .. Len(vault') : i > Len(vault) => i = n
  BY <1>2, <1>3
<1>6. IsOwn(c, n)'
  BY <1>4, <1>5 DEF IsOwn
<1>7. Grown
  BY <1>2 DEF Grown
<1> QED
  BY <1>2, <1>5, <1>6, <1>7

(* A call that gives up, before the vault has stored anything or after it. *)
LEMMA ThrowsKeeps ==
  ASSUME IInv, NEW c \in Calls, Reject(c),
         UNCHANGED <<port, config, state, cursor, matches, clean, vault, audit, flagged>>,
         tainted \subseteq tainted', tainted' \subseteq Strings \cup Values, EngineOK'
  PROVE  IInv'
<1>1. Grown
  BY QuietGrows
<1>2. phase \in [Calls -> {"idle", "scanning", "replacing", "written", "done", "rejected"}]
  BY DEF IInv, Types, CallTypes
<1>3. phase'[c] = "rejected" /\ \A d \in Calls \ {c} : phase'[d] = phase[d]
  BY <1>2 DEF Reject
<1>4. OnlyCall(c)
  <2>1. \A i \in 1 .. Len(vault') : ~ (i > Len(vault))
    BY <1>1 DEF Grown
  <2> QED
    BY <1>3, <2>1 DEF OnlyCall, SameStrings
<1>5. Types'
  <2>1. phase' \in [Calls -> {"idle", "scanning", "replacing", "written", "done", "rejected"}]
    BY <1>2 DEF Reject
  <2> QED
    BY <2>1 DEF IInv, Types, CallTypes
<1>6. CallOK(c)'
  BY <1>1, <1>3, RejectedStable DEF IInv, SameStrings
<1>7. EntriesOK'
  BY <1>1, <1>3, <1>4, QuietEntries
<1>8. AuditMatchesVault'
  BY <1>1, <1>3, <1>4, <1>5, QuietAudit
<1> QED
  BY <1>1, <1>4, <1>5, <1>6, <1>7, <1>8, StepAssembled

(* A write that stored the secret and failed leaves an entry that is       *)
(* nobody's.                                                               *)
LEMMA StoredThenFailsKeeps ==
  ASSUME IInv, NEW c \in Calls, Reject(c), Handling(c), port = "local" => Match(c).raw # Tainted,
         vault' = Append(vault, Entry(c, Match(c).raw, Match(c).leaf)),
         UNCHANGED <<port, config, state, cursor, matches, clean, tainted, audit, flagged>>
  PROVE  IInv'
<1>0. /\ Match(c).leaf \in Leaf /\ Match(c).raw \in Values
      /\ port = "local" => Match(c).raw \in Found
  BY MatchIs, MakeRaws DEF Handling, MatchOK
<1>1. /\ Grown /\ vault' \in Seq(Entries)
      /\ \A i \in 1 .. Len(vault') : i > Len(vault) => vault'[i].by = c /\ vault'[i].value = Match(c).raw
  BY <1>0, NewEntry
<1>2. phase \in [Calls -> {"idle", "scanning", "replacing", "written", "done", "rejected"}]
  BY DEF IInv, Types, CallTypes
<1>3. phase'[c] = "rejected" /\ \A d \in Calls \ {c} : phase'[d] = phase[d]
  BY <1>2 DEF Reject
<1>4. OnlyCall(c)
  BY <1>1, <1>3 DEF OnlyCall, SameStrings
<1>5. Types'
  <2>1. phase' \in [Calls -> {"idle", "scanning", "replacing", "written", "done", "rejected"}]
    BY <1>2 DEF Reject
  <2> QED
    BY <1>1, <2>1 DEF IInv, Types, CallTypes
<1>6. CallOK(c)'
  BY <1>1, <1>3, RejectedStable DEF IInv, SameStrings
<1>7. EntriesOK'
  <2>1. \A i \in 1 .. Len(vault') : i > Len(vault) => EntryOK(i)'
    BY <1>0, <1>1, <1>3, FoundGrows DEF EntryOK, Grown
  <2> QED
    BY <1>1, <1>3, <1>4, <2>1, EntriesStable
<1>8. EngineOK'
  BY DEF IInv, EngineOK
<1>9. AuditMatchesVault'
  BY <1>1, <1>3, <1>4, <1>5, AuditStable DEF Handling
<1> QED
  BY <1>1, <1>4, <1>5, <1>6, <1>7, <1>8, <1>9, StepAssembled

(* The caller writes a string into a state that is being scanned.          *)
LEMMA CallerWritesKeeps ==
  ASSUME IInv, NEW c \in Calls, NEW l \in Leaf, CallerWrites(c, l), UNCHANGED port
  PROVE  IInv'
<1>1. Grown
  BY QuietGrows DEF CallerWrites
<1>2. /\ state \in [Calls -> States] /\ CallOK(c) /\ matches[c] \in Seq(Finding)
  BY DEF IInv, Types, CallTypes
<1>3. state[c] \in [Leaf -> Strings] /\ clean[c] = <<>> /\ phase[c] = "scanning"
  BY <1>2 DEF CallOK, PlaceOK, CallerWrites
<1>4. PICK q \in config.texts : state' = [state EXCEPT ![c][l] = Late(q)]
  BY DEF CallerWrites
<1>5. q \in Seq(Secrets)
  BY ConfigIs DEF IInv, Types
<1>6. PICK late \in Strings : late = Late(q) /\ late.kind = "late" /\ late \notin {Masked, Gone, Derived}
  BY <1>5, MakeStrings
<1>7. PICK s : s = [state[c] EXCEPT ![l] = late]
  OBVIOUS
<1>8. s \in [Leaf -> Strings] /\ s[l] = late /\ \A k \in Leaf \ {l} : s[k] = state[c][k]
  BY <1>3, <1>6, <1>7
<1>9. state' = [state EXCEPT ![c] = s]
  BY <1>4, <1>6, <1>7
<1>10. /\ state'[c] = s /\ state' \in [Calls -> States] /\ \A d \in Calls \ {c} : state'[d] = state[d]
  BY <1>2, <1>8, <1>9 DEF States
<1>11. UNCHANGED <<port, config, phase, cursor, matches, clean, vault, tainted, audit, flagged>>
  BY DEF CallerWrites
<1>12. OnlyCall(c)
  <2>1. \A i \in 1 .. Len(vault') : ~ (i > Len(vault))
    BY <1>1, <1>11 DEF Grown
  <2> QED
    BY <1>10, <1>11, <2>1 DEF OnlyCall, SameStrings
<1>13. Types'
  BY <1>10, <1>11 DEF IInv, Types, CallTypes
<1>14. CallOK(c)'
  <2>0. DOMAIN clean[c] = {} /\ DOMAIN s = Leaf
    BY <1>3, <1>8
  <2>1. PlaceOK(c)'
    BY <1>2, <1>3, <1>8, <1>10, <1>11, <2>0 DEF CallOK, PlaceOK
  <2>2. RefsOK(c)'
    <3>1. ASSUME NEW k \in Leaf
          PROVE  RefKnown(s[k], k)' /\ (s[k].kind = "ref" => vault[s[k].id].by # c)
      <4>1. CASE k = l
        BY <1>6, <1>8, <4>1 DEF RefKnown
      <4>2. CASE k # l
        <5>1. s[k] = state[c][k] /\ k \in DOMAIN state[c]
          BY <1>3, <1>8, <4>2
        <5>2. RefKnown(s[k], k) /\ (s[k].kind = "ref" => vault[s[k].id].by # c)
          BY <1>2, <5>1 DEF CallOK, RefsOK
        <5> QED
          BY <1>1, <5>2, RefKnownStable
      <4> QED
        BY <4>1, <4>2
    <3> QED
      BY <1>10, <1>11, <2>0, <3>1 DEF RefsOK, RefKnown, RefPlace
  <2>3. MatchesOK(c)'
    <3>1. ASSUME NEW k \in 1 .. Len(matches[c])
          PROVE  MatchOK(c, matches[c][k])'
      <4>1. PICK m \in Finding : m = matches[c][k]
        BY <1>2
      <4>2. MatchOK(c, m)
        BY <1>2, <4>1 DEF CallOK, MatchesOK
      <4>3. m.leaf \in Leaf
        BY DEF Finding
      <4>4. s[m.leaf] \notin {Masked, Gone}
        BY <1>6, <1>8, <4>2, <4>3 DEF MatchOK
      <4> QED
        BY <1>10, <1>11, <4>1, <4>2, <4>4 DEF MatchOK, Found
    <3>2. ASSUME NEW k \in Scanned(c), config.addressing[k] # "unvisited", Marked(c, state[c][k])'
          PROVE  FoundAt(c, k) # {}
      <4>1. k \in Leaf
        BY <1>3 DEF Scanned
      <4>2. k # l
        BY <1>6, <1>8, <1>10, <3>2 DEF Marked
      <4>3. Marked(c, state[c][k])
        BY <1>8, <1>10, <1>11, <3>2, <4>1, <4>2 DEF Marked
      <4> QED
        BY <1>2, <3>2, <4>3 DEF CallOK, MatchesOK
    <3>3. Scanned(c)' = Scanned(c) /\ \A k : FoundAt(c, k)' = FoundAt(c, k)
      BY <1>11 DEF Scanned, FoundAt
    <3>4. \A k \in 1 .. Len(matches[c])' : MatchOK(c, matches[c][k])'
      BY <1>11, <3>1
    <3>5. \A k \in Scanned(c)' :
            config'.addressing[k] # "unvisited" /\ Marked(c, state[c][k])' => FoundAt(c, k)' # {}
      BY <1>11, <3>2, <3>3
    <3> QED
      BY <3>4, <3>5 DEF MatchesOK, Marked, MatchOK
  <2>4. OwnOK(c)' /\ ReachedOK(c)'
    BY <1>3, <1>11 DEF OwnOK, ReachedOK
  <2> QED
    BY <1>2, <1>11, <2>0, <2>1, <2>2, <2>3, <2>4 DEF CallOK
<1>15. EntriesOK'
  BY <1>1, <1>11, <1>12, QuietEntries
<1>16. EngineOK'
  BY <1>11 DEF IInv, EngineOK
<1>17. AuditMatchesVault'
  BY <1>1, <1>3, <1>11, <1>12, <1>13, QuietAudit
<1> QED
  BY <1>1, <1>12, <1>13, <1>14, <1>15, <1>16, <1>17, StepAssembled

(* Matches appended to others.                                             *)
LEMMA ConcatFindings ==
  ASSUME NEW r \in Seq(Finding), NEW s \in Seq(Finding)
  PROVE  /\ r \o s \in Seq(Finding) /\ Len(r) \in Nat /\ Len(s) \in Nat /\ Len(r \o s) = Len(r) + Len(s)
         /\ \A k \in 1 .. Len(r) : (r \o s)[k] = r[k]
         /\ \A k \in 1 .. Len(r \o s) : k > Len(r) => k - Len(r) \in 1 .. Len(s) /\ (r \o s)[k] = s[k - Len(r)]
         /\ s # <<>> => Len(r) + 1 \in 1 .. Len(r \o s) /\ (r \o s)[Len(r) + 1] = s[1] /\ 1 \in 1 .. Len(s)
OBVIOUS

(* A scanned leaf that has a secret is no mask, and there.                 *)
LEMMA TagsNoMask ==
  ASSUME NEW content \in Strings, Detect(content) # <<>>
  PROVE  content \notin {Masked, Gone}
BY DetectFinds

(* The local scan goes one leaf further; the leaves behind it are matched. *)
LEMMA ScanLeafKeeps ==
  ASSUME IInv, NEW c \in Calls, ScanLeaf(c), UNCHANGED port, port = "local"
  PROVE  IInv'
<1>0. /\ phase[c] = "scanning" /\ UNCHANGED <<port, config, state, phase, clean, vault, audit, flagged>>
      /\ cursor[c] \in Leaf /\ cursor' = [cursor EXCEPT ![c] = cursor[c] + 1]
      /\ tainted' = IF config.addressing[cursor[c]] # "unvisited" /\ Detect(state[c][cursor[c]]) # <<>>
                      THEN tainted \cup {state[c][cursor[c]]} ELSE tainted
      /\ matches' = [matches EXCEPT ![c] = matches[c] \o MatchesIn(c, cursor[c])]
  BY DEF ScanLeaf
<1>1. /\ state \in [Calls -> States] /\ CallOK(c) /\ matches \in [Calls -> Seq(Finding)]
      /\ cursor \in [Calls -> Nat \ {0}] /\ tainted \subseteq Strings \cup Values
      /\ Masked \notin tainted /\ Gone \notin tainted
  BY DEF IInv, Types, CallTypes, EngineOK
<1>2. state[c] \in [Leaf -> Strings] /\ clean[c] = <<>> /\ DOMAIN clean[c] = {} /\ flagged[c] \subseteq tainted
  BY <1>0, <1>1 DEF CallOK, PlaceOK
<1>3. PICK l \in Leaf, content \in Strings : l = cursor[c] /\ content = state[c][l]
  BY <1>0, <1>2
<1>4. /\ tainted \subseteq tainted' /\ tainted' \subseteq Strings \cup Values
      /\ Masked \notin tainted' /\ Gone \notin tainted'
  BY <1>0, <1>1, <1>3, TagsNoMask
<1>5. Grown
  BY <1>0, <1>4, QuietGrows
<1>6. PICK m : m = MatchesIn(c, l)
  OBVIOUS
<1>7. Yields(c, l, m)
  <2>1. RefKnown(state[c][l], l)
    BY <1>1, <1>2 DEF CallOK, RefsOK
  <2> QED
    BY <1>1, <1>2, <1>6, <2>1, MatchesInYields
<1>8. PICK r \in Seq(Finding) : r = matches[c]
  BY <1>1
<1>9. m \in Seq(Finding)
  BY <1>7 DEF Yields
<1>10. /\ matches' = [matches EXCEPT ![c] = r \o m] /\ matches'[c] = r \o m
       /\ matches' \in [Calls -> Seq(Finding)]
  BY <1>0, <1>1, <1>3, <1>6, <1>8, <1>9
<1>11. /\ cursor'[c] = l + 1 /\ cursor' \in [Calls -> Nat \ {0}] /\ l \in Nat
  BY <1>0, <1>1, <1>3 DEF Leaf
<1>12. OnlyCall(c)
  <2>1. \A i \in 1 .. Len(vault') : ~ (i > Len(vault))
    BY <1>0, <1>5 DEF Grown
  <2>2. \A d \in Calls \ {c} : matches'[d] = matches[d] /\ cursor'[d] = cursor[d]
    BY <1>0, <1>1
  <2> QED
    BY <1>0, <2>1, <2>2 DEF OnlyCall, SameStrings
<1>13. Types'
  BY <1>0, <1>4, <1>10, <1>11 DEF IInv, Types, CallTypes
<1>14. CallOK(c)'
  <2>1. PlaceOK(c)'
    <3>1. l + 1 <= NumLeaves + 1 /\ NumLeaves \in Nat
      BY CheckpointAssumption DEF Leaf
    <3> QED
      BY <1>0, <1>2, <1>11, <3>1 DEF PlaceOK
  <2>2. RefsOK(c)'
    <3>1. state[c] \in States /\ clean[c] \in States
      BY DEF IInv, Types, CallTypes
    <3> QED
      BY <1>0, <1>1, <1>5, <3>1, RefsStable DEF CallOK
  <2>3. MatchesOK(c)'
    <3>1. ASSUME NEW k \in 1 .. Len(r \o m)
          PROVE  MatchOK(c, (r \o m)[k])'
      <4>1. PICK x \in Finding : x = (r \o m)[k] /\ MatchOK(c, x)
        <5>1. CASE k \in 1 .. Len(r)
          <6>1. (r \o m)[k] = r[k] /\ r[k] \in Finding
            BY <1>9, <5>1, ConcatFindings
          <6>2. MatchOK(c, r[k])
            BY <1>1, <1>8, <5>1 DEF CallOK, MatchesOK
          <6> QED
            BY <6>1, <6>2
        <5>2. CASE k \notin 1 .. Len(r)
          <6>1. k > Len(r)
            BY <5>2
          <6>2. k - Len(r) \in 1 .. Len(m) /\ (r \o m)[k] = m[k - Len(r)]
            BY <1>9, <6>1, ConcatFindings
          <6>3. MatchOK(c, m[k - Len(r)]) /\ m[k - Len(r)] \in Finding
            BY <1>7, <1>9, <6>2 DEF Yields
          <6> QED
            BY <6>2, <6>3
        <5> QED
          BY <5>1, <5>2
      <4>2. MatchOK(c, x)'
        BY <1>0, <1>5, <4>1, MatchStable
      <4> QED
        BY <4>1, <4>2 DEF MatchOK
    <3>2. ASSUME NEW k \in Leaf, k < l + 1, config.addressing[k] # "unvisited", Marked(c, state[c][k])
          PROVE  \E j \in 1 .. Len(r \o m) : (r \o m)[j].leaf = k
      <4>1. CASE k = l
        <5>1. m # <<>>
          BY <1>7, <3>2, <4>1 DEF Yields
        <5>2. m[1].leaf = l /\ Len(r) + 1 \in 1 .. Len(r \o m) /\ (r \o m)[Len(r) + 1] = m[1]
          BY <1>7, <1>9, <5>1, ConcatFindings DEF Yields
        <5> QED
          BY <4>1, <5>2
      <4>2. CASE k # l
        <5>1. k \in Scanned(c)
          BY <1>0, <1>3, <1>11, <3>2, <4>2 DEF Scanned, Leaf
        <5>2. PICK j \in 1 .. Len(r) : r[j].leaf = k
          BY <1>1, <1>8, <3>2, <5>1 DEF CallOK, MatchesOK, FoundAt
        <5>3. j \in 1 .. Len(r \o m) /\ (r \o m)[j] = r[j]
          BY <1>9, <5>2, ConcatFindings
        <5> QED
          BY <5>2, <5>3
      <4> QED
        BY <4>1, <4>2
    <3>3. Scanned(c)' = {k \in Leaf : k < l + 1}
      BY <1>0, <1>11 DEF Scanned
    <3>4. \A k \in 1 .. Len(matches'[c]) : MatchOK(c, matches[c][k])'
      BY <1>10, <3>1 DEF MatchOK
    <3>5. \A k \in Scanned(c)' : Marked(c, state[c][k])' <=> Marked(c, state[c][k])
      BY <1>0 DEF Marked
    <3>6. \A k \in Scanned(c)' :
            config'.addressing[k] # "unvisited" /\ Marked(c, state[c][k])' => FoundAt(c, k)' # {}
      BY <1>0, <1>10, <3>2, <3>3, <3>5 DEF FoundAt
    <3> QED
      BY <3>4, <3>6 DEF MatchesOK, Marked
  <2>4. OwnOK(c)' /\ ReachedOK(c)'
    BY <1>0 DEF OwnOK, ReachedOK
  <2>5. flagged'[c] \subseteq tainted' /\ DOMAIN clean'[c] = {}
    BY <1>0, <1>2, <1>4
  <2> QED
    BY <2>1, <2>2, <2>3, <2>4, <2>5 DEF CallOK
<1>15. EntriesOK'
  BY <1>0, <1>5, <1>12, QuietEntries
<1>16. EngineOK'
  BY <1>0, <1>4 DEF EngineOK
<1>17. AuditMatchesVault'
  BY <1>0, <1>5, <1>12, <1>13, QuietAudit
<1> QED
  BY <1>5, <1>12, <1>13, <1>14, <1>15, <1>16, <1>17, StepAssembled

(* A clone is as good as its original, and nothing in it is handled yet.   *)
LEMMA CloneGood ==
  ASSUME IInv, Grown, NEW c \in Calls, state[c] \in [Leaf -> Strings],
         state'[c] = state[c], clean'[c] = state[c], cursor'[c] = 1
  PROVE  RefsOK(c)' /\ (\A l \in DOMAIN clean'[c] : HandledOK(c, l)') /\ ReachedOK(c)'
<1>1. RefsOK(c) /\ DOMAIN state[c] = Leaf
  BY DEF IInv, CallOK
<1>2. \A l \in Leaf : RefKnown(state[c][l], l)'
  BY <1>1, RefKnownStable DEF RefsOK, RefKnown, Grown, RefPlace
<1>3. \A l \in Leaf : state[c][l].kind = "ref" => vault'[state[c][l].id].by # c
  BY <1>1 DEF RefsOK, RefKnown, Grown
<1>4. RefsOK(c)'
  BY <1>1, <1>2, <1>3 DEF RefsOK, RefKnown, RefPlace
<1>5. \A k \in 1 .. Len(matches'[c]) : ~ (k < 1)
  OBVIOUS
<1>6. \A l : Landed(c, l)' = {}
  BY <1>5 DEF Landed
<1> QED
  BY <1>4, <1>5, <1>6 DEF HandledOK, ReachedOK

(* The whole state is scanned and cloned.                                  *)
LEMMA CloneKeeps ==
  ASSUME IInv, NEW c \in Calls, Clone(c), UNCHANGED port
  PROVE  IInv'
<1>0. /\ phase[c] = "scanning" /\ cursor[c] \notin Leaf
      /\ UNCHANGED <<port, config, state, matches, vault, tainted, audit, flagged>>
      /\ clean' = [clean EXCEPT ![c] = state[c]]
      /\ phase' = [phase EXCEPT ![c] = "replacing"] /\ cursor' = [cursor EXCEPT ![c] = 1]
  BY DEF Clone
<1>1. /\ clean \in [Calls -> States] /\ CallOK(c) /\ matches[c] \in Seq(Finding)
      /\ cursor \in [Calls -> Nat \ {0}]
      /\ phase \in [Calls -> {"idle", "scanning", "replacing", "written", "done", "rejected"}]
  BY DEF IInv, Types, CallTypes
<1>2. state[c] \in [Leaf -> Strings]
  BY <1>0, <1>1 DEF CallOK, PlaceOK
<1>3. Grown
  BY <1>0, QuietGrows
<1>4. /\ clean'[c] = state[c] /\ phase'[c] = "replacing" /\ cursor'[c] = 1
      /\ clean' \in [Calls -> States]
      /\ phase' \in [Calls -> {"idle", "scanning", "replacing", "written", "done", "rejected"}]
      /\ cursor' \in [Calls -> Nat \ {0}]
  BY <1>0, <1>1, <1>2 DEF States
<1>5. OnlyCall(c)
  <2>1. \A i \in 1 .. Len(vault') : ~ (i > Len(vault))
    BY <1>0, <1>3 DEF Grown
  <2>2. \A d \in Calls \ {c} : clean'[d] = clean[d] /\ phase'[d] = phase[d] /\ cursor'[d] = cursor[d]
    BY <1>0, <1>1
  <2> QED
    BY <1>0, <2>1, <2>2 DEF OnlyCall, SameStrings
<1>6. Types'
  BY <1>0, <1>4 DEF IInv, Types, CallTypes
<1>7. CallOK(c)'
  <2>1. RefsOK(c)' /\ (\A l \in DOMAIN clean'[c] : HandledOK(c, l)') /\ ReachedOK(c)'
    BY <1>0, <1>2, <1>3, <1>4, CloneGood
  <2>2. PlaceOK(c)'
    <3>1. Len(matches[c]) \in Nat
      BY <1>1
    <3> QED
      BY <1>0, <1>2, <1>4, <3>1 DEF PlaceOK
  <2>3. MatchesOK(c)'
    <3>1. cursor[c] <= NumLeaves + 1 /\ NumLeaves \in Nat /\ cursor[c] \in Nat \ {0}
      BY <1>0, <1>1, CheckpointAssumption DEF CallOK, PlaceOK
    <3>2. Scanned(c) = Leaf
      BY <1>0, <3>1 DEF Scanned, Leaf
    <3>3. Scanned(c)' = Leaf
      BY <1>4 DEF Scanned
    <3>4. \A k \in 1 .. Len(matches[c]) : MatchOK(c, matches[c][k])'
      BY <1>0, <1>1 DEF CallOK, MatchesOK, MatchOK, Found
    <3>5. \A l \in Leaf : FoundAt(c, l)' = FoundAt(c, l) /\ (Marked(c, state[c][l])' <=> Marked(c, state[c][l]))
      BY <1>0 DEF FoundAt, Marked
    <3>6. \A l \in Leaf : config'.addressing[l] # "unvisited" /\ Marked(c, state[c][l])' => FoundAt(c, l)' # {}
      BY <1>0, <1>1, <3>2, <3>5 DEF CallOK, MatchesOK
    <3> QED
      BY <1>0, <3>3, <3>4, <3>6 DEF MatchesOK, Marked
  <2> QED
    BY <1>0, <1>1, <1>4, <2>1, <2>2, <2>3 DEF CallOK, OwnOK
<1>8. EntriesOK'
  BY <1>0, <1>3, <1>4, <1>5, QuietEntries
<1>9. EngineOK'
  BY <1>0 DEF IInv, EngineOK
<1>10. AuditMatchesVault'
  BY <1>0, <1>3, <1>5, <1>6, QuietAudit
<1> QED
  BY <1>3, <1>5, <1>6, <1>7, <1>8, <1>9, <1>10, StepAssembled

(* The leaves' matches, one leaf after the other.                          *)
LEMMA ScanYields ==
  ASSUME NEW c \in Calls, \A l \in Leaf : Yields(c, l, PortMatchesIn(c, l)),
         NEW m, m = FlattenSeq([l \in Leaf |-> PortMatchesIn(c, l)])
  PROVE  /\ m \in Seq(Finding)
         /\ \A k \in 1 .. Len(m) : MatchOK(c, m[k])
         /\ \A l \in Leaf : config.addressing[l] # "unvisited" /\ Marked(c, state[c][l]) =>
              \E k \in 1 .. Len(m) : m[k].leaf = l
<1>1. PICK parts : parts = [l \in Leaf |-> PortMatchesIn(c, l)]
  OBVIOUS
<1>2. \A l \in Leaf : Yields(c, l, parts[l])
  BY <1>1
<1>3. parts \in [1 .. NumLeaves -> Seq(Finding)] /\ NumLeaves \in Nat
  <2>1. \A l \in Leaf : PortMatchesIn(c, l) \in Seq(Finding)
    BY DEF Yields
  <2> QED
    BY <1>1, <2>1, CheckpointAssumption DEF Leaf
<1>4. m \in Seq(Finding) /\ Collects(m, parts, NumLeaves)
  BY <1>1, <1>3, FlattenSeqCollects
<1>5. ASSUME NEW k \in 1 .. Len(m) PROVE MatchOK(c, m[k])
  <2>1. PICK l \in Leaf : \E j \in 1 .. Len(parts[l]) : m[k] = parts[l][j]
    BY <1>4 DEF Collects, Leaf
  <2> QED
    BY <1>2, <2>1 DEF Yields
<1>6. ASSUME NEW l \in Leaf, config.addressing[l] # "unvisited", Marked(c, state[c][l])
      PROVE  \E k \in 1 .. Len(m) : m[k].leaf = l
  <2>1. parts[l] # <<>> /\ parts[l] \in Seq(Finding) /\ \A j \in 1 .. Len(parts[l]) : parts[l][j].leaf = l
    BY <1>2, <1>6 DEF Yields
  <2>2. 1 \in 1 .. Len(parts[l])
    BY <2>1
  <2>3. PICK k \in 1 .. Len(m) : m[k] = parts[l][1]
    BY <1>4, <2>2 DEF Collects, Leaf
  <2> QED
    BY <2>1, <2>2, <2>3
<1> QED
  BY <1>4, <1>5, <1>6

(* The same in one step.                                                   *)
LEMMA PortScanKeeps ==
  ASSUME IInv, NEW c \in Calls, PortScan(c), port \in {"worker", "python"}
  PROVE  IInv'
<1>0. /\ phase[c] = "scanning"
      /\ UNCHANGED <<port, config, state, cursor, vault, audit, flagged>>
      /\ clean' = [clean EXCEPT ![c] = state[c]]
      /\ phase' = [phase EXCEPT ![c] = "replacing"]
      /\ tainted' = IF port = "python" THEN tainted \cup Tagged(c) ELSE tainted
  BY DEF PortScan
<1>1. /\ clean \in [Calls -> States] /\ CallOK(c) /\ matches \in [Calls -> Seq(Finding)]
      /\ cursor \in [Calls -> Nat \ {0}] /\ tainted \subseteq Strings \cup Values
      /\ Masked \notin tainted /\ Gone \notin tainted /\ (port = "worker" => tainted = {})
      /\ phase \in [Calls -> {"idle", "scanning", "replacing", "written", "done", "rejected"}]
  BY DEF IInv, Types, CallTypes, EngineOK
<1>2. state[c] \in [Leaf -> Strings] /\ cursor[c] = 1 /\ flagged[c] \subseteq tainted
  BY <1>0, <1>1 DEF CallOK, PlaceOK
<1>3. /\ tainted \subseteq tainted' /\ tainted' \subseteq Strings \cup Values
      /\ Masked \notin tainted' /\ Gone \notin tainted'
  <2>1. \A x \in Tagged(c) : x \in Strings /\ x \notin {Masked, Gone}
    BY <1>2, TagsNoMask DEF Tagged
  <2> QED
    BY <1>0, <1>1, <2>1
<1>4. Grown
  BY <1>0, <1>3, QuietGrows
<1>5. PICK m : m = FlattenSeq([l \in Leaf |-> PortMatchesIn(c, l)])
  OBVIOUS
<1>6. \A l \in Leaf : Yields(c, l, PortMatchesIn(c, l))
  <2>1. \A l \in Leaf : RefKnown(state[c][l], l)
    BY <1>1, <1>2 DEF CallOK, RefsOK
  <2> QED
    BY <1>1, <1>2, <2>1, PortMatchesInYields
<1>7. /\ m \in Seq(Finding)
      /\ \A k \in 1 .. Len(m) : MatchOK(c, m[k])
      /\ \A l \in Leaf : config.addressing[l] # "unvisited" /\ Marked(c, state[c][l]) =>
              \E k \in 1 .. Len(m) : m[k].leaf = l
  BY <1>5, <1>6, ScanYields
<1>8. matches' = [matches EXCEPT ![c] = m]
  BY <1>5 DEF PortScan
<1>9. /\ clean'[c] = state[c] /\ phase'[c] = "replacing" /\ matches'[c] = m
      /\ clean' \in [Calls -> States] /\ matches' \in [Calls -> Seq(Finding)]
      /\ phase' \in [Calls -> {"idle", "scanning", "replacing", "written", "done", "rejected"}]
  BY <1>0, <1>1, <1>2, <1>7, <1>8 DEF States
<1>10. OnlyCall(c)
  <2>1. \A i \in 1 .. Len(vault') : ~ (i > Len(vault))
    BY <1>0, <1>4 DEF Grown
  <2>2. \A d \in Calls \ {c} : clean'[d] = clean[d] /\ phase'[d] = phase[d] /\ matches'[d] = matches[d]
    BY <1>0, <1>1, <1>8
  <2> QED
    BY <1>0, <2>1, <2>2 DEF OnlyCall, SameStrings
<1>11. Types'
  BY <1>0, <1>3, <1>9 DEF IInv, Types, CallTypes
<1>12. CallOK(c)'
  <2>1. RefsOK(c)' /\ (\A l \in DOMAIN clean'[c] : HandledOK(c, l)') /\ ReachedOK(c)'
    BY <1>0, <1>2, <1>4, <1>9, CloneGood
  <2>2. PlaceOK(c)'
    <3>1. Len(m) \in Nat
      BY <1>7
    <3> QED
      BY <1>0, <1>2, <1>9, <3>1 DEF PlaceOK
  <2>3. MatchesOK(c)'
    <3>1. \A k \in 1 .. Len(m) : MatchOK(c, m[k])'
      <4>1. \A k \in 1 .. Len(m) : m[k] \in Finding
        BY <1>7
      <4> QED
        BY <1>0, <1>4, <1>7, <4>1, MatchStable DEF MatchOK
    <3>2. Scanned(c)' = Leaf
      BY <1>9 DEF Scanned
    <3>3. \A l \in Leaf : Marked(c, state[c][l])' <=> Marked(c, state[c][l])
      BY <1>0 DEF Marked
    <3>4. ASSUME NEW l \in Leaf, config'.addressing[l] # "unvisited", Marked(c, state[c][l])'
          PROVE  FoundAt(c, l)' # {}
      <4>1. PICK k \in 1 .. Len(m) : m[k].leaf = l
        BY <1>0, <1>7, <3>3, <3>4
      <4> QED
        BY <1>9, <4>1 DEF FoundAt
    <3> QED
      BY <1>9, <3>1, <3>2, <3>4 DEF MatchesOK, MatchOK, Marked
  <2>4. flagged'[c] \subseteq tainted' /\ phase'[c] # "written"
    BY <1>0, <1>2, <1>3, <1>9
  <2> QED
    BY <2>1, <2>2, <2>3, <2>4 DEF CallOK, OwnOK
<1>13. EntriesOK'
  BY <1>0, <1>4, <1>9, <1>10, QuietEntries
<1>14. EngineOK'
  BY <1>0, <1>1, <1>3 DEF EngineOK
<1>15. AuditMatchesVault'
  BY <1>0, <1>4, <1>10, <1>11, QuietAudit
<1> QED
  BY <1>4, <1>10, <1>11, <1>12, <1>13, <1>14, <1>15, StepAssembled

(* A call ends once every match is handled.                                *)
LEMMA EndKeeps ==
  ASSUME IInv, NEW c \in Calls, End(c), UNCHANGED port
  PROVE  IInv'
<1>0. /\ phase[c] = "replacing" /\ cursor[c] > Len(matches[c])
      /\ phase' = [phase EXCEPT ![c] = "done"]
      /\ audit' = audit \cup {Event(c, "checkpoint_end", 0)}
      /\ UNCHANGED <<port, config, state, cursor, matches, clean, vault, tainted, flagged>>
  BY DEF End
<1>1. /\ CallOK(c) /\ matches[c] \in Seq(Finding) /\ cursor \in [Calls -> Nat \ {0}] /\ audit \subseteq Events
      /\ phase \in [Calls -> {"idle", "scanning", "replacing", "written", "done", "rejected"}]
      /\ state[c] \in States /\ clean[c] \in States
  BY DEF IInv, Types, CallTypes
<1>2. Grown
  BY <1>0, QuietGrows
<1>3. /\ phase'[c] = "done" /\ \A d \in Calls \ {c} : phase'[d] = phase[d]
      /\ phase' \in [Calls -> {"idle", "scanning", "replacing", "written", "done", "rejected"}]
  BY <1>0, <1>1
<1>4. /\ Event(c, "checkpoint_end", 0) \in Events
      /\ Event(c, "checkpoint_end", 0).type = "checkpoint_end"
  <2>1. "checkpoint_end" \in EventTypes
    BY DEF EventTypes
  <2> QED
    BY <1>1, <2>1, EventIs
<1>5. OnlyCall(c)
  <2>1. \A i \in 1 .. Len(vault') : ~ (i > Len(vault))
    BY <1>0, <1>2 DEF Grown
  <2> QED
    BY <1>0, <1>3, <2>1 DEF OnlyCall, SameStrings
<1>6. Types'
  BY <1>0, <1>1, <1>3, <1>4 DEF IInv, Types, CallTypes
<1>7. CallOK(c)'
  <2>1. SameStrings(c)
    BY <1>0 DEF SameStrings
  <2>2. PlaceOK(c)'
    <3>1. cursor[c] <= Len(matches[c]) + 1 /\ Len(matches[c]) \in Nat /\ cursor[c] \in Nat
      BY <1>0, <1>1 DEF CallOK, PlaceOK
    <3>2. cursor[c] = Len(matches[c]) + 1
      BY <1>0, <3>1
    <3>3. state[c] \in [Leaf -> Strings] /\ clean[c] \in [Leaf -> Strings]
      BY <1>0, <1>1 DEF CallOK, PlaceOK
    <3> QED
      BY <1>0, <1>3, <3>1, <3>2, <3>3 DEF PlaceOK
  <2>3. RefsOK(c)'
    BY <1>1, <1>2, <2>1, RefsStable DEF CallOK, SameStrings
  <2>4. MatchesOK(c)'
    <3>1. Scanned(c)' \subseteq Scanned(c)
      BY <1>0, <1>3 DEF Scanned
    <3> QED
      BY <1>1, <1>2, <2>1, <3>1, MatchesStable DEF CallOK
  <2>5. \A l \in DOMAIN clean'[c] : HandledOK(c, l)'
    BY <1>0, <1>1, <1>2, <2>1, HandledStable DEF CallOK
  <2>6. ReachedOK(c)'
    BY <1>0, <1>1, <1>2, ReachedStable DEF CallOK
  <2> QED
    BY <1>0, <1>1, <1>3, <2>2, <2>3, <2>4, <2>5, <2>6 DEF CallOK, OwnOK
<1>8. EntriesOK'
  BY <1>0, <1>2, <1>3, <1>5, QuietEntries
<1>9. EngineOK'
  BY <1>0 DEF IInv, EngineOK
<1>10. AuditMatchesVault'
  BY <1>0, <1>2, <1>4, <1>5, <1>6, QuietAudit
<1> QED
  BY <1>2, <1>5, <1>6, <1>7, <1>8, <1>9, <1>10, StepAssembled

-------------------------------------------------------------------------------
(* Handling a match.                                                       *)

(* The vault has stored what was found, or what the rotation hook made of  *)
(* it.                                                                     *)
LEMMA StoredKeeps ==
  ASSUME IInv, NEW c \in Calls, Handling(c), port = "local" => Match(c).raw # Tainted,
         NEW value \in {Match(c).raw, Rotated(Match(c).raw)},
         vault' = Append(vault, Entry(c, value, Match(c).leaf)),
         phase' = [phase EXCEPT ![c] = "written"],
         UNCHANGED <<port, config, state, cursor, matches, clean, tainted, audit, flagged>>
  PROVE  IInv'
<1>0. /\ Match(c).leaf \in Leaf /\ value \in Values
      /\ port = "local" => value \in Found \cup {Rotated(f) : f \in Found}
  BY MatchIs, MakeRaws DEF Handling, MatchOK
<1>1. PICK n \in 1 .. Len(vault') :
        /\ n > Len(vault) /\ IsOwn(c, n)' /\ vault'[n].value = value
        /\ \A i \in 1 .. Len(vault') : i > Len(vault) => i = n /\ vault'[i].by = c
  BY <1>0, NewEntry
<1>2. Grown /\ vault' \in Seq(Entries)
  BY <1>0, NewEntry
<1>3. /\ phase \in [Calls -> {"idle", "scanning", "replacing", "written", "done", "rejected"}]
      /\ CallOK(c) /\ state[c] \in States /\ clean[c] \in States /\ matches[c] \in Seq(Finding)
  BY DEF IInv, Types, CallTypes
<1>4. /\ phase[c] = "replacing" /\ phase'[c] = "written" /\ \A d \in Calls \ {c} : phase'[d] = phase[d]
      /\ phase' \in [Calls -> {"idle", "scanning", "replacing", "written", "done", "rejected"}]
  BY <1>3 DEF Handling
<1>5. OnlyCall(c)
  BY <1>1, <1>4 DEF OnlyCall, SameStrings
<1>6. Types'
  BY <1>2, <1>4 DEF IInv, Types, CallTypes
<1>7. CallOK(c)'
  <2>1. SameStrings(c)
    BY DEF SameStrings
  <2>2. PlaceOK(c)'
    BY <1>3, <1>4 DEF CallOK, PlaceOK, Handling
  <2>3. RefsOK(c)'
    BY <1>2, <1>3, <2>1, RefsStable DEF CallOK, SameStrings
  <2>4. MatchesOK(c)'
    <3>1. Scanned(c)' \subseteq Scanned(c)
      BY <1>4 DEF Scanned
    <3> QED
      BY <1>2, <1>3, <2>1, <3>1, MatchesStable DEF CallOK
  <2>5. \A l \in DOMAIN clean'[c] : HandledOK(c, l)'
    BY <1>2, <1>3, <2>1, HandledStable DEF CallOK
  <2>6. OwnOK(c)'
    BY <1>1 DEF OwnOK, Match
  <2>7. ReachedOK(c)'
    BY <1>2, <1>3, <1>4, ReachedStable DEF CallOK
  <2> QED
    BY <1>3, <2>2, <2>3, <2>4, <2>5, <2>6, <2>7 DEF CallOK
<1>8. EntriesOK'
  <2>1. \A i \in 1 .. Len(vault') : i > Len(vault) => EntryOK(i)'
    BY <1>0, <1>1, <1>2, <1>4, FoundGrows DEF EntryOK, Grown
  <2> QED
    BY <1>2, <1>4, <1>5, <2>1, EntriesStable
<1>9. EngineOK'
  BY DEF IInv, EngineOK
<1>10. AuditMatchesVault'
  <2>1. OwnEntry(c)' = n
    BY <1>1, <1>2, OwnEntryBecomes
  <2> QED
    BY <1>1, <1>2, <1>4, <1>5, <1>6, <2>1, AuditStable
<1> QED
  BY <1>2, <1>5, <1>6, <1>7, <1>8, <1>9, <1>10, StepAssembled

(* What may take a match's place: a mask, or a reference to the call's own *)
(* entry, which holds the secret of this match.                            *)
Replacement(c, content) ==
  \/ content = Masked
  \/ \E j \in 1 .. Len(vault) :
       /\ content = Ref(j) /\ vault[j].by = c /\ vault[j].value \in {Match(c).raw, Rotated(Match(c).raw)}
       /\ port = "local" => content \in tainted'

(* On to the next match, with the leaves its path leads to replaced, unless *)
(* nothing can reach it.                                                   *)
Advanced(c, content, type, i) ==
  /\ \E t \in [Leaf -> Strings \cup {content}] :
       /\ clean' = [clean EXCEPT ![c] = t]
       /\ \A k \in Leaf :
            IF k \in Lands(Match(c).leaf) THEN t[k] \in {content, Gone} ELSE t[k] = clean[c][k]
  /\ Reachable(Match(c).leaf)
  /\ audit' = audit \cup {Event(c, type, i)}
  /\ cursor' = [cursor EXCEPT ![c] = @ + 1]
  /\ phase' = [phase EXCEPT ![c] = "replacing"]

(* Where a reference may come to be.                                       *)
LEMMA LandsAtPlace ==
  ASSUME IInv, NEW c \in Calls, cursor[c] <= Len(matches[c]), NEW k \in Leaf, k \in Lands(Match(c).leaf)
  PROVE  RefPlace(k)
<1>1. PICK l \in Leaf : l = Match(c).leaf /\ config.addressing[l] # "unvisited"
  BY MatchIs DEF MatchOK
<1>2. CASE k = l
  BY <1>1, <1>2 DEF Lands, RefPlace
<1>3. CASE k # l
  BY <1>1, <1>3, ConfigIs DEF RefPlace, IInv, Types
<1> QED
  BY <1>2, <1>3

(* Every leaf is what the last match that led to it made of it.            *)
LEMMA AdvancedHandled ==
  ASSUME IInv, Grown, NEW c \in Calls, phase[c] \in {"replacing", "written"}, cursor[c] <= Len(matches[c]),
         NEW content \in Strings, NEW type, NEW i, Replacement(c, content), Advanced(c, content, type, i),
         UNCHANGED <<state, matches, vault>>
  PROVE  /\ clean' \in [Calls -> States] /\ clean'[c] \in [Leaf -> Strings]
         /\ \A d \in Calls \ {c} : clean'[d] = clean[d]
         /\ \A k \in Leaf : HandledOK(c, k)' /\ RefKnown(clean[c][k], k)'
         /\ \A k \in 1 .. Len(matches[c]) : k < cursor[c] + 1 => Reachable(matches[c][k].leaf)
<1>1. /\ CallOK(c) /\ clean \in [Calls -> States] /\ cursor \in [Calls -> Nat \ {0}]
      /\ state[c] \in [Leaf -> Strings] /\ clean[c] \in [Leaf -> Strings]
  BY DEF IInv, Types, CallTypes, CallOK, PlaceOK
<1>2. PICK l \in Leaf, n \in 1 .. Len(matches[c]) : l = Match(c).leaf /\ n = cursor[c]
  BY MatchIs
<1>3. matches[c][n].leaf = l /\ cursor'[c] = n + 1 /\ n \in Nat /\ matches'[c] = matches[c] /\ state'[c] = state[c]
  BY <1>1, <1>2 DEF Match, Advanced
<1>4. PICK t \in [Leaf -> Strings] :
        /\ clean' = [clean EXCEPT ![c] = t]
        /\ \A k \in Leaf : IF k \in Lands(l) THEN t[k] \in {content, Gone} ELSE t[k] = clean[c][k]
  <2>1. Strings \cup {content} = Strings
    OBVIOUS
  <2> QED
    BY <1>2, <2>1 DEF Advanced
<1>5. t \in States
  BY <1>4 DEF States
<1>6. clean' \in [Calls -> States] /\ clean'[c] = t /\ \A d \in Calls \ {c} : clean'[d] = clean[d]
  BY <1>1, <1>4, <1>5
<1>7. \A k \in 1 .. Len(matches[c]) : Lands(matches[c][k].leaf)' = Lands(matches[c][k].leaf)
  <2>1. \A m : Lands(m)' = Lands(m)
    BY LandsSame DEF Grown
  <2> QED
    BY <2>1 DEF Lands, Landing, Grown
<1>8. ASSUME NEW k \in Leaf PROVE RefKnown(clean[c][k], k) /\ HandledOK(c, k)
  BY <1>1 DEF CallOK, RefsOK
<1>9. ASSUME NEW k \in Leaf, k \notin Lands(l) PROVE HandledOK(c, k)' /\ RefKnown(clean[c][k], k)'
  <2>1. clean'[c][k] = clean[c][k]
    BY <1>4, <1>6, <1>9
  <2>2. Landed(c, k)' = Landed(c, k)
    <3>1. \A j \in 1 .. Len(matches[c]) : k \in Lands(matches[c][j].leaf) => j # n
      BY <1>3, <1>9
    <3>2. \A j \in 1 .. Len(matches[c]) : j # n => (j < n + 1 <=> j < n)
      BY <1>3
    <3> QED
      BY <1>2, <1>3, <1>7, <3>1, <3>2 DEF Landed
  <2>3. HandledOK(c, k)'
    BY <1>3, <1>8, <2>1, <2>2, HandledSame
  <2>4. RefKnown(clean[c][k], k)'
    BY <1>8, <2>1, RefKnownStable DEF RefKnown, Grown, RefPlace
  <2> QED
    BY <2>3, <2>4
<1>10. ASSUME NEW k \in Leaf, k \in Lands(l) PROVE HandledOK(c, k)'
  <2>1. n \in Landed(c, k)' /\ \A j \in Landed(c, k)' : j <= n
    <3>1. \A j \in 1 .. Len(matches[c]) : j < n + 1 => j <= n
      BY <1>3
    <3> QED
      BY <1>3, <1>7, <1>10, <3>1 DEF Landed
  <2>2. PICK raw : raw = matches[c][n].raw /\ raw = Match(c).raw
    BY <1>2 DEF Match
  <2>3. t[k] \in {content, Gone}
    BY <1>4, <1>10
  <2>4. Replaced(c, k, raw)'
    BY <1>6, <2>2, <2>3 DEF Replacement, Replaced
  <2>5. \E last \in Landed(c, k)' :
          (\A j \in Landed(c, k)' : j <= last) /\ Replaced(c, k, matches[c][last].raw)'
    BY <1>3, <2>1, <2>2, <2>4 DEF Replaced
  <2> QED
    BY <2>1, <2>5 DEF HandledOK, Replaced
<1>11. ASSUME NEW k \in Leaf, k \in Lands(l) PROVE RefKnown(clean[c][k], k)'
  <2>1. t[k] \in {content, Gone}
    BY <1>4, <1>11
  <2>2. CASE t[k] \in {Masked, Gone}
    BY <1>6, <2>2, MakeStrings DEF RefKnown
  <2>3. CASE t[k] \notin {Masked, Gone}
    <3>1. PICK j \in 1 .. Len(vault) : t[k] = Ref(j) /\ (port = "local" => t[k] \in tainted')
      BY <2>1, <2>3 DEF Replacement
    <3>2. t[k].id = j
      BY <3>1, MakeStrings
    <3>3. RefPlace(k)' /\ port' = port
      BY <1>2, <1>11, LandsAtPlace DEF Grown, RefPlace
    <3> QED
      BY <1>6, <3>1, <3>2, <3>3 DEF RefKnown
  <2> QED
    BY <2>2, <2>3
<1>12. ASSUME NEW k \in 1 .. Len(matches[c]), k < n + 1 PROVE Reachable(matches[c][k].leaf)
  <2>1. CASE k = n
    BY <1>2, <1>3, <2>1 DEF Advanced
  <2>2. CASE k # n
    BY <1>1, <1>2, <1>3, <1>12, <2>2 DEF CallOK, ReachedOK
  <2> QED
    BY <2>1, <2>2
<1> QED
  BY <1>2, <1>4, <1>6, <1>9, <1>10, <1>11, <1>12

(* A reference to the call's own entry is logged, or nothing is.           *)
LogsOwn(c, type, i) ==
  IF phase[c] = "written" THEN type = "secret_vaulted" /\ i = OwnEntry(c) ELSE type # "secret_vaulted"

(* Going on to the next match keeps the invariant.                         *)
LEMMA AdvancedKeeps ==
  ASSUME IInv, NEW c \in Calls, phase[c] \in {"replacing", "written"}, cursor[c] <= Len(matches[c]),
         NEW content \in Strings, NEW type \in EventTypes, NEW i \in Nat,
         Replacement(c, content), Advanced(c, content, type, i), LogsOwn(c, type, i),
         UNCHANGED <<port, config, state, matches, vault, flagged>>,
         tainted \subseteq tainted', tainted' \subseteq Strings \cup Values, EngineOK'
  PROVE  IInv'
<1>1. Grown
  BY QuietGrows
<1>2. /\ clean' \in [Calls -> States] /\ clean'[c] \in [Leaf -> Strings]
      /\ \A d \in Calls \ {c} : clean'[d] = clean[d]
      /\ \A k \in Leaf : HandledOK(c, k)' /\ RefKnown(clean[c][k], k)'
      /\ \A k \in 1 .. Len(matches[c]) : k < cursor[c] + 1 => Reachable(matches[c][k].leaf)
  BY <1>1, AdvancedHandled
<1>3. /\ CallOK(c) /\ cursor \in [Calls -> Nat \ {0}] /\ audit \subseteq Events
      /\ phase \in [Calls -> {"idle", "scanning", "replacing", "written", "done", "rejected"}]
      /\ state[c] \in [Leaf -> Strings] /\ matches[c] \in Seq(Finding)
  BY DEF IInv, Types, CallTypes, CallOK, PlaceOK
<1>4. /\ phase'[c] = "replacing" /\ \A d \in Calls \ {c} : phase'[d] = phase[d] /\ cursor'[d] = cursor[d]
      /\ phase' \in [Calls -> {"idle", "scanning", "replacing", "written", "done", "rejected"}]
      /\ cursor'[c] = cursor[c] + 1 /\ cursor' \in [Calls -> Nat \ {0}]
  BY <1>3 DEF Advanced
<1>5. /\ Event(c, type, i) \in Events /\ Event(c, type, i).type = type /\ Event(c, type, i).call = c
      /\ Event(c, type, i).id = i
  BY <1>3, EventIs
<1>6. audit' = audit \cup {Event(c, type, i)} /\ audit' \subseteq Events
  BY <1>3, <1>5 DEF Advanced
<1>7. OnlyCall(c)
  <2>1. \A j \in 1 .. Len(vault') : ~ (j > Len(vault))
    BY <1>1 DEF Grown
  <2> QED
    BY <1>2, <1>4, <2>1 DEF OnlyCall, SameStrings
<1>8. Types'
  BY <1>2, <1>4, <1>6 DEF IInv, Types, CallTypes
<1>9. CallOK(c)'
  <2>0. DOMAIN clean'[c] = Leaf /\ DOMAIN state[c] = Leaf
    BY <1>2, <1>3
  <2>1. PlaceOK(c)'
    <3>1. cursor[c] + 1 <= Len(matches[c]) + 1 /\ Len(matches[c]) \in Nat
      BY <1>3
    <3> QED
      BY <1>2, <1>3, <1>4, <2>0, <3>1 DEF PlaceOK
  <2>2. RefsOK(c)'
    <3>1. \A l \in Leaf : /\ RefKnown(state[c][l], l)
                          /\ state[c][l].kind = "ref" => vault[state[c][l].id].by # c
      BY <1>3, <2>0 DEF CallOK, RefsOK
    <3>2. \A l \in Leaf : RefKnown(state[c][l], l)'
      BY <1>1, <3>1, RefKnownStable DEF RefKnown, Grown, RefPlace
    <3> QED
      BY <1>2, <2>0, <3>1, <3>2 DEF RefsOK
  <2>3. MatchesOK(c)'
    <3>1. \A k \in 1 .. Len(matches[c]) : MatchOK(c, matches[c][k])'
      BY <1>3 DEF CallOK, MatchesOK, MatchOK, Found
    <3>2. Scanned(c)' = Leaf /\ Scanned(c) = Leaf
      BY <1>4 DEF Scanned
    <3>3. \A l \in Leaf : FoundAt(c, l)' = FoundAt(c, l) /\ (Marked(c, state[c][l])' <=> Marked(c, state[c][l]))
      BY DEF FoundAt, Marked
    <3>4. \A l \in Leaf : config'.addressing[l] # "unvisited" /\ Marked(c, state[c][l])' => FoundAt(c, l)' # {}
      BY <1>3, <3>2, <3>3 DEF CallOK, MatchesOK
    <3> QED
      BY <3>1, <3>2, <3>4 DEF MatchesOK, Marked
  <2>4. ReachedOK(c)'
    <3>1. \A l : Reachable(l)' <=> Reachable(l)
      BY LandsSame
    <3>2. ASSUME NEW k \in 1 .. Len(matches[c]), k < cursor[c] + 1 PROVE Reachable(matches[c][k].leaf)'
      <4>1. PICK l : l = matches[c][k].leaf
        OBVIOUS
      <4>2. Reachable(l)'
        BY <1>2, <3>1, <3>2, <4>1
      <4> QED
        BY <4>1, <4>2 DEF Reachable
    <3> QED
      BY <1>4, <3>2 DEF ReachedOK, Reachable
  <2> QED
    BY <1>2, <1>3, <1>4, <2>0, <2>1, <2>2, <2>3, <2>4 DEF CallOK, OwnOK
<1>10. EntriesOK'
  BY <1>1, <1>4, <1>7, QuietEntries
<1>11. AuditMatchesVault'
  <2>1. \A j \in 1 .. Len(vault') : ~ (j > Len(vault))
    BY <1>1 DEF Grown
  <2>2. OwnEntry(c)' = OwnEntry(c)
    BY DEF OwnEntry
  <2>3. CASE phase[c] = "written"
    <3>1. PICK j \in 1 .. Len(vault) : IsOwn(c, j)
      BY <1>3, <2>3 DEF CallOK, OwnOK
    <3>2. OwnEntry(c) = j
      BY <3>1, OwnEntryIs DEF IInv, Types
    <3>3. type = "secret_vaulted" /\ i = j /\ vault[j].by = c
      BY <2>3, <3>1, <3>2 DEF LogsOwn, IsOwn
    <3>4. Logged(c, OwnEntry(c))'
      BY <1>5, <1>6, <2>2, <3>2, <3>3 DEF Logged
    <3>5. \A e \in audit' \ audit : e.id \in 1 .. Len(vault') /\ vault'[e.id].by = e.call
      BY <1>5, <1>6, <3>1, <3>3
    <3> QED
      BY <1>1, <1>4, <1>6, <1>7, <1>8, <2>1, <2>2, <2>3, <3>4, <3>5, AuditStable DEF Logged
  <2>4. CASE phase[c] # "written"
    <3>1. type # "secret_vaulted"
      BY <2>4 DEF LogsOwn
    <3> QED
      BY <1>1, <1>4, <1>5, <1>6, <1>7, <1>8, <2>4, <3>1, QuietAudit
  <2> QED
    BY <2>3, <2>4
<1> QED
  BY <1>1, <1>7, <1>8, <1>9, <1>10, <1>11, StepAssembled

(* What is written where a path leads.                                     *)
LEMMA WrittenIs ==
  ASSUME NEW c \in Calls, NEW l \in Leaf, clean[c] \in [Leaf -> Strings], NEW content
  PROVE  \E t \in [Leaf -> Strings \cup {content}] :
           /\ Written(c, l, content) = [clean EXCEPT ![c] = t]
           /\ \A k \in Leaf : IF k \in Landing(l) THEN t[k] \in {content, Gone} ELSE t[k] = clean[c][k]
<1> DEFINE t == [m \in Leaf |->
                   IF m \notin Landing(l) THEN clean[c][m]
                   ELSE IF config.addressing[l] = "over" THEN Gone ELSE content]
<1>1. Written(c, l, content) = [clean EXCEPT ![c] = t]
  BY DEF Written
<1>2. t \in [Leaf -> Strings \cup {content}]
  BY MakeStrings
<1>3. \A k \in Leaf : IF k \in Landing(l) THEN t[k] \in {content, Gone} ELSE t[k] = clean[c][k]
  OBVIOUS
<1> HIDE DEF t
<1> QED
  BY <1>1, <1>2, <1>3

(* Both ways of replacing go on like this, or give up.                     *)
LEMMA ReplaceAdvances ==
  ASSUME IInv, NEW c \in Calls, phase[c] \in {"replacing", "written"}, cursor[c] <= Len(matches[c]),
         NEW content, NEW type, NEW i,
         \/ port = "local" /\ Replace(c, content, type, i)
         \/ port \in {"worker", "python"} /\ PortReplace(c, content, type, i)
  PROVE  Advanced(c, content, type, i) \/ (Reject(c) /\ UNCHANGED <<clean, audit, cursor>>)
<1>1. PICK l \in Leaf : l = Match(c).leaf
  BY MatchIs
<1>2. config.addressing[l] # "unvisited"
  BY <1>1, MatchIs DEF MatchOK
<1>3. config.addressing[l] \in {"exact", "dotted", "onto", "over", "blocked", "root"}
  BY <1>2, ConfigIs DEF IInv, Types
<1>4. clean \in [Calls -> States] /\ clean[c] \in [Leaf -> Strings]
  BY DEF IInv, Types, CallTypes, CallOK, PlaceOK
<1>5. CASE clean' = Written(c, l, content) /\ Proceed(c, type, i) /\ config.addressing[l] # "dotted"
           /\ (port = "local" \/ config.addressing[l] # "root")
  <2>1. Lands(l) = Landing(l)
    BY <1>5 DEF Lands
  <2>2. Reachable(l)
    BY <1>3, <1>5, <2>1 DEF Reachable, Landing, Unreachable
  <2>3. PICK t \in [Leaf -> Strings \cup {content}] :
          /\ clean' = [clean EXCEPT ![c] = t]
          /\ \A k \in Leaf : IF k \in Lands(l) THEN t[k] \in {content, Gone} ELSE t[k] = clean[c][k]
    BY <1>4, <1>5, <2>1, WrittenIs
  <2>4. /\ audit' = audit \cup {Event(c, type, i)} /\ cursor' = [cursor EXCEPT ![c] = @ + 1]
        /\ phase' = [phase EXCEPT ![c] = "replacing"]
    BY <1>5 DEF Proceed
  <2> QED
    BY <1>1, <2>2, <2>3, <2>4 DEF Advanced
<1>6. CASE port = "worker" /\ UNCHANGED clean /\ Proceed(c, type, i)
           /\ (config.addressing[l] \in {"dotted", "root"} \/ Stopped(c, l))
  <2>1. \A k \in Leaf : k \in Lands(l) => clean[c][k] = Gone
    BY <1>6 DEF Stopped, Lands, Landing
  <2>2. Reachable(l)
    BY <1>3, <1>6 DEF Reachable, Lands, Landing, Unreachable
  <2>3. PICK t \in [Leaf -> Strings] : t = clean[c]
    BY <1>4
  <2>4. clean' = [clean EXCEPT ![c] = t] /\ t \in [Leaf -> Strings \cup {content}]
    BY <1>4, <1>6, <2>3
  <2> QED
    BY <1>1, <1>6, <2>1, <2>2, <2>3, <2>4 DEF Advanced, Proceed
<1>7. CASE Reject(c) /\ UNCHANGED <<clean, audit, cursor>>
  BY <1>7
<1>8. CASE port = "local" /\ Replace(c, content, type, i)
  BY <1>1, <1>5, <1>7, <1>8 DEF Replace
<1>9. CASE port \in {"worker", "python"} /\ PortReplace(c, content, type, i)
  BY <1>1, <1>5, <1>6, <1>7, <1>9 DEF PortReplace
<1> QED
  BY <1>8, <1>9

(* So does replacing, whether it goes on or throws.                        *)
LEMMA ReplaceKeeps ==
  ASSUME IInv, NEW c \in Calls, phase[c] \in {"replacing", "written"}, cursor[c] <= Len(matches[c]),
         NEW content \in Strings, NEW type \in EventTypes, NEW i \in Nat,
         \/ port = "local" /\ Replace(c, content, type, i)
         \/ port \in {"worker", "python"} /\ PortReplace(c, content, type, i),
         Replacement(c, content), LogsOwn(c, type, i),
         UNCHANGED <<port, config, state, matches, vault, flagged>>,
         tainted \subseteq tainted', tainted' \subseteq Strings \cup Values, EngineOK'
  PROVE  IInv'
<1>1. CASE Advanced(c, content, type, i)
  BY <1>1, AdvancedKeeps
<1>2. CASE Reject(c) /\ UNCHANGED <<clean, audit, cursor>>
  BY <1>2, ThrowsKeeps
<1> QED
  BY <1>1, <1>2, ReplaceAdvances

(* Masking.                                                                *)
LEMMA MasksKeep ==
  ASSUME IInv, NEW c \in Calls,
         (port = "local" /\ Mask(c)) \/ (port \in {"worker", "python"} /\ PortMask(c)),
         UNCHANGED port
  PROVE  IInv'
<1>1. PICK type \in EventTypes :
        /\ type # "secret_vaulted"
        /\ \/ port = "local" /\ Replace(c, Masked, type, 0)
           \/ port \in {"worker", "python"} /\ PortReplace(c, Masked, type, 0)
  BY ConfigIs DEF Mask, PortMask, ToVault, EventTypes, IInv, Types
<1>2. /\ phase[c] = "replacing" /\ cursor[c] <= Len(matches[c])
      /\ UNCHANGED <<config, state, matches, vault, tainted, flagged>>
  BY DEF Mask, PortMask, Handling
<1>3. Masked \in Strings
  BY MakeStrings
<1>4. Replacement(c, Masked) /\ LogsOwn(c, type, 0)
  BY <1>1, <1>2 DEF Replacement, LogsOwn
<1>5. EngineOK' /\ tainted' \subseteq Strings \cup Values
  BY <1>2 DEF IInv, EngineOK, Types
<1> QED
  BY <1>1, <1>2, <1>3, <1>4, <1>5, ReplaceKeeps

(* Referring to the entry written: between the write and this step other   *)
(* calls may have written, but not this one.                               *)
LEMMA InsertRefsKeep ==
  ASSUME IInv, NEW c \in Calls,
         (port = "local" /\ InsertRef(c)) \/ (port \in {"worker", "python"} /\ PortInsertRef(c)),
         UNCHANGED port
  PROVE  IInv'
<1>1. /\ phase[c] = "written" /\ UNCHANGED <<config, state, matches, vault, flagged>>
      /\ cursor[c] <= Len(matches[c])
  BY DEF InsertRef, PortInsertRef, IInv, CallOK, PlaceOK
<1>2. PICK j \in 1 .. Len(vault) : IsOwn(c, j) /\ vault[j].value \in {Match(c).raw, Rotated(Match(c).raw)}
  BY <1>1 DEF IInv, CallOK, OwnOK
<1>3. vault \in Seq(Entries)
  BY DEF IInv, Types
<1>4. OwnEntry(c) = j /\ vault[j].by = c /\ j \in Nat \ {0} /\ vault[j].value \in Values
  <2>1. vault[j] \in Entries
    BY <1>2, <1>3
  <2>2. vault[j].value \in Values
    BY <2>1 DEF Entries
  <2>3. OwnEntry(c) = j
    BY <1>2, <1>3, OwnEntryIs
  <2> QED
    BY <1>2, <1>3, <2>2, <2>3 DEF IsOwn
<1>5. Ref(j) \in Strings /\ Ref(j) \notin {Masked, Gone}
  BY <1>4, MakeStrings
<1>6. /\ \/ port = "local" /\ Replace(c, Ref(j), "secret_vaulted", j)
         \/ port \in {"worker", "python"} /\ PortReplace(c, Ref(j), "secret_vaulted", j)
      /\ tainted' = IF port = "local" THEN tainted \cup {Ref(j), vault[j].value} ELSE tainted
  BY <1>4 DEF InsertRef, PortInsertRef
<1>7. port = "local" => vault[j].value \notin {Masked, Gone}
  <2> SUFFICES ASSUME port = "local" PROVE vault[j].value \notin {Masked, Gone}
    OBVIOUS
  <2>1. vault[j].value \in Found \cup {Rotated(f) : f \in Found}
    BY <1>2 DEF IInv, EntriesOK, EntryOK
  <2>2. \A f : Rotated(f) \notin {Masked, Gone}
    BY DEF Rotated, Masked, Gone
  <2>3. \A k : Hmac(k) \notin {Masked, Gone}
    BY DEF Hmac, Masked, Gone
  <2> QED
    BY <2>1, <2>2, <2>3, NamesAssumption DEF Found
<1>8. tainted \subseteq tainted' /\ tainted' \subseteq Strings \cup Values /\ EngineOK'
  BY <1>4, <1>5, <1>6, <1>7 DEF IInv, Types, EngineOK
<1>9. Replacement(c, Ref(j))
  BY <1>2, <1>4, <1>6 DEF Replacement
<1>10. LogsOwn(c, "secret_vaulted", j) /\ "secret_vaulted" \in EventTypes
  BY <1>1, <1>4 DEF LogsOwn, EventTypes
<1> QED
  BY <1>1, <1>4, <1>5, <1>6, <1>8, <1>9, <1>10, ReplaceKeeps

(* The write to the vault.                                                 *)
LEMMA WritesKeep ==
  ASSUME IInv, NEW c \in Calls, (port = "local" /\ VaultWrite(c)) \/ (port # "local" /\ PortWrite(c)),
         UNCHANGED port
  PROVE  IInv'
<1>1. PICK value \in {Match(c).raw, Rotated(Match(c).raw)} : vault' = Append(vault, Entry(c, value, Match(c).leaf))
  BY DEF VaultWrite, PortWrite, ToStore
<1>2. /\ Handling(c) /\ (port = "local" => Match(c).raw # Tainted)
      /\ phase' = [phase EXCEPT ![c] = "written"]
      /\ UNCHANGED <<port, config, state, cursor, matches, clean, tainted, audit, flagged>>
  BY DEF VaultWrite, PortWrite, Vaulting
<1> QED
  BY <1>1, <1>2, StoredKeeps

(* A failed write, a callback that throws, a state that cannot be cloned.  *)
LEMMA FailuresKeep ==
  ASSUME IInv, NEW c \in Calls,
         (port = "local" /\ VaultWriteFails(c)) \/ (port # "local" /\ PortWriteFails(c)) \/ Throws(c) \/ PortThrows(c),
         UNCHANGED port
  PROVE  IInv'
<1>1. CASE Throws(c) \/ PortThrows(c)
  <2>1. /\ Reject(c) /\ UNCHANGED <<config, state, cursor, matches, clean, vault, tainted, audit, flagged>>
    BY <1>1 DEF Throws, PortThrows
  <2>2. EngineOK' /\ tainted' \subseteq Strings \cup Values
    BY <2>1 DEF IInv, Types, EngineOK
  <2> QED
    BY <2>1, <2>2, ThrowsKeeps
<1>2. CASE (port = "local" /\ VaultWriteFails(c)) \/ (port # "local" /\ PortWriteFails(c))
  <2>1. /\ Reject(c) /\ Handling(c) /\ (port = "local" => Match(c).raw # Tainted)
        /\ UNCHANGED <<config, state, cursor, matches, clean, tainted, audit, flagged>>
        /\ vault' = vault \/ vault' = Append(vault, Entry(c, Match(c).raw, Match(c).leaf))
    BY <1>2 DEF VaultWriteFails, PortWriteFails, Vaulting
  <2>2. EngineOK' /\ tainted' \subseteq Strings \cup Values
    BY <2>1 DEF IInv, Types, EngineOK
  <2>3. CASE vault' = vault
    BY <2>1, <2>2, <2>3, ThrowsKeeps
  <2>4. CASE vault' = Append(vault, Entry(c, Match(c).raw, Match(c).leaf))
    BY <2>1, <2>4, StoredThenFailsKeeps
  <2> QED
    BY <2>1, <2>3, <2>4
<1> QED
  BY <1>1, <1>2

-------------------------------------------------------------------------------
(* The invariant is inductive.                                             *)

(* It holds when no call has begun.                                        *)
LEMMA InvInit ==
  ASSUME PortInit
  PROVE  IInv
<1>1. /\ port \in Ports /\ config \in Configs /\ vault = <<>> /\ tainted = {} /\ audit = {}
      /\ Len(vault) = 0 /\ vault \in Seq(Entries)
  BY DEF PortInit, Init
<1>2. ASSUME NEW c \in Calls
      PROVE  /\ state[c] = <<>> /\ phase[c] = "idle" /\ cursor[c] = 1 /\ matches[c] = <<>>
             /\ clean[c] = <<>> /\ flagged[c] = {} /\ matches[c] \in Seq(Finding)
             /\ Len(matches[c]) = 0 /\ DOMAIN clean[c] = {} /\ DOMAIN state[c] = {}
  BY DEF PortInit, Init
<1>3. Types
  <2>1. CallTypes
    BY DEF PortInit, Init, CallTypes, States
  <2>2. flagged \in [Calls -> SUBSET (Strings \cup Values)]
    BY DEF PortInit, Init
  <2> QED
    BY <1>1, <2>1, <2>2 DEF Types
<1>4. ASSUME NEW c \in Calls PROVE CallOK(c)
  <2>1. PlaceOK(c) /\ RefsOK(c) /\ OwnOK(c)
    BY <1>2 DEF PlaceOK, RefsOK, OwnOK
  <2>2. MatchesOK(c) /\ ReachedOK(c)
    BY <1>2 DEF MatchesOK, Scanned, ReachedOK
  <2> QED
    BY <1>1, <1>2, <2>1, <2>2 DEF CallOK
<1>5. EntriesOK /\ EngineOK /\ AuditMatchesVault
  BY <1>1 DEF EntriesOK, EngineOK, AuditMatchesVault
<1> QED
  BY <1>3, <1>4, <1>5 DEF IInv

(* It is about the state alone.                                            *)
LEMMA InvStutters ==
  ASSUME IInv, UNCHANGED portVars
  PROVE  IInv'
<1>1. UNCHANGED <<port, config, state, phase, cursor, matches, clean, vault, tainted, audit, flagged>>
  BY DEF portVars, vars
<1>2. Types'
  BY <1>1 DEF IInv, Types, CallTypes
<1>3. Grown
  BY <1>1, QuietGrows
<1>4. ASSUME NEW c \in Calls PROVE CallOK(c)'
  <2>1. \A i \in 1 .. Len(vault') : ~ (i > Len(vault))
    BY <1>3, <1>1 DEF Grown
  <2> QED
    BY <1>1, <1>3, <2>1, BystanderStable DEF IInv, SameStrings
<1>5. EntriesOK' /\ EngineOK' /\ AuditMatchesVault'
  BY <1>1 DEF IInv, EntriesOK, EntryOK, EngineOK, AuditMatchesVault, OwnEntry, Found
<1> QED
  BY <1>2, <1>4, <1>5 DEF IInv

(* Every step keeps it.                                                    *)
LEMMA InvNext ==
  ASSUME IInv, PortNext
  PROVE  IInv'
<1>1. port \in {"local", "worker", "python"}
  BY PortIs DEF IInv, Types
<1>2. CASE TagDerived /\ UNCHANGED port /\ port # "worker"
  BY <1>2, TagDerivedKeeps
<1>3. ASSUME NEW c \in Calls, port = "local", UNCHANGED port,
             \/ Begin(c) \/ ScanLeaf(c) \/ Clone(c) \/ End(c) \/ Mask(c) \/ Throws(c)
             \/ VaultWrite(c) \/ VaultWriteFails(c) \/ InsertRef(c)
             \/ \E l \in Leaf : CallerWrites(c, l)
      PROVE  IInv'
  BY <1>3, BeginKeeps, ScanLeafKeeps, CloneKeeps, EndKeeps, MasksKeep, FailuresKeep, WritesKeep,
     InsertRefsKeep, CallerWritesKeeps
<1>4. ASSUME NEW c \in Calls, port \in {"worker", "python"},
             \/ PortBegin(c) \/ PortScan(c) \/ PortMask(c) \/ PortThrows(c)
             \/ PortWrite(c) \/ PortWriteFails(c) \/ PortInsertRef(c)
             \/ End(c) /\ UNCHANGED port
      PROVE  IInv'
  <2>1. UNCHANGED port
    BY <1>4 DEF PortBegin, PortScan, PortMask, PortThrows, PortWrite, PortWriteFails, PortInsertRef
  <2>2. CASE PortBegin(c)
    BY <2>2, BeginKeeps DEF PortBegin
  <2> QED
    BY <1>4, <2>1, <2>2, PortScanKeeps, EndKeeps, MasksKeep, FailuresKeep, WritesKeep, InsertRefsKeep
<1> QED
  BY <1>1, <1>2, <1>3, <1>4 DEF PortNext, Next

(* So it always holds.                                                     *)
LEMMA InvHolds == PortSpec => []IInv
<1>1. PortInit => IInv
  BY InvInit
<1>2. IInv /\ [PortNext]_portVars => IInv'
  BY InvNext, InvStutters
<1> QED
  BY <1>1, <1>2, PTL DEF PortSpec

-------------------------------------------------------------------------------
(* What it implies.                                                        *)

(* Of a returned state: every match is handled, and a leaf that was marked *)
(* has one.                                                                *)
LEMMA DoneIs ==
  ASSUME IInv, NEW c \in Calls, phase[c] = "done"
  PROVE  /\ clean[c] \in [Leaf -> Strings] /\ state[c] \in [Leaf -> Strings]
         /\ \A k \in 1 .. Len(matches[c]) :
              /\ Reachable(matches[c][k].leaf)
              /\ \A l \in Lands(matches[c][k].leaf) : k \in Landed(c, l)
         /\ \A l \in Leaf :
              /\ HandledOK(c, l) /\ RefKnown(clean[c][l], l)
              /\ config.addressing[l] # "unvisited" /\ Marked(c, state[c][l]) => FoundAt(c, l) # {}
<1>1. /\ CallOK(c) /\ clean[c] \in [Leaf -> Strings] /\ state[c] \in [Leaf -> Strings]
      /\ cursor[c] = Len(matches[c]) + 1 /\ Len(matches[c]) \in Nat
  BY DEF IInv, Types, CallTypes, CallOK, PlaceOK
<1>2. \A l \in Leaf : HandledOK(c, l) /\ RefKnown(clean[c][l], l)
  BY <1>1 DEF CallOK, RefsOK
<1>3. \A k \in 1 .. Len(matches[c]) : k < cursor[c]
  BY <1>1
<1>4. \A k \in 1 .. Len(matches[c]) :
        Reachable(matches[c][k].leaf) /\ \A l \in Lands(matches[c][k].leaf) : k \in Landed(c, l)
  BY <1>1, <1>3 DEF CallOK, ReachedOK, Landed
<1>5. Scanned(c) = Leaf
  BY DEF Scanned
<1>6. \A l \in Leaf : config.addressing[l] # "unvisited" /\ Marked(c, state[c][l]) => FoundAt(c, l) # {}
  BY <1>1, <1>5 DEF CallOK, MatchesOK
<1> QED
  BY <1>1, <1>2, <1>4, <1>6

(* The leaf is what the last match that led to it made of it.              *)
LEMMA LastOfLanded ==
  ASSUME NEW c, NEW l, HandledOK(c, l), Landed(c, l) # {}
  PROVE  \E last \in Landed(c, l) :
           (\A k \in Landed(c, l) : k <= last) /\ Replaced(c, l, matches[c][last].raw)
BY DEF HandledOK

(* A replaced leaf is neither a text nor derived.                          *)
LEMMA ReplacedIs ==
  ASSUME NEW c, NEW l, NEW raw, Replaced(c, l, raw)
  PROVE  clean[c][l].kind \in {"masked", "gone", "ref"} /\ clean[c][l] # Derived
BY MakeStrings DEF Replaced

(* Something the scan matched is in a returned state only where replacing  *)
(* cannot reach it, in the local checkpoint, the worker's and Python's.    *)
THEOREM OnlyUnreachableSurviveHolds == PortSpec => []OnlyUnreachableSurvive
<1>1. ASSUME IInv PROVE OnlyUnreachableSurvive
  <2>1. SUFFICES ASSUME NEW c \in Calls, phase[c] = "done", NEW k \in DOMAIN matches[c],
                        NEW l, l = matches[c][k].leaf, clean[c][l] = state[c][l]
                 PROVE  config.addressing[l] \in Unreachable
    BY DEF OnlyUnreachableSurvive
  <2>2. matches[c] \in Seq(Finding) /\ CallOK(c) /\ port \in {"local", "worker", "python"}
    BY <1>1, PortIs DEF IInv, Types, CallTypes
  <2>3. k \in 1 .. Len(matches[c]) /\ matches[c][k] \in Finding
    BY <2>1, <2>2
  <2>4. l \in Leaf /\ Reachable(l) /\ (l \in Lands(l) => k \in Landed(c, l))
    BY <1>1, <2>1, <2>3, DoneIs DEF Finding
  <2>5. l \in Lands(l) => \E last \in Landed(c, l) : Replaced(c, l, matches[c][last].raw)
    BY <1>1, <2>1, <2>4, DoneIs, LastOfLanded
  <2>6. state[c][l] \notin {Masked, Gone}
    BY <2>1, <2>2, <2>3 DEF CallOK, MatchesOK, MatchOK
  <2>7. l \in DOMAIN state[c] /\ state[c][l] \in Strings
    BY <1>1, <2>1, <2>4, DoneIs
  <2>8. ASSUME NEW i \in 1 .. Len(vault), clean[c][l] = Ref(i), vault[i].by = c PROVE FALSE
    <3>1. state[c][l].kind = "ref" /\ state[c][l].id = i
      BY <2>1, <2>8, MakeStrings
    <3> QED
      BY <2>2, <2>7, <2>8, <3>1 DEF CallOK, RefsOK
  <2> QED
    BY <2>1, <2>4, <2>5, <2>6, <2>8 DEF Reachable, Replaced
<1>2. IInv => OnlyUnreachableSurvive
  BY <1>1
<1> QED
  BY <1>2, InvHolds, PTL

(* A reference resolves to the last secret whose path leads to its leaf.   *)
LEMMA RefsResolveFollows ==
  ASSUME IInv
  PROVE  RefsResolve
<1> SUFFICES ASSUME NEW c \in Calls, NEW l \in DOMAIN clean[c]
             PROVE  LET content == clean[c][l]
                        found == {k \in 1 .. Len(matches[c]) :
                                    l \in Landing(matches[c][k].leaf)
                                      /\ (phase[c] = "done" \/ k < cursor[c])} IN
                    content.kind = "ref" /\ found # {} =>
                      LET last == CHOOSE k \in found : \A m \in found : m <= k IN
                      /\ content.id \in 1 .. Len(vault)
                      /\ vault[content.id].by = c
                      /\ vault[content.id].value \in {matches[c][last].raw, Rotated(matches[c][last].raw)}
  BY DEF RefsResolve
<1> DEFINE Seen == {k \in 1 .. Len(matches[c]) :
                      l \in Landing(matches[c][k].leaf) /\ (phase[c] = "done" \/ k < cursor[c])}
           Latest == CHOOSE k \in Seen : \A m \in Seen : m <= k
<1>1. SUFFICES ASSUME clean[c][l].kind = "ref", Seen # {}
               PROVE  /\ clean[c][l].id \in 1 .. Len(vault)
                      /\ vault[clean[c][l].id].by = c
                      /\ vault[clean[c][l].id].value \in {matches[c][Latest].raw, Rotated(matches[c][Latest].raw)}
  OBVIOUS
<1>2. /\ CallOK(c) /\ l \in Leaf /\ HandledOK(c, l) /\ matches[c] \in Seq(Finding)
      /\ port \in {"local", "worker", "python"}
  <2>1. CallOK(c) /\ clean[c] \in States /\ matches[c] \in Seq(Finding) /\ port \in {"local", "worker", "python"}
    BY PortIs DEF IInv, Types, CallTypes
  <2> HIDE DEF Seen, Latest
  <2>2. l \in Leaf
    BY <1>1, <2>1 DEF States
  <2> QED
    BY <1>1, <2>1, <2>2 DEF CallOK
<1>3. Seen = Landed(c, l)
  <2>1. phase[c] = "done" => cursor[c] = Len(matches[c]) + 1 /\ Len(matches[c]) \in Nat
    BY <1>2 DEF CallOK, PlaceOK
  <2>2. phase[c] = "done" => \A k \in 1 .. Len(matches[c]) : k < cursor[c]
    BY <2>1
  <2>3. RefPlace(l)
    BY <1>1, <1>2 DEF CallOK, RefsOK, RefKnown
  <2>4. ASSUME NEW k \in 1 .. Len(matches[c])
        PROVE  l \in Landing(matches[c][k].leaf) <=> l \in Lands(matches[c][k].leaf)
    <3>1. PICK m : m = matches[c][k].leaf
      OBVIOUS
    <3>2. config.addressing[m] = "root" => Landing(m) = {m}
      BY DEF Landing
    <3> QED
      BY <2>3, <3>1, <3>2 DEF Lands, RefPlace
  <2> QED
    BY <2>2, <2>4 DEF Landed
<1>4. PICK last \in Landed(c, l) :
        (\A k \in Landed(c, l) : k <= last) /\ Replaced(c, l, matches[c][last].raw)
  BY <1>1, <1>2, <1>3, LastOfLanded
<1>5. Latest = last
  <2>1. \A k \in Landed(c, l) : k \in Nat
    BY DEF Landed
  <2>2. Latest \in Seen /\ \A m \in Seen : m <= Latest
    BY <1>3, <1>4
  <2> HIDE DEF Latest, Seen
  <2> QED
    BY <1>3, <1>4, <2>1, <2>2
<1>8. clean[c][l] \notin {Masked, Gone}
  BY <1>1, MakeStrings
<1>9. PICK i \in 1 .. Len(vault) :
        /\ clean[c][l] = Ref(i) /\ vault[i].by = c
        /\ vault[i].value \in {matches[c][last].raw, Rotated(matches[c][last].raw)}
  BY <1>4, <1>8 DEF Replaced
<1>10. clean[c][l].id = i
  BY <1>9, MakeStrings
<1> HIDE DEF Latest, Seen
<1> QED
  BY <1>5, <1>9, <1>10

(* Vault, audit log and returned states agree on which secret was put away *)
(* for whom, whatever other calls write and fail meanwhile.                *)
THEOREM RecordsAgreeHolds == PortSpec => []RecordsAgree
<1>1. IInv => RecordsAgree
  BY RefsResolveFollows DEF RecordsAgree, IInv
<1> QED
  BY <1>1, InvHolds, PTL

(* The taint engine knows every reference that a scan may meet again, and  *)
(* what it knew before a call is not in what the call returns.             *)
THEOREM TaintsHoldHolds == PortSpec => []TaintsHold
<1>1. ASSUME IInv PROVE LocalTypeOK
  <2>1. SUFFICES ASSUME port = "local" PROVE TypeOK
    BY DEF LocalTypeOK
  <2>2. phase \in [Calls -> {"idle", "scanning", "replacing", "written", "done", "rejected"}]
    BY <1>1 DEF IInv, Types, CallTypes
  <2>3. ASSUME NEW c \in Calls
        PROVE  /\ DOMAIN state[c] \in {{}, Leaf} /\ DOMAIN clean[c] \in {{}, Leaf}
               /\ \A k \in 1 .. Len(matches[c]) :
                    matches[c][k].leaf \in Leaf /\ matches[c][k].raw \in Found \cup {Tainted}
               /\ phase[c] \in {"replacing", "written"} => cursor[c] \in 1 .. Len(matches[c]) + 1
    <3>1. /\ CallOK(c) /\ state[c] \in States /\ clean[c] \in States /\ matches[c] \in Seq(Finding)
          /\ cursor[c] \in Nat \ {0}
      BY <1>1 DEF IInv, Types, CallTypes
    <3>2. DOMAIN <<>> = {}
      OBVIOUS
    <3>3. DOMAIN state[c] \in {{}, Leaf} /\ DOMAIN clean[c] \in {{}, Leaf}
      BY <3>1, <3>2 DEF States
    <3>4. ASSUME NEW k \in 1 .. Len(matches[c])
          PROVE  matches[c][k].leaf \in Leaf /\ matches[c][k].raw \in Found \cup {Tainted}
      <4>1. matches[c][k] \in Finding
        BY <3>1
      <4>2. MatchOK(c, matches[c][k])
        BY <3>1 DEF CallOK, MatchesOK
      <4> QED
        BY <2>1, <4>1, <4>2 DEF Finding, MatchOK
    <3>5. phase[c] \in {"replacing", "written"} => cursor[c] \in 1 .. Len(matches[c]) + 1
      BY <3>1 DEF CallOK, PlaceOK
    <3> QED
      BY <3>3, <3>4, <3>5
  <2>4. ASSUME NEW i \in 1 .. Len(vault)
        PROVE  /\ vault[i].by \in Calls /\ vault[i].leaf \in Leaf
               /\ vault[i].value \in Found \cup {Rotated(f) : f \in Found}
    <3>1. vault \in Seq(Entries)
      BY <1>1 DEF IInv, Types
    <3>2. vault[i] \in Entries
      BY <3>1
    <3>3. vault[i].value \in Found \cup {Rotated(f) : f \in Found}
      BY <1>1, <2>1 DEF IInv, EntriesOK, EntryOK
    <3> QED
      BY <3>2, <3>3 DEF Entries
  <2> QED
    BY <2>2, <2>3, <2>4 DEF TypeOK
<1>2. ASSUME IInv PROVE LocalRefsTainted
  BY <1>2 DEF LocalRefsTainted, RefsTainted, IInv, CallOK, RefsOK, RefKnown
<1>3. ASSUME IInv PROVE TaintedRedacted
  <2>1. SUFFICES ASSUME NEW c \in Calls, phase[c] = "done", NEW l \in DOMAIN clean[c],
                        clean[c][l] = Derived,
                        config.addressing[l] \notin {"onto", "over", "blocked", "unvisited"},
                        Derived \in flagged[c]
                 PROVE  FALSE
    BY DEF TaintedRedacted
  <2>2. l \in Leaf /\ HandledOK(c, l) /\ (Marked(c, state[c][l]) => FoundAt(c, l) # {})
    BY <1>3, <2>1, DoneIs
  <2>3. port # "worker"
    BY <1>3, <2>1 DEF IInv, CallOK, EngineOK
  <2>4. config.addressing[l] \notin Unreachable
    BY <2>1, <2>3 DEF Unreachable
  <2>5. Landed(c, l) = {}
    <3>1. ~ \E raw : Replaced(c, l, raw)
      BY <2>1, ReplacedIs
    <3> QED
      BY <2>2, <3>1, LastOfLanded
  <2>6. PICK k \in FoundAt(c, l) : TRUE
    BY <2>1, <2>2, <2>5 DEF HandledOK, Marked
  <2>7. k \in 1 .. Len(matches[c]) /\ matches[c][k].leaf = l
    BY <2>6 DEF FoundAt
  <2>8. Reachable(l) /\ (l \in Lands(l) => k \in Landed(c, l))
    BY <1>3, <2>1, <2>7, DoneIs
  <2> QED
    BY <2>4, <2>5, <2>8 DEF Reachable
<1>4. IInv => TaintsHold
  BY <1>1, <1>2, <1>3 DEF TaintsHold
<1> QED
  BY <1>4, InvHolds, PTL

-------------------------------------------------------------------------------
(* The contract.                                                           *)

(* The phases of a call that has answered.                                 *)
Answered == {"done", "rejected"}

Deposits == \E e : vault' = Append(vault, e)

(* What a step of a call is to those who only see answers and the vault.   *)
Answers(c) ==
  /\ phase[c] \notin Answered
  /\ \A d \in Calls \ {c} : phase'[d] = phase[d] /\ clean'[d] = clean[d]
  /\ \/ phase'[c] \notin Answered /\ (vault' = vault \/ Deposits)
     \/ phase'[c] = "rejected" /\ (vault' = vault \/ Deposits)
     \/ phase'[c] = "done" /\ End(c) /\ vault' = vault

(* The steps that replace nothing.                                         *)
LEMMA SeenFromOutside ==
  ASSUME IInv, NEW c \in Calls,
         \/ Begin(c) \/ Clone(c) \/ PortScan(c) \/ ScanLeaf(c) \/ End(c) \/ Throws(c) \/ PortThrows(c)
         \/ VaultWrite(c) \/ PortWrite(c) \/ VaultWriteFails(c) \/ PortWriteFails(c)
         \/ \E l \in Leaf : CallerWrites(c, l)
  PROVE  Answers(c)
<1>0. /\ phase \in [Calls -> {"idle", "scanning", "replacing", "written", "done", "rejected"}]
      /\ clean \in [Calls -> States]
  BY DEF IInv, Types, CallTypes
<1>1. CASE Begin(c) \/ Clone(c) \/ PortScan(c) \/ ScanLeaf(c) \/ \E l \in Leaf : CallerWrites(c, l)
  BY <1>0, <1>1 DEF Begin, Clone, PortScan, ScanLeaf, CallerWrites, Answers, Answered
<1>2. CASE End(c)
  <2>1. /\ phase[c] = "replacing" /\ phase' = [phase EXCEPT ![c] = "done"] /\ clean' = clean /\ vault' = vault
    BY <1>2 DEF End
  <2> QED
    BY <1>0, <1>2, <2>1 DEF Answers, Answered
<1>3. CASE Throws(c) \/ PortThrows(c)
  BY <1>0, <1>3 DEF Throws, PortThrows, Reject, Handling, Answers, Answered
<1>4. CASE VaultWrite(c) \/ PortWrite(c)
  <2>1. Deposits
    BY <1>4 DEF VaultWrite, PortWrite, Deposits
  <2> QED
    BY <1>0, <1>4, <2>1 DEF VaultWrite, PortWrite, Vaulting, Handling, Answers, Answered
<1>5. CASE VaultWriteFails(c) \/ PortWriteFails(c)
  <2>1. vault' = vault \/ Deposits
    BY <1>5 DEF VaultWriteFails, PortWriteFails, Deposits
  <2> QED
    BY <1>0, <1>5, <2>1 DEF VaultWriteFails, PortWriteFails, Vaulting, Handling, Reject, Answers, Answered
<1> QED
  BY <1>1, <1>2, <1>3, <1>4, <1>5

(* The steps that replace.                                                 *)
LEMMA ReplacingSeen ==
  ASSUME IInv, NEW c \in Calls,
         \/ port = "local" /\ (Mask(c) \/ InsertRef(c))
         \/ port \in {"worker", "python"} /\ (PortMask(c) \/ PortInsertRef(c))
  PROVE  Answers(c)
<1>0. /\ phase \in [Calls -> {"idle", "scanning", "replacing", "written", "done", "rejected"}]
      /\ clean \in [Calls -> States]
  BY DEF IInv, Types, CallTypes
<1>1. phase[c] \in {"replacing", "written"} /\ cursor[c] <= Len(matches[c]) /\ vault' = vault
  BY DEF Mask, PortMask, InsertRef, PortInsertRef, Handling, IInv, CallOK, PlaceOK
<1>2. \E content, type, i :
        \/ port = "local" /\ Replace(c, content, type, i)
        \/ port \in {"worker", "python"} /\ PortReplace(c, content, type, i)
  BY DEF Mask, PortMask, InsertRef, PortInsertRef
<1>3. (\E content, type, i : Advanced(c, content, type, i)) \/ (Reject(c) /\ clean' = clean)
  BY <1>1, <1>2, ReplaceAdvances
<1>4. CASE Reject(c) /\ clean' = clean
  BY <1>0, <1>1, <1>4 DEF Reject, Answers, Answered
<1>5. ASSUME NEW content, NEW type, NEW i, Advanced(c, content, type, i)
      PROVE  Answers(c)
  <2>1. phase' = [phase EXCEPT ![c] = "replacing"] /\ \A d \in Calls \ {c} : clean'[d] = clean[d]
    BY <1>0, <1>5 DEF Advanced
  <2> QED
    BY <1>0, <1>1, <2>1 DEF Answers, Answered
<1> QED
  BY <1>3, <1>4, <1>5

(* A call's answer by its phase.                                           *)
LEMMA AnswerIs ==
  ASSUME NEW c \in Calls
  PROVE  /\ phase[c] = "done" => Answer[c] = clean[c]
         /\ phase[c] = "rejected" => Answer[c] = Rejected
         /\ phase[c] \notin Answered => Answer[c] = None
BY DEF Answer, Answered

(* A returned state is safe: this is why every marked leaf must be handled.*)
LEMMA ReturnedIsSafe ==
  ASSUME IInv, NEW c \in Calls, End(c), Covered
  PROVE  clean[c] \in [Leaf -> Strings] /\ PortContract!Safe(clean[c], vault)
<1>1. /\ CallOK(c) /\ clean[c] \in [Leaf -> Strings] /\ state[c] \in [Leaf -> Strings]
      /\ cursor[c] = Len(matches[c]) + 1 /\ Len(matches[c]) \in Nat /\ Scanned(c) = Leaf
  <2>1. CallOK(c) /\ matches[c] \in Seq(Finding) /\ cursor[c] \in Nat \ {0} /\ phase[c] = "replacing"
        /\ cursor[c] > Len(matches[c])
    BY DEF IInv, Types, CallTypes, End
  <2>2. Len(matches[c]) \in Nat
    BY <2>1
  <2> QED
    BY <2>1, <2>2 DEF CallOK, PlaceOK, Scanned
<1>2. ASSUME NEW l \in Leaf
      PROVE  /\ clean[c][l].kind = "text" => clean[c][l].found = <<>>
             /\ clean[c][l].kind = "ref" => clean[c][l].id \in 1 .. Len(vault)
  <2>1. HandledOK(c, l) /\ RefKnown(clean[c][l], l)
    BY <1>1 DEF CallOK, RefsOK
  <2>2. ASSUME clean[c][l].kind = "text", clean[c][l].found # <<>> PROVE FALSE
    <3>1. ~ \E raw : Replaced(c, l, raw)
      BY <2>2, ReplacedIs
    <3>2. Landed(c, l) = {}
      BY <2>1, <3>1, LastOfLanded
    <3>3. state[c][l] = clean[c][l]
      BY <2>1, <3>2 DEF HandledOK
    <3>4. PICK k \in 1 .. Len(matches[c]) : matches[c][k].leaf = l
      BY <1>1, <2>2, <3>3 DEF CallOK, MatchesOK, Marked, Covered, FoundAt
    <3>5. k < cursor[c]
      BY <1>1
    <3>6. Reachable(l)
      BY <1>1, <3>4, <3>5 DEF CallOK, ReachedOK, End
    <3> QED
      BY <3>2, <3>4, <3>5, <3>6 DEF Landed, Reachable, Covered
  <2> QED
    BY <2>1, <2>2 DEF RefKnown
<1> QED
  BY <1>1, <1>2 DEF PortContract!Safe

(* An appended entry is a deposit.                                         *)
LEMMA DepositSeen ==
  ASSUME vault \in Seq(Entries), Deposits, vault' \in Seq(Entries)
  PROVE  PortContract!Deposit
<1>1. PICK e : vault' = Append(vault, e)
  BY DEF Deposits
<1>2. Len(vault') = Len(vault) + 1 /\ \A i \in 1 .. Len(vault) : vault'[i] = vault[i]
  BY <1>1
<1>3. SubSeq(vault', 1, Len(vault)) = vault
  <2>1. PICK v \in Seq(Entries), w \in Seq(Entries) : v = vault /\ w = vault'
    OBVIOUS
  <2>2. SubSeq(w, 1, Len(v)) = v
    BY <1>2, <2>1
  <2> QED
    BY <2>1, <2>2
<1> QED
  BY <1>2, <1>3 DEF PortContract!Deposit

(* Every step of a call is one of the contract, or nothing to it.          *)
LEMMA AnswersKeepContract ==
  ASSUME IInv, IInv', NEW c \in Calls, Answers(c), UNCHANGED <<port, config>>
  PROVE  PortContract!Next \/ UNCHANGED PortContract!vars
<1>0. vault \in Seq(Entries) /\ vault' \in Seq(Entries)
  BY DEF IInv, Types
<1>1. vault' = vault \/ PortContract!Deposit
  BY <1>0, DepositSeen DEF Answers
<1>2. Covered' = Covered
  BY DEF Covered, Unreachable
<1>3. CASE ~ Covered
  <2>1. PortAnswer' = PortAnswer
    BY <1>2, <1>3 DEF PortAnswer
  <2> QED
    BY <1>1, <2>1 DEF PortContract!Next, PortContract!vars
<1>4. CASE Covered
  <2>1. PortAnswer = Answer /\ PortAnswer' = Answer'
    BY <1>2, <1>4 DEF PortAnswer
  <2>2. \A d \in Calls \ {c} : Answer'[d] = Answer[d]
    BY DEF Answer, Answers
  <2>3. Answer[c] = None
    BY AnswerIs DEF Answers
  <2>4. Answer = [d \in Calls |-> Answer[d]] /\ Answer' = [d \in Calls |-> Answer'[d]]
    BY DEF Answer
  <2>5. Answer' = [Answer EXCEPT ![c] = Answer'[c]]
    BY <2>2, <2>4
  <2>6. CASE phase'[c] \notin Answered
    <3>1. Answer'[c] = None
      BY <2>6 DEF Answer, Answered
    <3>2. Answer' = Answer
      BY <2>2, <2>3, <2>4, <3>1
    <3> QED
      BY <1>1, <2>1, <3>2 DEF PortContract!Next, PortContract!vars
  <2>7. CASE phase'[c] = "rejected"
    <3>1. Answer'[c] = Rejected
      BY <2>7 DEF Answer
    <3>2. PortContract!Reject(c)
      BY <1>1, <2>1, <2>3, <2>5, <3>1 DEF PortContract!Reject
    <3> QED
      BY <3>2 DEF PortContract!Next
  <2>8. CASE phase'[c] = "done"
    <3>1. End(c) /\ vault' = vault /\ clean' = clean
      BY <2>8 DEF Answers, Answered, End
    <3>2. Answer'[c] = clean[c]
      BY <2>8, <3>1 DEF Answer
    <3>3. clean[c] \in [Leaf -> Strings] /\ PortContract!Safe(clean[c], vault)
      BY <1>4, <3>1, ReturnedIsSafe
    <3>4. clean[c] \notin {None, Rejected}
      BY <3>3, NamesAssumption
    <3>5. PortContract!Return(c)
      BY <2>1, <2>3, <2>5, <3>1, <3>2, <3>3, <3>4 DEF PortContract!Return
    <3> QED
      BY <3>5 DEF PortContract!Next
  <2> QED
    BY <2>6, <2>7, <2>8 DEF Answers
<1> QED
  BY <1>3, <1>4

(* The three checkpoints keep CheckpointContract: a returned state holds   *)
(* no secret the patterns know in what was passed in and no reference that *)
(* is not in the vault, an answer is given once, and the vault forgets     *)
(* nothing, whichever writes fail and however the calls interleave.        *)
THEOREM PortsKeepContractHolds == PortSpec => PortsKeepContract
<1>1. PortInit => PortContract!Init
  <2> SUFFICES ASSUME PortInit PROVE PortContract!Init
    OBVIOUS
  <2>1. Answer = [c \in Calls |-> None] /\ vault = <<>>
    BY DEF PortInit, Init, Answer
  <2> QED
    BY <2>1 DEF PortContract!Init, PortAnswer
<1>2. IInv /\ IInv' /\ [PortNext]_portVars => [PortContract!Next]_(PortContract!vars)
  <2> SUFFICES ASSUME IInv, IInv', [PortNext]_portVars
               PROVE  PortContract!Next \/ UNCHANGED PortContract!vars
    OBVIOUS
  <2>1. port \in {"local", "worker", "python"}
    BY PortIs DEF IInv, Types
  <2>2. CASE UNCHANGED portVars \/ (TagDerived /\ UNCHANGED port)
    <3>1. UNCHANGED <<port, config, phase, clean, vault>>
      BY <2>2 DEF portVars, vars, TagDerived
    <3>2. PortAnswer' = PortAnswer
      BY <3>1 DEF PortAnswer, Covered, Unreachable, Answer
    <3> QED
      BY <3>1, <3>2 DEF PortContract!vars
  <2>3. ASSUME NEW c \in Calls, port = "local", UNCHANGED port,
               \/ Begin(c) \/ ScanLeaf(c) \/ Clone(c) \/ End(c) \/ Mask(c) \/ Throws(c)
               \/ VaultWrite(c) \/ VaultWriteFails(c) \/ InsertRef(c)
               \/ \E l \in Leaf : CallerWrites(c, l)
        PROVE  PortContract!Next \/ UNCHANGED PortContract!vars
    <3>1. Answers(c)
      BY <2>3, SeenFromOutside, ReplacingSeen
    <3>2. config' = config
      BY <2>3 DEF Begin, ScanLeaf, Clone, End, Mask, Throws, VaultWrite, VaultWriteFails, InsertRef, CallerWrites
    <3> QED
      BY <2>3, <3>1, <3>2, AnswersKeepContract
  <2>4. ASSUME NEW c \in Calls, port \in {"worker", "python"},
               \/ PortBegin(c) \/ PortScan(c) \/ PortMask(c) \/ PortThrows(c)
               \/ PortWrite(c) \/ PortWriteFails(c) \/ PortInsertRef(c)
               \/ End(c) /\ UNCHANGED port
        PROVE  PortContract!Next \/ UNCHANGED PortContract!vars
    <3>1. Answers(c)
      BY <2>4, SeenFromOutside, ReplacingSeen DEF PortBegin
    <3>2. UNCHANGED <<port, config>>
      BY <2>4 DEF PortBegin, Begin, PortScan, PortMask, PortThrows, PortWrite, PortWriteFails, PortInsertRef, End
    <3> QED
      BY <3>1, <3>2, AnswersKeepContract
  <2> QED
    BY <2>1, <2>2, <2>3, <2>4 DEF PortNext, Next
<1>3. PortContract!Spec <=> PortContract!Init /\ [][PortContract!Next]_(PortContract!vars)
  BY DEF PortContract!Spec
<1> QED
  BY <1>1, <1>2, <1>3, InvHolds, PTL DEF PortSpec, PortsKeepContract

===============================================================================
