---------------------------- MODULE PatternRegistry ----------------------------
(***************************************************************************)
(* PatternRegistry (patterns/src/registry.ts): a list of patterns and a    *)
(* trie of the names of the severe ones.  The constructor keeps the array  *)
(* it is given; register and an update write into that array, unregister   *)
(* leaves it for a new one.  Updates are loaded over the network, from a   *)
(* timer that does not wait for the previous one, and are not validated:   *)
(* an element without a name, or null, throws where it is first used.      *)
(***************************************************************************)
EXTENDS Naturals, Sequences, FiniteSets, SequencesExt

CONSTANTS
  Registries,
  Patterns,       (* records [name, severe]                                 *)
  Keyword,        (* a name with its underscores replaced by blanks         *)
  Null, NoName,   (* null, and the name of an element that has none         *)
  BuiltIns,       (* builtInPatterns                                        *)
  HostLists,      (* the arrays a host may pass to constructors             *)
  Remotes,        (* the lists a URL may answer                             *)
  MaxRegistryOps  (* bound on the registrations, removals and loads         *)

Nameless == {[name |-> NoName, severe |-> s] : s \in BOOLEAN}

(* What a list may come to hold.                                           *)
Elements == Patterns \cup Nameless \cup {Null}

(* The built-in names are all different; a host passes typed patterns.     *)
ASSUME RegistryAssumption ==
  /\ IsFiniteSet(Registries)
  /\ \A p \in Patterns : p.name \in DOMAIN Keyword /\ p.severe \in BOOLEAN
  /\ BuiltIns \in Seq(Patterns)
  /\ \A i, j \in DOMAIN BuiltIns : BuiltIns[i].name = BuiltIns[j].name => i = j
  /\ NoName \notin DOMAIN Keyword /\ Null \notin Patterns \cup Nameless
  /\ HostLists \subseteq Seq(Patterns)
  /\ Remotes \subseteq Seq(Elements)
  /\ MaxRegistryOps \in Nat

VARIABLES
  given,       (* the array the host passes to constructors                 *)
  own,         (* [Registries -> an array only that registry holds]         *)
  holdsGiven,  (* the registries whose patterns is the host's array         *)
  trie,        (* [Registries -> the keywords its trie was built from]      *)
  loads,       (* [Registries -> bag of answers on their way, as a function *)
               (* from Remotes to their number]                             *)
  timers,      (* registries with live updates                              *)
  registryOps,
  outdated,    (* history: registries behind whose back the array changed   *)
  halted,      (* history: registries whose last change threw half-way      *)
  pushed       (* history: how often each name was handed to register, or   *)
               (* stood in the host's array again                           *)

registries ==
  <<given, own, holdsGiven, trie, loads, timers, registryOps, outdated, halted, pushed>>

PatternsOf(r) == IF r \in holdsGiven THEN given ELSE own[r]

Names == {p.name : p \in Patterns} \cup {NoName}

NameIn(list, name) == {i \in DOMAIN list : list[i] # Null /\ list[i].name = name}

HasNull(list) == \E i \in DOMAIN list : list[i] = Null

(* patterns.filter, of a list without null.                                *)
Without(list, name) ==
  FoldLeft(LAMBDA rest, p : IF p.name = name THEN rest ELSE Append(rest, p), <<>>, list)

(* buildTrie reads the severity of every element and the name of each      *)
(* severe one, or throws; only its keywords matter here.                   *)
Builds(list) ==
  \A i \in DOMAIN list : list[i] # Null /\ (list[i].severe => list[i].name # NoName)

Keywords(list) ==
  LET severe == SelectSeq(list, LAMBDA p : p.severe)
  IN [i \in DOMAIN severe |-> Keyword[severe[i].name]]

(* The constructor, with the host's array or a copy of the built-in list.  *)
RegistryInit ==
  /\ given \in HostLists
  /\ own = [r \in Registries |-> BuiltIns]
  /\ holdsGiven \in SUBSET Registries
  /\ trie = [r \in Registries |-> Keywords(PatternsOf(r))]
  /\ loads = [r \in Registries |-> [remote \in Remotes |-> 0]]
  /\ timers \in SUBSET Registries
  /\ registryOps = 0
  /\ outdated = {} /\ halted = {}
  /\ pushed = [name \in Names |->
                 LET copies == Cardinality(NameIn(given, name))
                 IN IF copies = 0 THEN 0 ELSE copies - 1]

-------------------------------------------------------------------------------
RegistryOp == registryOps < MaxRegistryOps /\ registryOps' = registryOps + 1

(* r builds its trie of list, unless it, or what came before it, threw.    *)
Rebuild(r, list, thrown) ==
  IF ~ thrown /\ Builds(list)
    THEN /\ trie' = [trie EXCEPT ![r] = Keywords(list)]
         /\ halted' = halted \ {r}
    ELSE /\ halted' = IF list = PatternsOf(r) THEN halted ELSE halted \cup {r}
         /\ UNCHANGED trie

(* The registries outdated once r has rebuilt its trie, if it could.       *)
Behind(r, list, thrown, written) ==
  IF ~ thrown /\ Builds(list) THEN written \ {r} ELSE written

(* The array r holds becomes list, for whoever else holds it, and r builds *)
(* its trie again.                                                         *)
Rewrite(r, list, thrown) ==
  /\ IF r \in holdsGiven
       THEN given' = list /\ UNCHANGED own
       ELSE own' = [own EXCEPT ![r] = list] /\ UNCHANGED given
  /\ outdated' = Behind(r, list, thrown,
                   IF r \in holdsGiven THEN outdated \cup (holdsGiven \ {r}) ELSE outdated)
  /\ Rebuild(r, list, thrown)
  /\ UNCHANGED holdsGiven

Register(r, p) ==
  /\ RegistryOp
  /\ Rewrite(r, Append(PatternsOf(r), p), FALSE)
  /\ pushed' = [pushed EXCEPT ![p.name] = @ + 1]
  /\ UNCHANGED <<loads, timers>>

(* A plausible bug: the trie keeps the name that was removed.              *)
Unregister_Unbuilt(r, name) ==
  /\ RegistryOp
  /\ ~ HasNull(PatternsOf(r))
  /\ own' = [own EXCEPT ![r] = Without(PatternsOf(r), name)]
  /\ holdsGiven' = holdsGiven \ {r}
  /\ outdated' = outdated \ {r}
  /\ UNCHANGED <<given, trie, loads, timers, halted, pushed>>

(* The filter throws at null before anything is assigned.                  *)
Unregister(r, name) ==
  /\ RegistryOp
  /\ IF HasNull(PatternsOf(r))
       THEN UNCHANGED <<own, holdsGiven, trie, outdated, halted>>
       ELSE LET rest == Without(PatternsOf(r), name)
            IN /\ own' = [own EXCEPT ![r] = rest]
               /\ holdsGiven' = holdsGiven \ {r}
               /\ outdated' = Behind(r, rest, FALSE, outdated)
               /\ Rebuild(r, rest, FALSE)
  /\ UNCHANGED <<given, loads, timers, pushed>>

(* loadFromUrl up to its awaits, called by the host or by the timer.       *)
Fetch(r) ==
  /\ RegistryOp
  /\ \E remote \in Remotes : loads' = [loads EXCEPT ![r][remote] = @ + 1]
  /\ UNCHANGED <<given, own, holdsGiven, trie, timers, outdated, halted, pushed>>

LiveUpdate(r) == r \in timers /\ Fetch(r)

(* findIndex reads the name of each element up to the match, and that of   *)
(* the new one, only if there is one to compare it with.                   *)
Throws(list, p) ==
  /\ list # <<>>
  /\ \/ p = Null
     \/ \E i \in DOMAIN list : list[i] = Null /\ \A k \in NameIn(list, p.name) : i < k

(* The first pattern of that name is replaced, or the pattern is appended. *)
Merge(list, p) ==
  LET same == NameIn(list, p.name)
  IN  IF list = <<>> \/ same = {} THEN Append(list, p)
      ELSE [list EXCEPT ![CHOOSE i \in same : \A k \in same : i <= k] = p]

(* One turn of the loop; what was replaced before one throws stays so.     *)
Turn(loop, p) ==
  LET stops == loop.thrown \/ Throws(loop.list, p)
  IN  [list |-> IF stops THEN loop.list ELSE Merge(loop.list, p), thrown |-> stops]

Merged(list, remote) == FoldLeft(Turn, [list |-> list, thrown |-> FALSE], remote)

Answered(r, remote) == loads[r][remote] > 0 /\ loads' = [loads EXCEPT ![r][remote] = @ - 1]

(* The answers come in any order, and after stopLiveUpdates too.           *)
Loaded(r) ==
  \E remote \in Remotes :
    /\ Answered(r, remote)
    /\ LET loop == Merged(PatternsOf(r), remote) IN Rewrite(r, loop.list, loop.thrown)
    /\ UNCHANGED <<timers, registryOps, pushed>>

(* Not ok, no JSON, no array or no answer: the caller's error, the timer's *)
(* silence.                                                                *)
LoadFails(r) ==
  \E remote \in Remotes :
    /\ Answered(r, remote)
    /\ UNCHANGED <<given, own, holdsGiven, trie, timers, registryOps, outdated, halted, pushed>>

StopLiveUpdates(r) ==
  /\ r \in timers
  /\ timers' = timers \ {r}
  /\ UNCHANGED <<given, own, holdsGiven, trie, loads, registryOps, outdated, halted, pushed>>

RegistryNext ==
  \E r \in Registries :
    \/ \E p \in Patterns : Register(r, p) \/ Unregister(r, p.name)
    \/ Fetch(r) \/ LiveUpdate(r) \/ Loaded(r) \/ LoadFails(r) \/ StopLiveUpdates(r)

-------------------------------------------------------------------------------
(* getTrie agrees with getPatterns after any sequence of registrations,    *)
(* removals and updates that answer out of order, malformed ones included, *)
(* except in a registry whose array another one has written to since, or   *)
(* whose own last change threw half-way (registry.ts:15,53-62).            *)
TrieCurrent ==
  \A r \in Registries \ (outdated \cup halted) :
    Builds(PatternsOf(r)) /\ trie[r] = Keywords(PatternsOf(r))

(* Live updates do not pile up: however many answers arrive, whatever was  *)
(* removed meanwhile and wherever one threw, a name is in a list at most   *)
(* once, plus once for each time it was handed to register or stood again  *)
(* in the host's array (registry.ts:54-61).                                *)
UpdatesReplace ==
  \A r \in Registries, name \in Names :
    Cardinality(NameIn(PatternsOf(r), name)) <= 1 + pushed[name]

(* List and trie are current, whatever order registrations and updates     *)
(* come in.                                                                *)
RegistryCurrent == TrieCurrent /\ UpdatesReplace

===============================================================================
