------------------------------ MODULE AhoCorasick ------------------------------
(***************************************************************************)
(* AhoCorasick (patterns/src/ahocorasick.ts): a trie of keywords whose     *)
(* failure links are built breadth first, and a search that reads a text   *)
(* once.  A node is the sequence of characters that leads to it.           *)
(*                                                                         *)
(* Keywords are split into code points but a text is read by UTF-16 units: *)
(* a character of Astral, two units long, is an edge no text can take.     *)
(***************************************************************************)
EXTENDS Integers, Sequences, FiniteSets, SequencesExt

CONSTANTS
  Units,         (* what text[i] may be                                     *)
  Astral,        (* characters of two units                                 *)
  Dictionaries,  (* the keywords a trie may be built from                   *)
  MaxText,       (* bound on the length of a text                           *)
  NoNode         (* null                                                    *)

ASSUME AhoCorasickAssumption ==
  /\ Units \cap Astral = {}
  /\ Dictionaries \subseteq Seq(Seq(Units \cup Astral))
  /\ NoNode \notin Seq(Units \cup Astral)
  /\ MaxText \in Nat

VARIABLES
  keywords,
  fail,        (* [nodes -> node or NoNode]                                 *)
  output,      (* [nodes -> the keywords reported there]                    *)
  unlinked,    (* the queue of buildFailureLinks                            *)
  text,        (* what search has read                                      *)
  node,        (* where search is                                           *)
  results,     (* what search has pushed                                    *)
  hit          (* hasMatch has returned true                                *)

matching == <<keywords, fail, output, unlinked, text, node, results, hit>>

Root == <<>>

Nodes == {Root} \cup UNION {Prefixes(k) : k \in Range(keywords)}

ChildrenOf(n) == {child \in Nodes : Len(child) = Len(n) + 1 /\ IsPrefix(n, child)}

(* A keyword is pushed at the node it leads to, once for each time it is   *)
(* given.                                                                  *)
Pushed(n) == [i \in 1 .. Cardinality({w \in DOMAIN keywords : keywords[w] = n}) |-> n]

(* buildTrie, and the first loop of buildFailureLinks.                     *)
TrieInit ==
  /\ keywords \in Dictionaries
  /\ fail = [n \in Nodes |-> IF Len(n) = 1 THEN Root ELSE NoNode]
  /\ output = [n \in Nodes |-> Pushed(n)]
  /\ unlinked = SetToSeq(ChildrenOf(Root))
  /\ text = <<>>
  /\ node = Root
  /\ results = <<>>
  /\ hit = FALSE

-------------------------------------------------------------------------------
(* From a node along the failure links to the first with an edge for char, *)
(* or NoNode.                                                              *)
Fallback(from, char) ==
  LET step[n \in Nodes \cup {NoNode}] ==
        IF n = NoNode THEN NoNode
        ELSE IF Append(n, char) \in Nodes THEN n
        ELSE step[fail[n]]
  IN  step[from]

FailOf(child) ==
  LET from == Fallback(fail[Front(child)], Last(child))
  IN  IF from = NoNode THEN Root ELSE Append(from, Last(child))

(* A plausible bug: a node reports only the keywords that end in it.       *)
Inherited_Nothing(n, to) == output[n]

(* child.output.push(...child.fail.output).                                *)
Inherited(n, to) == output[n] \o output[to]

(* One turn of buildFailureLinks' loop: the children of the first node of  *)
(* the queue.  A keyword of one character has its link already.            *)
LinkChildren ==
  /\ unlinked # <<>>
  /\ LET children == ChildrenOf(Head(unlinked))
     IN /\ fail' = [n \in Nodes |-> IF n \in children THEN FailOf(n) ELSE fail[n]]
        /\ output' = [n \in Nodes |->
             IF n \in children THEN Inherited(n, FailOf(n)) ELSE output[n]]
        /\ unlinked' = Tail(unlinked) \o SetToSeq(children)
  /\ UNCHANGED <<keywords, text, node, results, hit>>

(* The node that search, and hasMatch, go to from n on char.               *)
Advanced(n, char) ==
  LET from == Fallback(n, char)
  IN  IF from = NoNode THEN Root ELSE Append(from, char)

(* One turn of the loop of search, and of hasMatch on the same text, which *)
(* returns at the first node with an output.                               *)
ReadUnit(char) ==
  /\ unlinked = <<>>
  /\ Len(text) < MaxText
  /\ text' = Append(text, char)
  /\ node' = Advanced(node, char)
  /\ LET found == output[node']
     IN /\ results' = results \o
             [k \in DOMAIN found |->
               [keyword |-> found[k], index |-> Len(text) - Len(found[k]) + 1]]
        /\ hit' = (hit \/ found # <<>>)
  /\ UNCHANGED <<keywords, fail, output, unlinked>>

MatchingNext == LinkChildren \/ \E char \in Units : ReadUnit(char)

-------------------------------------------------------------------------------
(* Once built, each failure link leads to the longest proper suffix that   *)
(* is in the trie (ahocorasick.ts:46-58).                                  *)
FailLinksLongest ==
  unlinked = <<>> =>
    \A n \in Nodes \ {Root} :
      LET known == (Suffixes(n) \ {n}) \cap Nodes
      IN  fail[n] = CHOOSE s \in known : \A t \in known : Len(t) <= Len(s)

(* search reports each keyword of the text's own characters exactly where  *)
(* it occurs, overlapping and nested ones included, as often as it was     *)
(* given; one with an astral character is never reported; and hasMatch     *)
(* agrees.  (The empty keyword, reported at some places, is left out.)     *)
OccursAt(k, i) == i + Len(k) <= Len(text) /\ SubSeq(text, i + 1, i + Len(k)) = k

Reported(k, i) == Cardinality({r \in DOMAIN results : results[r] = [keyword |-> k, index |-> i]})

SearchExact ==
  /\ \A w \in DOMAIN keywords : keywords[w] # <<>> =>
       \A i \in 0 .. Len(text) - 1 :
         Reported(keywords[w], i) =
           IF OccursAt(keywords[w], i)
             THEN Cardinality({v \in DOMAIN keywords : keywords[v] = keywords[w]}) ELSE 0
  /\ <<>> \notin Range(keywords) => (hit <=> results # <<>>)

(* The automaton is right, and what it finds is what there is.             *)
MatchingExact == FailLinksLongest /\ SearchExact

===============================================================================
