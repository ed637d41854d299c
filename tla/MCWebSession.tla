------------------------------ MODULE MCWebSession ------------------------------
(* WebSession for TLC: a behaviour follows the session in the tabs that     *)
(* read nothing, or the data in those that do, as far as it goes with one   *)
(* request at once and no token due.  Users are interchangeable, and so are *)
(* the former tabs.                                                         *)
EXTENDS WebSession, TLC

VARIABLE part

SessionOnly ==
  /\ acts' <= 2 /\ away' = {}
  /\ \A s \in Slots : asking'[s] # None => s[1] \notin Readers

DataOnly ==
  /\ now' = 0
  /\ Cardinality({s \in Slots : asking'[s] # None}) <= 1
  /\ \A s \in Slots : asking'[s] # None => s[1] \in Readers

MCWebInit == WebInit /\ part \in {"session", "data"} /\ (part = "session" => key = "apiKeys")

MCWebNext ==
  /\ WebNext
  /\ part' = part
  /\ IF part = "session" THEN SessionOnly ELSE DataOnly

MCWebSpec == MCWebInit /\ [][MCWebNext]_<<part, browsing>>

Symmetry == Permutations(Users) \cup Permutations(Tabs \ Readers)

===============================================================================
