-------------------------- MODULE CheckpointContract --------------------------
(***************************************************************************)
(* What KeySpot.checkpoint() promises to an agent, whatever it does inside: *)
(* a call gives at most one answer; what it returns never changes and has  *)
(* no secret in it; a reference in it names an entry that was in the vault *)
(* when it was returned; and the vault forgets nothing.                    *)
(***************************************************************************)
EXTENDS Naturals, Sequences

CONSTANTS
  Calls,
  None,        (* no answer yet                                             *)
  Rejected     (* the promise was rejected                                  *)

VARIABLES
  answer,      (* [Calls -> None, Rejected or a state]                      *)
  vault        (* a sequence of entries                                     *)

vars == <<answer, vault>>

(* Leaf contents are records whose kind is "text", "ref" or another.       *)
Safe(state, entries) ==
  \A l \in DOMAIN state :
    /\ state[l].kind = "text" => state[l].found = <<>>
    /\ state[l].kind = "ref"  => state[l].id \in 1 .. Len(entries)

Init ==
  /\ answer = [c \in Calls |-> None]
  /\ vault = <<>>

Deposit ==
  /\ Len(vault') = Len(vault) + 1
  /\ SubSeq(vault', 1, Len(vault)) = vault

Return(c) ==
  /\ answer[c] = None
  /\ answer'[c] \notin {None, Rejected}
  /\ Safe(answer'[c], vault)
  /\ answer' = [answer EXCEPT ![c] = answer'[c]]
  /\ UNCHANGED vault

Reject(c) ==
  /\ answer[c] = None
  /\ answer' = [answer EXCEPT ![c] = Rejected]
  /\ UNCHANGED vault \/ Deposit

Next ==
  \/ Deposit /\ UNCHANGED answer
  \/ \E c \in Calls : Return(c) \/ Reject(c)

Spec == Init /\ [][Next]_vars

===============================================================================
