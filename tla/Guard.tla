---------------------------------- MODULE Guard ----------------------------------
(***************************************************************************)
(* What a KeySpot instance consists of besides its checkpoints and their   *)
(* vault: the audit log, the access token, the stream window, the taint    *)
(* map, the pattern registry, the keyword search, the prompt shield and    *)
(* the scanner's walk.                                                     *)
(* None of them reads another's state, so a behaviour moves one of them,   *)
(* chosen at the start, and the others stay as they were built.            *)
(***************************************************************************)
EXTENDS AuditLog, HostedAccess, StreamScan, TaintEngine, PatternRegistry, AhoCorasick, PromptShield,
  StateWalk

VARIABLE part   (* the part that moves *)

auditing == vars

GuardParts == {"audit", "hosted", "stream", "taint", "registry", "matching", "shield", "walk"}

(* What a part may start from is chosen only where that part moves.        *)
GuardInit ==
  /\ part \in GuardParts
  /\ part # "hosted"   => facilitator = "none"
  /\ part # "registry" => given = (CHOOSE l \in HostLists : TRUE) /\ holdsGiven = {} /\ timers = {}
  /\ part # "matching" => keywords = <<>>
  /\ part # "shield"   => rules = [s \in Shields |-> <<>>]
  /\ part # "walk"     => scanning = CHOOSE s \in States : TRUE
  /\ Init /\ HostedInit /\ StreamInit /\ TaintInit /\ RegistryInit /\ TrieInit /\ ShieldInit
  /\ WalkInit

Still(p, v) == part = p \/ UNCHANGED v

GuardNext ==
  /\ \/ part = "audit" /\ Next
     \/ part = "hosted" /\ HostedNext
     \/ part = "stream" /\ StreamNext
     \/ part = "taint" /\ TaintNext
     \/ part = "registry" /\ RegistryNext
     \/ part = "matching" /\ MatchingNext
     \/ part = "shield" /\ ShieldNext
     \/ part = "walk" /\ WalkNext
  /\ Still("audit", auditing) /\ Still("hosted", hosted) /\ Still("stream", streaming)
  /\ Still("taint", tainting) /\ Still("registry", registries)
  /\ Still("matching", matching) /\ Still("shield", shielding)
  /\ Still("walk", walking)
  /\ UNCHANGED part

GuardSpec ==
  GuardInit /\ [][GuardNext]_<<part, auditing, hosted, streaming, tainting, registries,
                                matching, shielding, walking>>

===============================================================================
