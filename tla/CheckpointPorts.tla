---------------------------- MODULE CheckpointPorts ----------------------------
(***************************************************************************)
(* The three checkpoints of the repository on one state space.  "local":   *)
(* KeySpot.checkpoint as in Checkpoint.  "worker": runCheckpoint of core/src/checkpoint-core.ts,    *)
(* which the pool's threads run on a copy of the state with a taint engine *)
(* and a vault of their own; it calls nothing back and returns what it     *)
(* would have logged.  "python": KeySpot.checkpoint of the Python port,    *)
(* whose calls share vault, taint engine and audit log on one event loop.  *)
(*                                                                         *)
(* The two others scan and clone without giving way to another call, so that is one  *)
(* step here.  The pool's inline fallback, where the caller keeps the      *)
(* state, and the worker's taintEntries, which nobody reads, are left out. *)
(***************************************************************************)
EXTENDS Checkpoint, SequencesExt

CONSTANTS Ports,       (* which of them                                     *)
          PortConfigs  (* [Ports -> the Configs it is tried with]           *)

ASSUME PortsAssumption ==
  /\ Ports \subseteq {"local", "worker", "python"}
  /\ PortConfigs \in [Ports -> SUBSET Configs]

VARIABLE port

portVars == <<port, vars>>

PortInit == port \in Ports /\ Init /\ config \in PortConfigs[port]

-------------------------------------------------------------------------------
(* A worker's engine is new, and knows only texts that match by themselves;*)
(* in Python the match of a tainted leaf has its whole content as          *)
(* raw_value, and is vaulted like any other.                               *)
PortMatchesIn(c, l) ==
  LET content == state[c][l] IN
  IF config.addressing[l] = "unvisited" THEN <<>>
  ELSE IF Detect(content) # <<>> THEN MatchesIn(c, l)
  ELSE IF port = "python" /\ content \in tainted THEN << [leaf |-> l, raw |-> content] >>
  ELSE <<>>

Tagged(c) ==
  {state[c][l] : l \in {k \in Leaf : config.addressing[k] # "unvisited" /\ Detect(state[c][k]) # <<>>}}

PortBegin(c) == Begin(c) /\ UNCHANGED port

(* scan and clone.  Only Python's engine outlives the call.                *)
PortScan(c) ==
  /\ phase[c] = "scanning"
  /\ matches' = [matches EXCEPT ![c] = FlattenSeq([l \in Leaf |-> PortMatchesIn(c, l)])]
  /\ tainted' = IF port = "python" THEN tainted \cup Tagged(c) ELSE tainted
  /\ clean' = [clean EXCEPT ![c] = state[c]]
  /\ phase' = [phase EXCEPT ![c] = "replacing"]
  /\ UNCHANGED <<port, config, state, cursor, vault, audit, flagged>>

(* A string's path is no place in it.  Where a path leads through nothing, *)
(* or through a string, the worker's replaceAtPath returns, or throws when *)
(* only the last key is left; Python raises KeyError or TypeError.         *)
PortReplace(c, content, type, i) ==
  LET l == Match(c).leaf
      Nowhere == config.addressing[l] \in {"dotted", "root"}
  IN
  \/ /\ Stopped(c, l) \/ config.addressing[l] = "dotted" \/ (port = "python" /\ Nowhere)
     /\ Reject(c) /\ UNCHANGED <<clean, audit, cursor>>
  \/ /\ port = "worker" /\ (Nowhere \/ Stopped(c, l))
     /\ UNCHANGED clean /\ Proceed(c, type, i)
  \/ /\ ~ Nowhere /\ (Stopped(c, l) => config.addressing[l] = "over")
     /\ clean' = Written(c, l, content)
     /\ Proceed(c, type, i)

(* Python has no other strategy than the vault.                            *)
ToVault(c) == port = "python" \/ config.pruneStrategy = "vault_with_taint"

PortMask(c) ==
  /\ Handling(c) /\ ~ToVault(c)
  /\ PortReplace(c, Masked, config.pruneStrategy, 0)
  /\ UNCHANGED <<port, config, state, matches, vault, tainted, flagged>>

(* A worker has no rotation hook.                                          *)
PortWrite(c) ==
  /\ Handling(c) /\ ToVault(c)
  /\ \E value \in IF port = "python" THEN ToStore(c) ELSE {Match(c).raw} :
       vault' = Append(vault, Entry(c, value, Match(c).leaf))
  /\ phase' = [phase EXCEPT ![c] = "written"]
  /\ UNCHANGED <<port, config, state, cursor, matches, clean, tainted, audit, flagged>>

(* A plausible bug: a failed write is passed over.                         *)
PortWriteFails_Open(c) ==
  /\ Handling(c) /\ ToVault(c)
  /\ cursor' = [cursor EXCEPT ![c] = @ + 1]
  /\ UNCHANGED <<port, config, state, phase, matches, clean, vault, tainted, audit, flagged>>

(* The write failed, perhaps after the vault had stored the secret: the    *)
(* worker's job is rejected, Python's exception goes to the caller.        *)
PortWriteFails(c) ==
  /\ Handling(c) /\ ToVault(c)
  /\ vault' \in {vault, Append(vault, Entry(c, Match(c).raw, Match(c).leaf))}
  /\ Reject(c)
  /\ UNCHANGED <<port, config, state, cursor, matches, clean, tainted, audit, flagged>>

(* generateRef, replace and log; neither tags the reference in an engine   *)
(* that another scan asks.                                                 *)
PortInsertRef(c) ==
  /\ phase[c] = "written"
  /\ PortReplace(c, Ref(OwnEntry(c)), "secret_vaulted", OwnEntry(c))
  /\ UNCHANGED <<port, config, state, matches, vault, tainted, flagged>>

(* A state that cannot be cloned, or a callback of Python's that raises; a *)
(* rotation hook too, which is not fail-soft there.                        *)
PortThrows(c) ==
  /\ phase[c] = "scanning" \/ (port = "python" /\ Handling(c))
  /\ Reject(c)
  /\ UNCHANGED <<port, config, state, cursor, matches, clean, vault, tainted, audit, flagged>>

PortNext ==
  \/ port = "local" /\ Next /\ UNCHANGED port
  \/ port = "python" /\ TagDerived /\ UNCHANGED port
  \/ port # "local" /\ \E c \in Calls :
       \/ PortBegin(c) \/ PortScan(c) \/ PortMask(c) \/ PortThrows(c)
       \/ PortWrite(c) \/ PortWriteFails(c) \/ PortInsertRef(c)
       \/ End(c) /\ UNCHANGED port

PortSpec == PortInit /\ [][PortNext]_portVars

-------------------------------------------------------------------------------
(* What only the local checkpoint promises: its types, and a reference     *)
(* that the next scan takes for tainted.                                   *)
LocalTypeOK == port = "local" => TypeOK

LocalRefsTainted == port = "local" => RefsTainted

(* Where replacing cannot reach what the scan matched: where the guard     *)
(* refuses the path, and where the path leads to another place, although   *)
(* the log then says that the secret is in the vault.  The local           *)
(* checkpoint and Python reject a path to nowhere; the worker passes over. *)
Unreachable ==
  {"blocked", "onto", "over"} \cup IF port = "worker" THEN {"dotted", "root"} ELSE {}

(* All three keep the contract of Checkpoint with states whose leaves the  *)
(* scan visits and replacing reaches or refuses: whichever writes fail and *)
(* however the calls interleave, a returned state has no secret in it and  *)
(* a call whose write failed returns none (checkpoint-core.ts, core.py).   *)
Covered == \A l \in Leaf : config.addressing[l] \notin Unreachable \cup {"unvisited"}

PortAnswer == IF Covered THEN Answer ELSE [c \in Calls |-> None]

PortContract == INSTANCE CheckpointContract WITH answer <- PortAnswer

PortsKeepContract == PortContract!Spec

(* Something the scan matched is in a returned state only where replacing  *)
(* cannot reach it.                                                        *)
OnlyUnreachableSurvive ==
  \A c \in Calls : phase[c] = "done" =>
    \A k \in DOMAIN matches[c] :
      LET l == matches[c][k].leaf
      IN  clean[c][l] = state[c][l] => config.addressing[l] \in Unreachable

(* Vault, audit log and returned states agree on which secret was put away *)
(* for whom, however two calls' writes, failures and events interleave.    *)
RecordsAgree == RefsResolve /\ AuditMatchesVault

(* The taint engine knows every reference and derived string a scan may    *)
(* meet again, and what it knew before a call is not in what that returns. *)
TaintsHold == LocalTypeOK /\ LocalRefsTainted /\ TaintedRedacted

===============================================================================
