------------------------------ MODULE Checkpoint ------------------------------
(***************************************************************************)
(* KeySpot.checkpoint(): scan the state leaf by leaf, clone it, then for   *)
(* each match replace the leaf by a vault reference or a mask.  Every      *)
(* await lets the other calls, which share the vault, the taint engine and *)
(* the audit log, and the caller run.                                      *)
(*                                                                         *)
(* Names with an underscore are slips that the properties must catch; each *)
(* precedes the definition it deforms.  A leaf's content is one of the     *)
(* strings Text, Late, Ref, Derived and Masked below, or Gone.  Hosted     *)
(* access (index.ts:238-248) is not enabled here.                          *)
(***************************************************************************)
EXTENDS Naturals, Sequences

CONSTANTS
  Calls,
  Secrets,
  NumLeaves,
  Configs,         (* how the instance and its states may be set up         *)
  None, Rejected   (* answers that are not a state                          *)

Leaf == 1 .. NumLeaves

(* texts: what the agent writes.  addressing: how each leaf is reached.    *)
(* hexPattern: do the patterns match 64 hex digits, as built-in ones do?   *)
(* callerWrites: does the caller write to a state that it has passed in?   *)
(*                                                                         *)
(* "exact": the leaf's path leads to it.  A key with a dot or a bracket, or *)
(* an empty one, makes a path that leads elsewhere: "dotted", through      *)
(* something that is not there, or a string; "onto", to another place,     *)
(* which is a leaf or, when lands is empty, holds none; "over", to an      *)
(* object above the leaves in lands, which go with it.  "blocked": a path  *)
(* the prototype-pollution guard refuses, or a root key "".  "unvisited":  *)
(* the scan does not get there: below maxScanDepth, in an oversized object, *)
(* or in an object already visited through another leaf.  "root": the state *)
(* is the string itself, which checkpoint() wraps in an object (255-262),  *)
(* and has no other leaf.                                                  *)
ASSUME CheckpointAssumption ==
  /\ NumLeaves \in Nat
  /\ \A config \in Configs :
       /\ DOMAIN config = {"texts", "addressing", "lands", "pruneStrategy", "hexPattern",
                           "rotationHook", "callerWrites"}
       /\ config.texts \subseteq Seq(Secrets)
       /\ config.addressing \in
            [Leaf -> {"exact", "dotted", "onto", "over", "blocked", "unvisited", "root"}]
       /\ config.lands \in [Leaf -> SUBSET Leaf]
       /\ \A l \in Leaf : config.addressing[l] = "onto" =>
            \A m, n \in config.lands[l] : m = n
       /\ \A l \in Leaf : config.addressing[l] = "root" =>
            \A m \in Leaf \ {l} : config.addressing[m] = "unvisited"
       /\ config.pruneStrategy \in {"vault_with_taint", "redact", "remove", "replace"}
       /\ {config.hexPattern, config.rotationHook, config.callerWrites} \subseteq BOOLEAN
  /\ None # Rejected

VARIABLES
  config,    (* never changes                                               *)
  state,     (* the object passed to each call                              *)
  phase,     (* where each call is                                          *)
  cursor,    (* the next leaf to scan, then the next match to handle        *)
  matches,   (* what the scan of each call has found                        *)
  clean,     (* cleanState of each call                                     *)
  vault,     (* entries in the order written; the index stands for the id   *)
  tainted,   (* strings in the taint engine's map                           *)
  audit,     (* audit events                                                *)
  flagged    (* history: what was tainted when the call began               *)

vars == <<config, state, phase, cursor, matches, clean, vault, tainted, audit, flagged>>

Text(q)    == [kind |-> "text", found |-> q]   (* q: what the patterns find *)
Late(q)    == [kind |-> "late", found |-> q]   (* written during the call   *)
Ref(i)     == [kind |-> "ref", id |-> i]       (* vault:v1:<id>:<hmac>:...  *)
Derived    == [kind |-> "derived"]             (* made by the agent from a secret *)
Masked     == [kind |-> "masked"]              (* mask, placeholder, undefined *)
Gone       == [kind |-> "gone"]                (* with the object it was in *)
Hmac(i)    == [kind |-> "hmac", id |-> i]      (* the 64 hex digits of a ref *)
Rotated(s) == [kind |-> "rotated", of |-> s]   (* what a rotation hook returns *)
Tainted    == [kind |-> "tainted_content"]     (* a match without rawValue  *)

Content == {Text(q) : q \in config.texts} \cup {Derived}

(* All a leaf can hold in any instance: none of them, and no state made of *)
(* them, is one of the other names of this module.                         *)
Strings ==
  [kind : {"text", "late"}, found : Seq(Secrets)] \cup [kind : {"ref"}, id : Nat \ {0}]
    \cup {Derived, Masked, Gone}

ASSUME NamesAssumption ==
  /\ Masked \notin Secrets /\ Gone \notin Secrets
  /\ None \notin [Leaf -> Strings] /\ Rejected \notin [Leaf -> Strings]

Init ==
  /\ config \in Configs
  /\ state   = [c \in Calls |-> <<>>]
  /\ phase   = [c \in Calls |-> "idle"]
  /\ cursor  = [c \in Calls |-> 1]
  /\ matches = [c \in Calls |-> <<>>]
  /\ clean   = [c \in Calls |-> <<>>]
  /\ vault   = <<>>
  /\ tainted = {}
  /\ audit   = {}
  /\ flagged = [c \in Calls |-> {}]

Entry(c, value, l) == [value |-> value, by |-> c, leaf |-> l]

Event(c, type, i) == [call |-> c, type |-> type, match |-> cursor[c], id |-> i]

-------------------------------------------------------------------------------
(* The caller.                                                             *)

(* The agent tags a string it made from a secret.                          *)
TagDerived ==
  /\ tainted' = tainted \cup {Derived}
  /\ UNCHANGED <<config, state, phase, cursor, matches, clean, vault, audit, flagged>>

(* The state is new or what an earlier call returned.                      *)
Inputs ==
  [Leaf -> Content] \cup {clean[c] : c \in {d \in Calls : phase[d] = "done"}}

Begin(c) ==
  /\ phase[c] = "idle"
  /\ \E s \in Inputs : state' = [state EXCEPT ![c] = s]
  /\ phase' = [phase EXCEPT ![c] = "scanning"]
  /\ audit' = audit \cup {Event(c, "checkpoint_start", 0)}
  /\ flagged' = [flagged EXCEPT ![c] = tainted]
  /\ UNCHANGED <<config, cursor, matches, clean, vault, tainted>>

CallerWrites(c, l) ==
  /\ config.callerWrites
  /\ phase[c] = "scanning"
  /\ \E q \in config.texts : state' = [state EXCEPT ![c][l] = Late(q)]
  /\ UNCHANGED <<config, phase, cursor, matches, clean, vault, tainted, audit, flagged>>

-------------------------------------------------------------------------------
(* Scanner.scan on one leaf.                                               *)

Detect(content) ==
  CASE content.kind \in {"text", "late"} -> content.found
    [] content.kind = "ref" /\ config.hexPattern -> << Hmac(content.id) >>
    [] OTHER -> <<>>

MatchesIn_OncePerState(c, l) ==
  LET content == state[c][l] IN
  IF config.addressing[l] = "unvisited" THEN <<>>
  ELSE IF Detect(content) # <<>>
    THEN [k \in 1 .. Len(Detect(content)) |-> [leaf |-> l, raw |-> Detect(content)[k]]]
  ELSE IF content \in tainted /\ matches[c] = <<>> THEN << [leaf |-> l, raw |-> Tainted] >>
  ELSE <<>>

MatchesIn(c, l) ==
  LET content == state[c][l] IN
  IF config.addressing[l] = "unvisited" THEN <<>>
  ELSE IF Detect(content) # <<>>
    THEN [k \in 1 .. Len(Detect(content)) |-> [leaf |-> l, raw |-> Detect(content)[k]]]
  ELSE IF content \in tainted THEN << [leaf |-> l, raw |-> Tainted] >>
  ELSE <<>>

ScanLeaf(c) ==
  LET l == cursor[c] IN
  /\ phase[c] = "scanning" /\ l \in Leaf
  /\ matches' = [matches EXCEPT ![c] = @ \o MatchesIn(c, l)]
  /\ tainted' = IF config.addressing[l] # "unvisited" /\ Detect(state[c][l]) # <<>>
                  THEN tainted \cup {state[c][l]} ELSE tainted
  /\ cursor' = [cursor EXCEPT ![c] = l + 1]
  /\ UNCHANGED <<config, state, phase, clean, vault, audit, flagged>>

(* JSON.parse(JSON.stringify(state)), once the scan has returned.          *)
Clone(c) ==
  /\ phase[c] = "scanning" /\ cursor[c] \notin Leaf
  /\ clean' = [clean EXCEPT ![c] = state[c]]
  /\ phase' = [phase EXCEPT ![c] = "replacing"]
  /\ cursor' = [cursor EXCEPT ![c] = 1]
  /\ UNCHANGED <<config, state, matches, vault, tainted, audit, flagged>>

-------------------------------------------------------------------------------
(* The loop over the matches.                                              *)

Handling(c) == phase[c] = "replacing" /\ cursor[c] <= Len(matches[c])
Match(c) == matches[c][cursor[c]]

Reject(c) == phase' = [phase EXCEPT ![c] = "rejected"]

(* The leaves that what replaceAtPath writes for leaf l replaces.          *)
Landing(l) ==
  CASE config.addressing[l] \in {"exact", "root"} -> {l}
    [] config.addressing[l] \in {"onto", "over"} -> config.lands[l]
    [] OTHER -> {}

(* The path leads through a place that an earlier match of this call has   *)
(* made a string.                                                          *)
Stopped(c, l) == Landing(l) # {} /\ \A m \in Landing(l) : clean[c][m] = Gone

Written(c, l, content) ==
  [clean EXCEPT ![c] = [m \in Leaf |->
     IF m \notin Landing(l) THEN clean[c][m]
     ELSE IF config.addressing[l] = "over" THEN Gone ELSE content]]

(* The entry in the audit log, and on to the next match.                   *)
Proceed(c, type, i) ==
  /\ audit' = audit \cup {Event(c, type, i)}
  /\ cursor' = [cursor EXCEPT ![c] = @ + 1]
  /\ phase' = [phase EXCEPT ![c] = "replacing"]

(* replaceAtPath, which throws where its path leads through nothing or     *)
(* ends in a member of a string; then the entry.                           *)
Replace(c, content, type, i) ==
  LET l == Match(c).leaf IN
  \/ /\ config.addressing[l] = "dotted" \/ Stopped(c, l)
     /\ Reject(c) /\ UNCHANGED <<clean, audit, cursor>>
  \/ /\ config.addressing[l] # "dotted" /\ (Stopped(c, l) => config.addressing[l] = "over")
     /\ clean' = Written(c, l, content)
     /\ Proceed(c, type, i)

Mask(c) ==
  /\ Handling(c)
  /\ \/ Match(c).raw = Tainted /\ Replace(c, Masked, "taint_redacted", 0)
     \/ /\ Match(c).raw # Tainted /\ config.pruneStrategy # "vault_with_taint"
        /\ Replace(c, Masked, config.pruneStrategy, 0)
  /\ UNCHANGED <<config, state, matches, vault, tainted, flagged>>

(* onSecretFound or onTrigger throws out of the call, or JSON.stringify on *)
(* a state with a cycle.                                                   *)
Throws(c) ==
  /\ Handling(c) \/ phase[c] = "idle" \/ (phase[c] = "scanning" /\ cursor[c] \notin Leaf)
  /\ Reject(c)
  /\ UNCHANGED <<config, state, cursor, matches, clean, vault, tainted, audit, flagged>>

Vaulting(c) ==
  Handling(c) /\ Match(c).raw # Tainted /\ config.pruneStrategy = "vault_with_taint"

(* The vault has stored the secret, or what the rotation hook made of it:  *)
(* a hook that throws or returns nothing leaves the secret as it is.       *)
ToStore(c) ==
  {Match(c).raw} \cup IF config.rotationHook THEN {Rotated(Match(c).raw)} ELSE {}

VaultWrite(c) ==
  /\ Vaulting(c)
  /\ \E value \in ToStore(c) :
       vault' = Append(vault, Entry(c, value, Match(c).leaf))
  /\ phase' = [phase EXCEPT ![c] = "written"]
  /\ UNCHANGED <<config, state, cursor, matches, clean, tainted, audit, flagged>>

(* The write failed, perhaps after the vault had stored the secret.        *)
VaultWriteFails_Open(c) ==
  /\ Vaulting(c)
  /\ vault' \in {vault, Append(vault, Entry(c, Match(c).raw, Match(c).leaf))}
  /\ cursor' = [cursor EXCEPT ![c] = @ + 1]
  /\ UNCHANGED <<config, state, phase, matches, clean, tainted, audit, flagged>>

VaultWriteFails(c) ==
  /\ Vaulting(c)
  /\ vault' \in {vault, Append(vault, Entry(c, Match(c).raw, Match(c).leaf))}
  /\ Reject(c)
  /\ UNCHANGED <<config, state, cursor, matches, clean, tainted, audit, flagged>>

(* After the write: generateRef, tag, replace and log, in one turn.        *)
OwnEntry(c) ==
  CHOOSE i \in 1 .. Len(vault) :
    vault[i].by = c /\ \A k \in 1 .. Len(vault) : vault[k].by = c => k <= i

InsertRef_LastEntry(c) ==
  /\ phase[c] = "written"
  /\ tainted' = tainted \cup {Ref(Len(vault)), vault[Len(vault)].value}
  /\ Replace(c, Ref(Len(vault)), "secret_vaulted", Len(vault))
  /\ UNCHANGED <<config, state, matches, vault, flagged>>

InsertRef(c) ==
  /\ phase[c] = "written"
  /\ tainted' = tainted \cup {Ref(OwnEntry(c)), vault[OwnEntry(c)].value}
  /\ Replace(c, Ref(OwnEntry(c)), "secret_vaulted", OwnEntry(c))
  /\ UNCHANGED <<config, state, matches, vault, flagged>>

End(c) ==
  /\ phase[c] = "replacing" /\ cursor[c] > Len(matches[c])
  /\ phase' = [phase EXCEPT ![c] = "done"]
  /\ audit' = audit \cup {Event(c, "checkpoint_end", 0)}
  /\ UNCHANGED <<config, state, cursor, matches, clean, vault, tainted, flagged>>

Next ==
  \/ TagDerived
  \/ \E c \in Calls :
       \/ Begin(c) \/ ScanLeaf(c) \/ Clone(c) \/ End(c)
       \/ Mask(c) \/ Throws(c)
       \/ VaultWrite(c) \/ VaultWriteFails(c) \/ InsertRef(c)
       \/ \E l \in Leaf : CallerWrites(c, l)

Spec == Init /\ [][Next]_vars

-------------------------------------------------------------------------------
Found == Secrets \cup {Hmac(i) : i \in 1 .. Len(vault)}

TypeOK ==
  /\ phase \in [Calls -> {"idle", "scanning", "replacing", "written", "done", "rejected"}]
  /\ \A c \in Calls :
       /\ DOMAIN state[c] \in {{}, Leaf} /\ DOMAIN clean[c] \in {{}, Leaf}
       /\ \A k \in 1 .. Len(matches[c]) :
            /\ matches[c][k].leaf \in Leaf
            /\ matches[c][k].raw \in Found \cup {Tainted}
       /\ phase[c] \in {"replacing", "written"} => cursor[c] \in 1 .. Len(matches[c]) + 1
  /\ \A i \in 1 .. Len(vault) :
       /\ vault[i].by \in Calls /\ vault[i].leaf \in Leaf
       /\ vault[i].value \in Found \cup {Rotated(f) : f \in Found}

(* checkpoint() answers as CheckpointContract promises: no returned state  *)
(* holds a secret the patterns know in what was passed in, whichever       *)
(* writes fail and however the calls interleave; a call whose write failed *)
(* returns no state (fail-closed, index.ts:327-337); and every reference   *)
(* returned is in the vault.                                               *)
Answer == [c \in Calls |-> CASE phase[c] = "done" -> clean[c]
                             [] phase[c] = "rejected" -> Rejected
                             [] OTHER -> None]

Contract == INSTANCE CheckpointContract WITH answer <- Answer

KeepsContract == Contract!Spec

(* A reference that a call put in its state resolves to the last secret    *)
(* whose path leads to that leaf, or its rotation: no call picks up the    *)
(* entry of another that wrote to the vault at the same time.              *)
RefsResolve ==
  \A c \in Calls : \A l \in DOMAIN clean[c] :
    LET content == clean[c][l]
        found == {k \in 1 .. Len(matches[c]) :
                    l \in Landing(matches[c][k].leaf) /\ (phase[c] = "done" \/ k < cursor[c])} IN
    content.kind = "ref" /\ found # {} =>
      LET last == CHOOSE k \in found : \A m \in found : m <= k IN
      /\ content.id \in 1 .. Len(vault)
      /\ vault[content.id].by = c
      /\ vault[content.id].value \in {matches[c][last].raw, Rotated(matches[c][last].raw)}

(* The audit log and the vault agree: an entry without its secret_vaulted  *)
(* event belongs to a call about to log it or one that was rejected, and   *)
(* every event names an entry of its own call.                             *)
AuditMatchesVault ==
  /\ \A i \in 1 .. Len(vault) :
       LET c == vault[i].by IN
       \/ \E e \in audit : e.type = "secret_vaulted" /\ e.call = c /\ e.id = i
       \/ phase[c] = "written" /\ i = OwnEntry(c)
       \/ phase[c] = "rejected"
  /\ \A e \in audit : e.type = "secret_vaulted" =>
       e.id \in 1 .. Len(vault) /\ vault[e.id].by = e.call

(* index.ts:20 "Replace secret with vault reference, tag ref as tainted":  *)
(* no state holds a reference that the taint engine does not know.         *)
RefsTainted ==
  \A c \in Calls : \A l \in DOMAIN clean[c] :
    clean[c][l].kind = "ref" => clean[c][l] \in tainted

(* A derived string that was tagged before the call began is not in what   *)
(* it returns, where the scan gets and replacing may (scanner.ts:165-177). *)
TaintedRedacted ==
  \A c \in Calls : phase[c] = "done" =>
    \A l \in DOMAIN clean[c] :
      clean[c][l] = Derived
        /\ config.addressing[l] \notin {"onto", "over", "blocked", "unvisited"} =>
        Derived \notin flagged[c]

-------------------------------------------------------------------------------
(* DOCUMENTATION.md:8 "Secrets never persist in agent memory. They're      *)
(* replaced with HMAC-signed vault references".                            *)
NoSecretReturned ==
  \A c \in Calls : phase[c] = "done" =>
    \A l \in Leaf : clean[c][l].kind = "text" => clean[c][l].found = <<>>

===============================================================================
