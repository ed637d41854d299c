------------------------------ MODULE AuditChain ------------------------------
(***************************************************************************)
(* The hash-chained entries of AuditLogger and their verification, as      *)
(* functions shared by the in-memory and the persisted logger.             *)
(*                                                                         *)
(* SHA-256 is taken to be injective: a hash is what was hashed.            *)
(***************************************************************************)
EXTENDS Naturals, Sequences

Genesis == <<>>                       (* '0'.repeat(64)                     *)

(* The parts of an event: what every JSON text of it holds, its keys and   *)
(* their order included; the values it gives to "timestamp" and "prevHash" *)
(* itself; and what no JSON text can hold (undefined, a function, NaN).    *)
EventOf(json, own, unseen) == [json |-> json, own |-> own, unseen |-> unseen]
NoPart == "none"

(* JSON.stringify({...event, timestamp, prevHash}) is what is hashed.      *)
Hash(event, timestamp, prevHash) == <<event.json, timestamp, prevHash>>

NewEntry(event, timestamp, prevHash) ==
  [event |-> event, timestamp |-> timestamp, prevHash |-> prevHash,
   hash |-> Hash(event, timestamp, prevHash)]

(* An entry as JSON.stringify writes and JSON.parse reads it.              *)
AsJson(entry) ==
  [event |-> EventOf(entry.event.json, entry.event.own, NoPart),
   timestamp |-> entry.timestamp, prevHash |-> entry.prevHash, hash |-> entry.hash]

(* The hash that verification recomputes for an entry.                     *)
Recomputed(entry) == Hash(entry.event, entry.timestamp, entry.prevHash)

(* What verifyChainDetailed asks of entry i; it reports no error exactly   *)
(* when every entry passes, as a prevHash mismatch is an error itself.     *)
LinkOK(entries, i) ==
  entries[i].prevHash = IF i = 1 THEN Genesis ELSE Recomputed(entries[i - 1])

TimeOK(entries, i) == i = 1 \/ entries[i].timestamp >= entries[i - 1].timestamp

HashOK(entries, i) == entries[i].hash = Recomputed(entries[i])

(* A slip that the properties must catch: no hash is computed again.       *)
VerifyChain_LinksOnly(entries) ==
  \A i \in 1 .. Len(entries) :
    entries[i].prevHash = IF i = 1 THEN Genesis ELSE entries[i - 1].hash

VerifyChain(entries) ==
  \A i \in 1 .. Len(entries) :
    LinkOK(entries, i) /\ TimeOK(entries, i) /\ HashOK(entries, i)

LastHashOf(entries) == IF entries = <<>> THEN Genesis ELSE entries[Len(entries)].hash

===============================================================================
