------------------------------- MODULE AuditLog -------------------------------
(***************************************************************************)
(* AuditLogger, the in-memory audit log: log(), which forgets its oldest   *)
(* entries over capacity, and clear().  The clock is the wall clock, which *)
(* may be set back.                                                        *)
(***************************************************************************)
EXTENDS AuditChain

CONSTANTS
  Events,
  MaxEntries,
  Production,       (* NODE_ENV === 'production'                            *)
  ClockMayGoBack,
  MaxTime, MaxLogged  (* bounds on the clock and on the entries logged      *)

ASSUME AuditLogAssumption ==
  /\ \A e \in Events : e = EventOf(e.json, e.own, e.unseen)
  /\ MaxEntries \in Nat
  /\ Production \in BOOLEAN /\ ClockMayGoBack \in BOOLEAN
  /\ MaxTime \in Nat /\ MaxLogged \in Nat

VARIABLES
  entries,    (* the entries kept                                           *)
  lastHash,
  clock,      (* Date.now()                                                 *)
  logged      (* history: every entry since the last clear()                *)

vars == <<entries, lastHash, clock, logged>>

Init ==
  /\ entries = <<>>
  /\ lastHash = Genesis
  /\ clock = 1
  /\ logged = <<>>

(* entries.slice(-maxEntries); slice(-0) is the whole array.               *)
Newest_Oldest(s) ==
  IF MaxEntries = 0 \/ Len(s) <= MaxEntries THEN s ELSE SubSeq(s, 1, MaxEntries)

Newest(s) ==
  IF MaxEntries = 0 \/ Len(s) <= MaxEntries
    THEN s
    ELSE SubSeq(s, Len(s) - MaxEntries + 1, Len(s))

Log(event) ==
  LET entry == NewEntry(event, clock, lastHash) IN
  /\ Len(logged) < MaxLogged
  /\ entries' = Newest(Append(entries, entry))
  /\ lastHash' = entry.hash
  /\ logged' = Append(logged, entry)
  /\ UNCHANGED clock

Clear ==
  /\ ~ Production
  /\ entries' = <<>>
  /\ lastHash' = Genesis
  /\ logged' = <<>>
  /\ UNCHANGED clock

SetClock ==
  /\ clock' \in 1 .. MaxTime
  /\ clock' < clock => ClockMayGoBack
  /\ UNCHANGED <<entries, lastHash, logged>>

Next == Clear \/ SetClock \/ \E event \in Events : Log(event)

Spec == Init /\ [][Next]_vars

-------------------------------------------------------------------------------
LogEntry(e) ==
  /\ DOMAIN e = {"event", "timestamp", "prevHash", "hash"}
  /\ e.event \in Events
  /\ e.timestamp \in Nat

TypeOK ==
  /\ clock \in Nat
  /\ \A i \in 1 .. Len(entries) : LogEntry(entries[i])
  /\ \A i \in 1 .. Len(logged) : LogEntry(logged[i])

(* Everything logged since the last clear() is one chain from the genesis  *)
(* hash, the entries kept are its newest part, and lastHash is its end:    *)
(* forgetting old entries never disturbs the chain (security.ts:81-94).    *)
OneChain ==
  /\ \A i \in 1 .. Len(logged) : LinkOK(logged, i) /\ HashOK(logged, i)
  /\ entries = SubSeq(logged, Len(logged) - Len(entries) + 1, Len(logged))
  /\ Len(entries) < Len(logged) => Len(entries) = MaxEntries
  /\ lastHash = LastHashOf(logged)

(* verifyChain accepts what getEntries returns as long as nothing has been *)
(* forgotten and the clock was not set back between two entries: there is  *)
(* no false alarm.                                                         *)
SteadyClock ==
  \A i \in 2 .. Len(logged) : logged[i].timestamp >= logged[i - 1].timestamp

NoFalseAlarm == (entries = logged /\ SteadyClock) => VerifyChain(entries)

(* Whatever was forgotten, cleared and logged, the log is one chain, and   *)
(* verifyChain says so while it is whole (security.ts:81-139).             *)
LogSound == TypeOK /\ OneChain /\ NoFalseAlarm

(* The logs somebody could present instead of the one that was written:    *)
(* one event or one timestamp changed, one entry removed or two exchanged, *)
(* the hashes left as they were or computed anew.                          *)
Rehashed(s) ==
  LET hash[i \in 0 .. Len(s)] ==
        IF i = 0 THEN Genesis ELSE Hash(s[i].event, s[i].timestamp, hash[i - 1])
  IN  [i \in 1 .. Len(s) |-> NewEntry(s[i].event, s[i].timestamp, hash[i - 1])]

Edited(s) ==
  {[s EXCEPT ![i].event = e] : i \in DOMAIN s, e \in Events}
  \cup {[s EXCEPT ![i].timestamp = t] : i \in DOMAIN s, t \in 1 .. MaxTime}
  \cup {SubSeq(s, 1, i - 1) \o SubSeq(s, i + 1, Len(s)) : i \in DOMAIN s}
  \cup {[s EXCEPT ![i] = s[j], ![j] = s[i]] : i \in DOMAIN s, j \in DOMAIN s}

Forged(s) == (Edited(s) \cup {Rehashed(t) : t \in Edited(s)}) \ {s}

(* Two logs agree in all that goes into their hashes.                      *)
Agree(s, t) ==
  /\ Len(s) = Len(t)
  /\ \A i \in 1 .. Len(s) : Recomputed(s[i]) = Recomputed(t[i]) /\ s[i].hash = t[i].hash

(* Tamper evidence, as far as it goes: whoever presents the log, the kept  *)
(* part of it or a forgery of either, and is not refused by verifyChain or *)
(* by the lastHash that getLastHash gives out for anchoring, presents all  *)
(* that was logged, in its order, up to what JSON.stringify({...event,     *)
(* timestamp, prevHash}) leaves out of an event (security.ts:84,114).      *)
TamperEvident ==
  \A s \in {logged, entries} : \A t \in Forged(s) \cup {s} :
    VerifyChain(t) /\ LastHashOf(t) = lastHash => Agree(t, logged)

===============================================================================
