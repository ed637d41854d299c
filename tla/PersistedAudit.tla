---------------------------- MODULE PersistedAudit ----------------------------
(***************************************************************************)
(* PersistedAuditLogger: signed entries are buffered and appended to the   *)
(* log file of the process, one write per entry.  The process may crash    *)
(* between two writes; the next one opens a new file and continues the     *)
(* chain root from the last line of the newest file.  A block snapshot     *)
(* signs an entry that names the chain root, once the network, which is    *)
(* external, has answered.                                                 *)
(*                                                                         *)
(* A file is named after the wall-clock time its process started, and the  *)
(* clock may be set back.  Files are kept here by process; no two          *)
(* processes start within one millisecond.  Signatures play no part.       *)
(* Names with an underscore are slips that the properties must catch.      *)
(***************************************************************************)
EXTENDS AuditChain, Integers, SequencesExt

CONSTANTS
  Events,
  Snapshots,        (* calls of snapshotArbitrumBlock                       *)
  FlushThreshold,   (* flushInterval                                        *)
  PlainLogs,        (* is the inherited log() used too?                     *)
  WritesMayFail,    (* may appendFileSync throw?                            *)
  MaxProcesses, MaxLogged, MaxDisturbances, MaxClock   (* bounds             *)

ASSUME PersistedAuditAssumption ==
  /\ \A e \in Events : e = EventOf(e.json, e.own, e.unseen)
  /\ FlushThreshold \in Nat
  /\ PlainLogs \in BOOLEAN /\ WritesMayFail \in BOOLEAN
  /\ MaxProcesses \in Nat \ {0} /\ MaxLogged \in Nat /\ MaxDisturbances \in Nat
  /\ MaxClock \in Nat \ {0}

VARIABLES
  clock,      (* Date.now()                                                 *)
  started,    (* when each process started, which is its file's name        *)
  files,      (* the lines of each process's file, newest process last      *)
  alive,      (* is the newest process running?                             *)
  lastHash, chainRoot,
  buffer,     (* signed entries not known to be on disk                     *)
  flushed,    (* how many of the buffer the flush in progress has written,  *)
              (* or NoFlush                                                 *)
  signed,     (* history: the entries each process has signed, as JSON      *)
  disturbances, (* history: the failed writes and the uses of log()         *)
  snapshot    (* [Snapshots -> {"unasked", "awaited", "over"}]              *)

logging == <<started, files, alive, lastHash, chainRoot, buffer, flushed, signed, disturbances>>
vars == <<clock, logging, snapshot>>

NoFlush == -1

ChainRoot(root, hash) == <<root, hash>>       (* injective, like Hash       *)

Process == Len(files)
File == files[Process]

(* The constructor on an empty directory.                                  *)
Init ==
  /\ clock = 1 /\ started = <<1>>
  /\ files = << <<>> >>
  /\ alive = TRUE
  /\ lastHash = Genesis /\ chainRoot = Genesis
  /\ buffer = <<>> /\ flushed = NoFlush
  /\ signed = << <<>> >>
  /\ disturbances = 0
  /\ snapshot = [n \in Snapshots |-> "unasked"]

Idle == alive /\ flushed = NoFlush

(* The inherited log(): in memory only.                                    *)
Log(event) ==
  /\ Idle /\ PlainLogs /\ disturbances < MaxDisturbances
  /\ lastHash' = NewEntry(event, clock, lastHash).hash
  /\ disturbances' = disturbances + 1
  /\ UNCHANGED <<started, files, alive, chainRoot, buffer, flushed, signed>>

Signed(entry) == [entry |-> entry, root |-> ChainRoot(chainRoot, entry.hash)]

LogSigned(event) ==
  LET entry == NewEntry(event, clock, lastHash) IN
  /\ Idle /\ Len(FlattenSeq(signed)) < MaxLogged
  /\ lastHash' = entry.hash
  /\ chainRoot' = Signed(entry).root
  /\ buffer' = Append(buffer, Signed(entry))
  /\ flushed' = IF Len(buffer') >= FlushThreshold THEN 0 ELSE NoFlush
  /\ signed' = [signed EXCEPT ![Process] = Append(@, AsJson(entry))]
  /\ UNCHANGED <<started, files, alive, disturbances>>

(* snapshotArbitrumBlock asks the network for the latest block ...         *)
SnapshotArbitrumBlock(n) ==
  /\ Idle /\ snapshot[n] = "unasked"
  /\ snapshot' = [snapshot EXCEPT ![n] = "awaited"]
  /\ UNCHANGED logging

SnapshotOf(root) == EventOf(<<"block_timestamp_snapshot", root>>, NoPart, NoPart)

(* ... and signs the chain root it finds when the block is there, which    *)
(* other entries have moved on meanwhile.                                  *)
BlockArrives(n) ==
  /\ snapshot[n] = "awaited"
  /\ LogSigned(SnapshotOf(chainRoot))
  /\ snapshot' = [snapshot EXCEPT ![n] = "over"]

(* The network fails: the call answers null.                               *)
BlockFails(n) ==
  /\ Idle /\ snapshot[n] = "awaited"
  /\ snapshot' = [snapshot EXCEPT ![n] = "over"]
  /\ UNCHANGED logging

SetClock ==
  /\ clock' \in 1 .. MaxClock
  /\ UNCHANGED <<logging, snapshot>>

(* flush(): a write for each buffered entry, then the buffer is emptied.   *)
Close ==
  /\ Idle
  /\ flushed' = 0
  /\ UNCHANGED <<started, files, alive, lastHash, chainRoot, buffer, signed, disturbances>>

Line(item) == [entry |-> AsJson(item.entry), root |-> item.root]

WriteLine ==
  /\ alive /\ flushed \in 0 .. Len(buffer) - 1
  /\ files' = [files EXCEPT ![Process] = Append(@, Line(buffer[flushed + 1]))]
  /\ flushed' = flushed + 1
  /\ UNCHANGED <<started, alive, lastHash, chainRoot, buffer, signed, disturbances>>

WriteFails_EmptiesBuffer ==
  /\ WritesMayFail /\ disturbances < MaxDisturbances
  /\ alive /\ flushed \in 0 .. Len(buffer) - 1
  /\ buffer' = <<>> /\ flushed' = NoFlush
  /\ disturbances' = disturbances + 1
  /\ UNCHANGED <<started, files, alive, lastHash, chainRoot, signed>>

(* The exception leaves flush() and logSigned(); the buffer stays.         *)
WriteFails ==
  /\ WritesMayFail /\ disturbances < MaxDisturbances
  /\ alive /\ flushed \in 0 .. Len(buffer) - 1
  /\ flushed' = NoFlush
  /\ disturbances' = disturbances + 1
  /\ UNCHANGED <<started, files, alive, lastHash, chainRoot, buffer, signed>>

EndFlush ==
  /\ alive /\ flushed = Len(buffer)
  /\ buffer' = <<>> /\ flushed' = NoFlush
  /\ UNCHANGED <<started, files, alive, lastHash, chainRoot, signed, disturbances>>

Crash ==
  /\ alive
  /\ alive' = FALSE
  /\ buffer' = <<>> /\ flushed' = NoFlush
  /\ snapshot' = [n \in Snapshots |-> IF snapshot[n] = "unasked" THEN "unasked" ELSE "over"]
  /\ UNCHANGED <<started, files, lastHash, chainRoot, signed, disturbances>>

(* loadChainRoot: the file whose name sorts last; a process that wrote     *)
(* nothing has left none.                                                  *)
Written == {p \in 1 .. Process : files[p] # <<>>}

LoadedRoot_OldestFile ==
  IF Written = {} THEN Genesis
  ELSE LET oldest == CHOOSE p \in Written : \A q \in Written : started[p] <= started[q]
       IN  files[oldest][Len(files[oldest])].root

LoadedRoot ==
  IF Written = {} THEN Genesis
  ELSE LET newest == CHOOSE p \in Written : \A q \in Written : started[q] <= started[p]
       IN  files[newest][Len(files[newest])].root

Restart ==
  /\ ~ alive /\ Process < MaxProcesses
  /\ \A p \in 1 .. Process : started[p] # clock
  /\ started' = Append(started, clock)
  /\ alive' = TRUE
  /\ chainRoot' = LoadedRoot
  /\ lastHash' = Genesis
  /\ files' = Append(files, <<>>)
  /\ signed' = Append(signed, <<>>)
  /\ UNCHANGED <<buffer, flushed, disturbances>>

Next ==
  \/ SetClock
  \/ /\ \/ Crash
        \/ \E n \in Snapshots : SnapshotArbitrumBlock(n) \/ BlockArrives(n) \/ BlockFails(n)
     /\ UNCHANGED clock
  \/ /\ \/ \E event \in Events : Log(event) \/ LogSigned(event)
        \/ Close \/ WriteLine \/ WriteFails \/ EndFlush \/ Restart
     /\ UNCHANGED <<clock, snapshot>>

Spec == Init /\ [][Next]_vars

-------------------------------------------------------------------------------
EntriesOf(lines) == [i \in 1 .. Len(lines) |-> AsJson(lines[i].entry)]

(* verifyAgainstFile, which starts from a root of zeros.                   *)
VerifyAgainstFile(lines) ==
  /\ VerifyChain(EntriesOf(lines))
  /\ \A i \in 1 .. Len(lines) :
       lines[i].root =
         ChainRoot(IF i = 1 THEN Genesis ELSE lines[i - 1].root, lines[i].entry.hash)

TypeOK ==
  /\ alive \in BOOLEAN /\ disturbances \in 0 .. MaxDisturbances
  /\ clock \in 1 .. MaxClock /\ started \in Seq(1 .. MaxClock)
  /\ Len(files) = Len(signed) /\ Len(files) = Len(started) /\ Len(files) \in 1 .. MaxProcesses
  /\ flushed \in NoFlush .. Len(buffer)
  /\ \A i \in 1 .. Len(buffer) :
       LET event == buffer[i].entry.event
       IN  event \in Events \/ event = SnapshotOf(event.json[2])

(* What a process has signed is what its file and its buffer hold, in the  *)
(* order signed and each entry once, also in the middle of a flush, as     *)
(* long as no write failed and nothing was logged unsigned.                *)
NothingLostOrDoubled ==
  (alive /\ disturbances = 0) =>
    LET unwritten == SubSeq(buffer, IF flushed = NoFlush THEN 1 ELSE flushed + 1, Len(buffer))
    IN  signed[Process] = EntriesOf(File \o unwritten)

(* Also when writes fail and unsigned entries are logged in between, what  *)
(* the running process has signed is on disk or still in the buffer.       *)
AtLeastOnce ==
  alive => \A k \in 1 .. Len(signed[Process]) :
    \/ \E i \in 1 .. Len(File) : File[i].entry = signed[Process][k]
    \/ \E i \in 1 .. Len(buffer) : AsJson(buffer[i].entry) = signed[Process][k]

(* A crash loses the newest entries of a process only, and no more of them *)
(* than flushInterval.                                                     *)
BoundedLoss ==
  disturbances = 0 => \A p \in 1 .. Process :
    /\ EntriesOf(files[p]) = SubSeq(signed[p], 1, Len(files[p]))
    /\ p < Process \/ ~ alive =>
         Len(signed[p]) - Len(files[p]) <= (IF FlushThreshold = 0 THEN 1 ELSE FlushThreshold)

(* What was signed is lost in a crash only, and then only the newest few.  *)
LossBounded == TypeOK /\ NothingLostOrDoubled /\ AtLeastOnce /\ BoundedLoss

StartedInOrder == \A p, q \in 1 .. Process : p < q => started[p] < started[q]

(* The chain roots on disk are one chain through all files, whenever the   *)
(* processes crashed, so that a file that was removed or cut off leaves a  *)
(* gap - as long as no process started at an earlier time than one before  *)
(* it: after the clock was set back, the name that sorts last is not that  *)
(* of the last process (compliance.ts:82, 90).                             *)
RootsContinue ==
  disturbances = 0 /\ StartedInOrder => \A p \in 1 .. Process : \A i \in 1 .. Len(files[p]) :
    LET before == {q \in 1 .. p - 1 : files[q] # <<>>}
        last   == CHOOSE q \in before : \A r \in before : r <= q
        previous == IF i > 1 THEN files[p][i - 1].root
                    ELSE IF before = {} THEN Genesis
                    ELSE files[last][Len(files[last])].root
    IN  files[p][i].root = ChainRoot(previous, files[p][i].entry.hash)

(* A snapshot on disk names the very root its own line continues, whatever *)
(* was signed while the block was awaited and whatever failed: the block   *)
(* vouches for all lines above it (compliance.ts:219-227).                 *)
SnapshotNamesRoot ==
  \A p \in 1 .. Process : \A i \in 1 .. Len(files[p]) :
    LET entry == files[p][i].entry
    IN  entry.event.json \notin {e.json : e \in Events} =>
          files[p][i].root = ChainRoot(entry.event.json[2], entry.hash)

(* The file of the first process verifies at every moment, in the middle   *)
(* of a flush and after a crash, unless the clock was set back between two *)
(* of its entries, which verification takes for tampering.                 *)
FirstFileVerifies ==
  disturbances = 0 =>
    (VerifyAgainstFile(files[1]) <=>
       \A i \in 2 .. Len(files[1]) :
         files[1][i - 1].entry.timestamp <= files[1][i].entry.timestamp)

(* What is on disk proves itself: across all files, within the first, and  *)
(* where a snapshot vouches for the lines above it.                        *)
RootsVerify == RootsContinue /\ SnapshotNamesRoot /\ FirstFileVerifies

===============================================================================
