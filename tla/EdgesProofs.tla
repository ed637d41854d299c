------------------------------- MODULE EdgesProofs -------------------------------
(***************************************************************************)
(* The programs around an instance, for any number of files, processes,    *)
(* requests, users and tabs: what a crash of PersistedAuditLogger can lose *)
(* and that its chain roots continue each other; that the wrappers let     *)
(* nothing unscanned through; that the command line exits 0 only for clean *)
(* files; that the server's books say what has happened to its requests;   *)
(* and that a tab of the dashboard shows what is its user's.  They share   *)
(* nothing but the lemmas on sequences, sets and sums.                     *)
(***************************************************************************)
EXTENDS PersistedAudit, Edges, WebSession,
        SequenceTheorems, WellFoundedInduction, NaturalsInduction, FiniteSetTheorems, TLAPS

(***************************************************************************)
(* Audit files.                                                            *)
(***************************************************************************)
IsSeq(s) == s \in Seq({s[i] : i \in 1 .. Len(s)})

(* A list for each process.                                                *)
Lists(ss) == IsSeq(ss) /\ \A p \in 1 .. Len(ss) : IsSeq(ss[p])

(***************************************************************************)
(* Sequences.                                                              *)
(***************************************************************************)

(* A sequence of anything is a sequence of its own elements.               *)
LEMMA SeqIsSeq ==
  ASSUME NEW S, NEW s \in Seq(S)
  PROVE  IsSeq(s)
BY DEF IsSeq

(* The length of a list is a number, 0 only for the empty one.             *)
LEMMA LenOfSeq ==
  ASSUME NEW s, IsSeq(s)
  PROVE  Len(s) \in Nat /\ (s = <<>> <=> Len(s) = 0)
BY EmptySeq DEF IsSeq

(* The empty list is one.                                                  *)
LEMMA EmptyIsSeq == IsSeq(<<>>) /\ Len(<<>>) = 0
BY EmptySeq, SeqIsSeq

(* Append keeps the elements there are and adds one.                       *)
LEMMA AppendIsSeq ==
  ASSUME NEW s, IsSeq(s), NEW e
  PROVE  /\ IsSeq(Append(s, e))
         /\ Len(s) \in Nat
         /\ Len(Append(s, e)) = Len(s) + 1
         /\ \A i \in 1 .. Len(s) : Append(s, e)[i] = s[i]
         /\ Append(s, e)[Len(s) + 1] = e
<1> DEFINE S == {s[i] : i \in 1 .. Len(s)} \cup {e}
<1>1. s \in Seq(S)
  BY SeqMonotonic DEF IsSeq
<1>2. Append(s, e) \in Seq(S)
  BY <1>1
<1>3. IsSeq(Append(s, e))
  BY <1>2, SeqIsSeq
<1> QED
  BY <1>1, <1>3

(* The newest list grows.                                                  *)
Grown(ss, e) == [ss EXCEPT ![Len(ss)] = Append(ss[Len(ss)], e)]

(* The lists before the newest stay, the newest has one element more.      *)
LEMMA GrowNewest ==
  ASSUME NEW ss, Lists(ss), Len(ss) >= 1, NEW e
  PROVE  /\ Lists(Grown(ss, e)) /\ Len(Grown(ss, e)) = Len(ss) /\ Len(ss) \in Nat
         /\ \A p \in 1 .. Len(ss) - 1 : Grown(ss, e)[p] = ss[p]
         /\ Grown(ss, e)[Len(ss)] = Append(ss[Len(ss)], e)
<1> DEFINE n == Len(ss)
           x == Append(ss[n], e)
           S == {ss[i] : i \in 1 .. Len(ss)} \cup {x}
           tt == Grown(ss, e)
<1>1. n \in Nat /\ n \in 1 .. Len(ss) /\ IsSeq(ss[n])
  BY LenOfSeq DEF Lists
<1>2. ss \in Seq(S) /\ x \in S
  BY SeqMonotonic DEF Lists, IsSeq
<1>3. tt = [ss EXCEPT ![n] = x]
  BY DEF Grown
<1> HIDE DEF S, tt
<1>4. IsSeq(x)
  BY <1>1, AppendIsSeq
<1> HIDE DEF x
<1>5. /\ tt \in Seq(S) /\ Len(tt) = Len(ss)
      /\ \A j \in 1 .. Len(ss) : tt[j] = IF j = n THEN x ELSE ss[j]
  BY ONLY <1>1, <1>2, <1>3
<1>6. Lists(tt)
  BY <1>4, <1>5, SeqIsSeq DEF Lists
<1>7. (\A p \in 1 .. n - 1 : tt[p] = ss[p]) /\ tt[n] = x
  BY <1>1, <1>5
<1> QED
  BY <1>1, <1>5, <1>6, <1>7 DEF x, tt

(* Another process brings an empty list.                                   *)
LEMMA AddList ==
  ASSUME NEW ss, Lists(ss)
  PROVE  /\ Lists(Append(ss, <<>>)) /\ Len(ss) \in Nat
         /\ Len(Append(ss, <<>>)) = Len(ss) + 1
         /\ \A p \in 1 .. Len(ss) : Append(ss, <<>>)[p] = ss[p]
         /\ Append(ss, <<>>)[Len(ss) + 1] = <<>>
<1> DEFINE tt == Append(ss, <<>>)
<1>1. /\ IsSeq(tt) /\ Len(ss) \in Nat /\ Len(tt) = Len(ss) + 1
      /\ \A p \in 1 .. Len(ss) : tt[p] = ss[p]
      /\ tt[Len(ss) + 1] = <<>>
  BY AppendIsSeq DEF Lists
<1> HIDE DEF tt
<1>2. Lists(tt)
  BY <1>1, EmptyIsSeq DEF Lists
<1> QED
  BY <1>1, <1>2 DEF tt

(***************************************************************************)
(* The newest file there is, and the root that its last line holds.        *)
(***************************************************************************)
Upto(fs, n) == {p \in 1 .. n : fs[p] # <<>>}

Newest(fs, times, n) ==
  CHOOSE p \in Upto(fs, n) : \A q \in Upto(fs, n) : times[q] <= times[p]

RootUpto(fs, times, n) ==
  IF Upto(fs, n) = {} THEN Genesis
  ELSE fs[Newest(fs, times, n)][Len(fs[Newest(fs, times, n)])].root

(* Of a set of numbered files that is not empty, one has the last name.    *)
LEMMA NewestExists ==
  ASSUME NEW M \in Nat, NEW S, S # {}, NEW times, \A p \in S : times[p] \in 0 .. M
  PROVE  \E p \in S : \A q \in S : times[q] <= times[p]
<1> DEFINE T == {M - times[p] : p \in S}
           R == OpToRel(<, Nat)
<1>1. T \subseteq Nat /\ T # {}
  <2>1. \A p \in S : M - times[p] \in Nat
    OBVIOUS
  <2> QED
    BY <2>1
<1>2. IsWellFoundedOn(R, Nat)
  BY NatLessThanWellFounded
<1>3. \A x \in Nat, y \in Nat : <<x, y>> \in R <=> x < y
  BY DEF OpToRel
<1> HIDE DEF T, R
<1>4. PICK x \in T : \A y \in T : ~ (<<y, x>> \in R)
  BY <1>1, <1>2, WFMin
<1>5. PICK p \in S : x = M - times[p]
  BY DEF T
<1>6. ASSUME NEW q \in S PROVE times[q] <= times[p]
  <2>1. M - times[q] \in T
    BY DEF T
  <2>2. ~ (M - times[q] < M - times[p])
    BY <1>1, <1>3, <1>4, <1>5, <2>1
  <2> QED
    BY <2>2
<1> QED
  BY <1>6

(* It only depends on the files up to there and their names.               *)
LEMMA RootUptoSame ==
  ASSUME NEW n \in Nat, NEW fs, NEW gs, NEW times, NEW others, NEW M \in Nat,
         \A p \in 1 .. n : fs[p] = gs[p] /\ times[p] = others[p] /\ times[p] \in 0 .. M
  PROVE  RootUpto(fs, times, n) = RootUpto(gs, others, n)
<1> DEFINE U == Upto(fs, n)
           newest == Newest(fs, times, n)
           other  == Newest(gs, others, n)
<1>1. Upto(gs, n) = U /\ U \subseteq 1 .. n
  BY DEF Upto
<1>2. U # {} => newest \in 1 .. n /\ other = newest
  <2> SUFFICES ASSUME U # {} PROVE newest \in 1 .. n /\ other = newest
    OBVIOUS
  <2>1. \E p \in U : \A q \in U : times[q] <= times[p]
    BY <1>1, NewestExists
  <2>2. newest \in 1 .. n
    BY <1>1, <2>1 DEF Newest
  <2>3. \A p \in U : times[p] = others[p]
    BY <1>1
  <2>4. \A p : (p \in U /\ \A q \in U : times[q] <= times[p]) <=>
               (p \in U /\ \A q \in U : others[q] <= others[p])
    BY <2>3
  <2>5. other = newest
    BY <1>1, <2>4 DEF Newest
  <2> QED
    BY <2>2, <2>5
<1>3. U # {} => gs[other] = fs[newest]
  BY <1>2
<1> HIDE DEF newest, other
<1> QED
  BY <1>1, <1>3 DEF RootUpto, newest, other

(* If the names are in order, the last name is that of the last process.   *)
LEMMA NewestInOrder ==
  ASSUME NEW n \in Nat, NEW fs, NEW times,
         \A p \in 1 .. n : times[p] \in Nat,
         \A p, q \in 1 .. n : p < q => times[p] < times[q]
  PROVE  Newest(fs, times, n) = CHOOSE p \in Upto(fs, n) : \A q \in Upto(fs, n) : q <= p
<1> DEFINE U == Upto(fs, n)
<1>1. U \subseteq 1 .. n
  BY DEF Upto
<1>2. ASSUME NEW p \in U, NEW q \in U PROVE q <= p <=> times[q] <= times[p]
  <2>1. p \in 1 .. n /\ q \in 1 .. n /\ times[p] \in Nat /\ times[q] \in Nat
    BY <1>1
  <2>2. (p < q => times[p] < times[q]) /\ (q < p => times[q] < times[p])
    BY <2>1
  <2> QED
    BY <2>1, <2>2
<1>3. \A p : (p \in U /\ \A q \in U : q <= p) <=> (p \in U /\ \A q \in U : times[q] <= times[p])
  BY <1>2
<1> QED
  BY <1>3 DEF Newest

(* A first process starts from the genesis hash.                           *)
LEMMA RootUptoNone == ASSUME NEW fs, NEW times PROVE RootUpto(fs, times, 0) = Genesis
BY DEF RootUpto, Upto

(* The root a process has started from, and the one the running process    *)
(* has on disk.                                                            *)
Before(p) == RootUpto(files, started, p - 1)

Reached == IF Len(File) = 0 THEN Before(Process) ELSE File[Len(File)].root

(* Both the code and the invariant read the disk that way.                 *)
LEMMA LoadedRootIs == LoadedRoot = RootUpto(files, started, Process)
BY DEF LoadedRoot, RootUpto, Newest, Upto, Written

(***************************************************************************)
(* The inductive invariant.                                                *)
(***************************************************************************)

(* How much of the buffer the flush in progress has put on disk, and how   *)
(* long the buffer may get before a flush.                                 *)
Done == IF flushed = NoFlush THEN 0 ELSE flushed
Cap  == IF FlushThreshold = 0 THEN 1 ELSE FlushThreshold

Shape ==
  /\ TypeOK
  /\ Lists(files) /\ Lists(signed) /\ IsSeq(buffer)
  /\ ~ alive => buffer = <<>> /\ flushed = NoFlush

(* An entry that is not an event of a caller names the root it continues.  *)
NamesRoot(line) ==
  line.entry.event.json \notin {e.json : e \in Events} =>
    line.root = ChainRoot(line.entry.event.json[2], line.entry.hash)

NamesRoots ==
  /\ \A p \in 1 .. Process : \A i \in 1 .. Len(files[p]) : NamesRoot(files[p][i])
  /\ \A i \in 1 .. Len(buffer) : NamesRoot(buffer[i])

(* A file holds nothing but JSON.                                          *)
AllJson ==
  \A p \in 1 .. Process : \A i \in 1 .. Len(files[p]) :
    AsJson(files[p][i].entry) = files[p][i].entry

(* What a flush has counted as written is in the file.                     *)
FlushedIsOnDisk ==
  \A i \in 1 .. Done : \E j \in 1 .. Len(File) : File[j].entry = AsJson(buffer[i].entry)

(* Of each process, a beginning of what it signed is on disk ...           *)
OnDisk ==
  \A p \in 1 .. Process :
    /\ Len(files[p]) <= Len(signed[p])
    /\ \A i \in 1 .. Len(files[p]) : files[p][i].entry = signed[p][i]

(* ... the rest of the running one's is in the buffer ...                  *)
Unwritten ==
  alive =>
    /\ Len(signed[Process]) = Len(File) + (Len(buffer) - Done)
    /\ \A i \in Done + 1 .. Len(buffer) :
         AsJson(buffer[i].entry) = signed[Process][Len(File) + (i - Done)]

(* ... and what the others had there is lost.                              *)
LossSmall ==
  /\ \A p \in 1 .. Process :
       p < Process \/ ~ alive => Len(signed[p]) - Len(files[p]) <= Cap
  /\ Len(buffer) <= Cap
  /\ flushed = NoFlush => Len(buffer) < Cap

(* The entries of each process are one chain, which lastHash ends.         *)
Link(s, i) ==
  /\ s[i].prevHash = IF i = 1 THEN Genesis ELSE s[i - 1].hash
  /\ s[i].hash = Recomputed(s[i])

Chains ==
  /\ \A p \in 1 .. Process : \A i \in 1 .. Len(signed[p]) : Link(signed[p], i)
  /\ alive => lastHash = IF Len(signed[Process]) = 0 THEN Genesis
                         ELSE signed[Process][Len(signed[Process])].hash

(* The roots of all processes are one chain: on disk, and from there       *)
(* through the part of the buffer that is not written to chainRoot.        *)
RootOnDisk(p, i) ==
  files[p][i].root =
    ChainRoot(IF i = 1 THEN Before(p) ELSE files[p][i - 1].root, files[p][i].entry.hash)

RootsOnDisk == \A p \in 1 .. Process : \A i \in 1 .. Len(files[p]) : RootOnDisk(p, i)

RootsBuffered ==
  alive =>
    /\ \A i \in Done + 1 .. Len(buffer) :
         buffer[i].root =
           ChainRoot(IF i = Done + 1 THEN Reached ELSE buffer[i - 1].root, buffer[i].entry.hash)
    /\ chainRoot = IF Len(buffer) = Done THEN Reached ELSE buffer[Len(buffer)].root

Calm == OnDisk /\ Unwritten /\ LossSmall /\ Chains /\ RootsOnDisk /\ RootsBuffered

FilesIInv ==
  /\ Shape
  /\ NamesRoots /\ AllJson
  /\ AtLeastOnce
  /\ FlushedIsOnDisk
  /\ disturbances = 0 => Calm

(* What the shape of the state says of the present process: its number,    *)
(* its file, and the lengths of its lists.                                 *)
LEMMA ShapeFields ==
  ASSUME Shape
  PROVE  /\ Process \in Nat \ {0} /\ Process \in 1 .. MaxProcesses
         /\ Len(files) = Process /\ Len(signed) = Process
         /\ Len(buffer) \in Nat /\ IsSeq(buffer) /\ Done \in 0 .. Len(buffer)
         /\ \A p \in 1 .. Process :
              /\ IsSeq(files[p]) /\ Len(files[p]) \in Nat
              /\ IsSeq(signed[p]) /\ Len(signed[p]) \in Nat
         /\ Process \in 1 .. Process /\ File = files[Process]
         /\ IsSeq(File) /\ Len(File) \in Nat /\ Len(signed[Process]) \in Nat
         /\ disturbances \in Nat /\ FlushThreshold \in Nat /\ Cap \in Nat \ {0}
         /\ Len(started) = Process /\ started \in Seq(1 .. MaxClock) /\ MaxClock \in Nat
         /\ \A p \in 1 .. Process : started[p] \in 0 .. MaxClock /\ started[p] \in Nat
<1>1. Len(files) = Process /\ Len(signed) = Process /\ Process \in 1 .. MaxProcesses
  BY DEF Shape, TypeOK, Process
<1>2. /\ MaxProcesses \in Nat /\ MaxDisturbances \in Nat /\ FlushThreshold \in Nat
      /\ Cap \in Nat \ {0}
  BY PersistedAuditAssumption DEF Cap
<1>3. Len(buffer) \in Nat /\ IsSeq(buffer)
  BY LenOfSeq DEF Shape
<1>4. Done \in 0 .. Len(buffer)
  BY <1>3 DEF Shape, TypeOK, Done, NoFlush
<1>5. \A p \in 1 .. Process :
        /\ IsSeq(files[p]) /\ Len(files[p]) \in Nat
        /\ IsSeq(signed[p]) /\ Len(signed[p]) \in Nat
  BY <1>1, LenOfSeq DEF Shape, Lists
<1>6. disturbances \in Nat
  BY <1>2 DEF Shape, TypeOK
<1>7. Process \in Nat \ {0} /\ Process \in 1 .. Process
  BY <1>1, <1>2
<1>8. /\ Len(started) = Process /\ started \in Seq(1 .. MaxClock) /\ MaxClock \in Nat
      /\ \A p \in 1 .. Process : started[p] \in 0 .. MaxClock /\ started[p] \in Nat
  <2>1. Len(started) = Process /\ started \in Seq(1 .. MaxClock) /\ MaxClock \in Nat
    BY PersistedAuditAssumption DEF Shape, TypeOK, Process
  <2> QED
    BY <2>1
<1> QED
  BY <1>1, <1>2, <1>3, <1>4, <1>5, <1>6, <1>7, <1>8 DEF File

(* What JSON keeps of an entry.                                            *)
LEMMA JsonKeeps ==
  ASSUME NEW e
  PROVE  /\ AsJson(AsJson(e)) = AsJson(e)
         /\ AsJson(e).event.json = e.event.json /\ AsJson(e).timestamp = e.timestamp
         /\ AsJson(e).prevHash = e.prevHash /\ AsJson(e).hash = e.hash
         /\ Recomputed(AsJson(e)) = Recomputed(e)
BY DEF AsJson, EventOf, Recomputed, Hash

(* Steps that leave the entries, signed and written, alone.                *)
LEMMA DisturbedStep ==
  ASSUME FilesIInv, (\E event \in Events : Log(event)) \/ WriteFails,
         UNCHANGED clock
  PROVE  FilesIInv'
<1>1. /\ UNCHANGED <<clock, started, files, alive, buffer, signed>> /\ alive
      /\ disturbances' = disturbances + 1 /\ disturbances < MaxDisturbances
      /\ flushed' = NoFlush
  BY DEF Log, WriteFails, Idle
<1>2. Shape /\ disturbances \in Nat /\ Len(buffer) \in Nat
  BY ShapeFields DEF FilesIInv
<1>3. Shape'
  BY <1>1, <1>2, PersistedAuditAssumption DEF Shape, TypeOK, NoFlush, Lists
<1>4. NamesRoots' /\ AllJson' /\ AtLeastOnce'
  BY <1>1 DEF FilesIInv, NamesRoots, AllJson, AtLeastOnce, Process, File
<1>5. FlushedIsOnDisk'
  BY <1>1 DEF FlushedIsOnDisk, Done
<1>6. disturbances' # 0
  BY <1>1, <1>2
<1> QED
  BY <1>3, <1>4, <1>5, <1>6 DEF FilesIInv

(* A flush begins.                                                         *)
LEMMA CloseStep ==
  ASSUME FilesIInv, Close, UNCHANGED clock
  PROVE  FilesIInv'
<1>1. /\ UNCHANGED <<clock, started, files, alive, lastHash, chainRoot, buffer, signed, disturbances>>
      /\ alive /\ flushed = NoFlush /\ flushed' = 0 /\ Done' = Done
  BY DEF Close, Idle, Done, NoFlush
<1>2. Shape /\ Len(buffer) \in Nat
  BY ShapeFields DEF FilesIInv
<1>3. Shape'
  BY <1>1, <1>2 DEF Shape, TypeOK, NoFlush, Lists
<1>4. NamesRoots' /\ AllJson' /\ AtLeastOnce' /\ FlushedIsOnDisk'
  BY <1>1 DEF FilesIInv, NamesRoots, AllJson, AtLeastOnce, FlushedIsOnDisk, Process, File
<1>5. Calm => Calm'
  BY ZenonT(60), <1>1 DEF Calm, OnDisk, Unwritten, LossSmall, Chains, Link, RootsOnDisk, RootOnDisk,
     RootsBuffered, Before, Reached, Process, File, NoFlush
<1> QED
  BY <1>1, <1>3, <1>4, <1>5 DEF FilesIInv

(* The flush is over: nothing that was in the buffer is missing on disk.   *)
LEMMA EndFlushStep ==
  ASSUME FilesIInv, EndFlush, UNCHANGED clock
  PROVE  FilesIInv'
<1>1. /\ UNCHANGED <<clock, started, files, alive, lastHash, chainRoot, signed, disturbances>>
      /\ alive /\ flushed = Len(buffer) /\ flushed' = NoFlush /\ buffer' = <<>>
  BY DEF EndFlush
<1>2. Shape
  BY DEF FilesIInv
<1>3. Len(buffer) \in Nat /\ Len(buffer') = 0 /\ IsSeq(buffer') /\ Cap \in Nat \ {0}
      /\ Len(File) \in Nat
  BY <1>1, <1>2, ShapeFields, EmptyIsSeq
<1>4. Done = Len(buffer) /\ Done' = 0
  BY <1>1, <1>3 DEF Done, NoFlush
<1>5. Shape'
  BY <1>1, <1>2, <1>3 DEF Shape, TypeOK, NoFlush, Lists
<1>6. NamesRoots' /\ AllJson' /\ FlushedIsOnDisk'
  BY <1>1, <1>3, <1>4 DEF FilesIInv, NamesRoots, AllJson, FlushedIsOnDisk, Process
<1>7. AtLeastOnce'
  <2> SUFFICES ASSUME NEW k \in 1 .. Len(signed[Process])
               PROVE  \E i \in 1 .. Len(File) : File[i].entry = signed[Process][k]
    BY <1>1 DEF AtLeastOnce, Process, File
  <2>1. CASE \E i \in 1 .. Len(File) : File[i].entry = signed[Process][k]
    BY <2>1
  <2>2. CASE \E i \in 1 .. Len(buffer) : AsJson(buffer[i].entry) = signed[Process][k]
    BY <1>4, <2>2 DEF FilesIInv, FlushedIsOnDisk
  <2> QED
    BY <1>1, <2>1, <2>2 DEF FilesIInv, AtLeastOnce
<1>8. Calm => Calm'
  <2>1. Reached' = Reached /\ \A p \in 1 .. Process : Before(p)' = Before(p)
    BY <1>1 DEF Reached, Before, Process, File
  <2> QED
    BY <1>1, <1>3, <1>4, <2>1 DEF Calm, OnDisk, Unwritten, LossSmall, Chains, Link, RootsOnDisk,
       RootOnDisk, RootsBuffered, Process, File
<1> QED
  BY <1>1, <1>5, <1>6, <1>7, <1>8 DEF FilesIInv

(* A crash: what was only in the buffer is lost.                           *)
LEMMA CrashStep ==
  ASSUME FilesIInv, Crash, UNCHANGED clock
  PROVE  FilesIInv'
<1>1. /\ UNCHANGED <<clock, started, files, lastHash, chainRoot, signed, disturbances>>
      /\ alive /\ alive' = FALSE /\ flushed' = NoFlush /\ buffer' = <<>>
  BY DEF Crash
<1>2. Shape
  BY DEF FilesIInv
<1>3. /\ Len(buffer) \in Nat /\ Len(buffer') = 0 /\ IsSeq(buffer') /\ Cap \in Nat \ {0}
      /\ Len(File) \in Nat /\ Done' = 0 /\ Done \in 0 .. Len(buffer)
      /\ Process \in Nat \ {0} /\ File = files[Process] /\ Len(signed[Process]) \in Nat
  BY <1>1, <1>2, ShapeFields, EmptyIsSeq DEF Done
<1>4. Shape'
  <2>1. alive' \in BOOLEAN
    BY <1>1
  <2>2. flushed' \in NoFlush .. Len(buffer')
    BY <1>1, <1>3 DEF NoFlush
  <2> QED
    BY <1>1, <1>2, <1>3, <2>1, <2>2 DEF Shape, TypeOK, Lists
<1>5. NamesRoots' /\ AllJson' /\ FlushedIsOnDisk' /\ AtLeastOnce'
  <2>1. NamesRoots' /\ AllJson'
    BY <1>1, <1>3 DEF FilesIInv, NamesRoots, AllJson, Process
  <2>2. FlushedIsOnDisk'
    BY <1>3 DEF FlushedIsOnDisk
  <2> QED
    BY <1>1, <2>1, <2>2 DEF AtLeastOnce
<1>6. ASSUME Calm PROVE Calm'
  <2>1. LossSmall'
    <3>1. Len(signed[Process]) - Len(File) <= Cap
      BY <1>1, <1>3, <1>6 DEF Calm, Unwritten, LossSmall
    <3>2. \A p \in 1 .. Process : Len(signed[p]) - Len(files[p]) <= Cap
      BY <1>1, <1>3, <1>6, <3>1 DEF Calm, LossSmall
    <3>3. Len(buffer') < Cap
      BY <1>3
    <3> QED
      <4>1. Process' = Process /\ Cap' = Cap
        BY <1>1 DEF Process, Cap
      <4>2. Len(buffer') <= Cap
        BY <1>3
      <4> QED
        BY <1>1, <3>2, <3>3, <4>1, <4>2 DEF LossSmall
  <2>2. OnDisk' /\ Chains' /\ RootsOnDisk'
    BY <1>1, <1>6 DEF Calm, OnDisk, Chains, Link, RootsOnDisk, RootOnDisk, Before, Process
  <2>3. Unwritten' /\ RootsBuffered'
    BY <1>1 DEF Unwritten, RootsBuffered
  <2> QED
    BY <2>1, <2>2, <2>3 DEF Calm
<1> QED
  BY <1>1, <1>4, <1>5, <1>6 DEF FilesIInv

(* An entry is signed: it continues the hash chain and the chain of roots, *)
(* and is in the buffer.                                                   *)
LEMMA LogSignedStep ==
  ASSUME FilesIInv, NEW event, event \in Events \/ event = SnapshotOf(chainRoot),
         LogSigned(event), UNCHANGED clock
  PROVE  FilesIInv'
<1> DEFINE e == NewEntry(event, clock, lastHash)
           j == AsJson(e)
           line == Signed(e)
           n == Process
           b == Len(buffer)
           m == Len(signed[n])
<1>1. /\ Shape /\ n \in Nat \ {0} /\ n \in 1 .. n /\ b \in Nat /\ m \in Nat
      /\ Len(files) = n /\ Len(signed) = n /\ File = files[n] /\ Len(File) \in Nat
      /\ FlushThreshold \in Nat /\ Cap \in Nat \ {0} /\ IsSeq(signed[n])
      /\ \A p \in 1 .. n : Len(files[p]) \in Nat /\ Len(signed[p]) \in Nat
  BY ShapeFields DEF FilesIInv
<1>2. /\ UNCHANGED <<clock, started, files, alive, disturbances>> /\ alive /\ flushed = NoFlush
      /\ lastHash' = e.hash /\ chainRoot' = line.root
      /\ buffer' = Append(buffer, line)
      /\ flushed' = (IF Len(buffer') >= FlushThreshold THEN 0 ELSE NoFlush)
      /\ signed' = [signed EXCEPT ![n] = Append(@, j)]
  BY DEF LogSigned, Idle
<1>3. /\ e.event = event /\ e.prevHash = lastHash /\ e.hash = Recomputed(e)
      /\ line.entry = e /\ line.root = ChainRoot(chainRoot, e.hash)
  BY DEF NewEntry, Recomputed, Signed
<1>4. SnapshotOf(chainRoot).json[2] = chainRoot
  BY DEF SnapshotOf, EventOf
<1>14. j.hash = e.hash /\ j.prevHash = lastHash /\ Recomputed(j) = j.hash
  BY <1>3, JsonKeeps
<1> HIDE DEF e, j, line
<1>5. /\ IsSeq(buffer') /\ Len(buffer') = b + 1
      /\ \A i \in 1 .. b : buffer'[i] = buffer[i]
      /\ buffer'[b + 1] = line
  BY <1>1, <1>2, AppendIsSeq DEF Shape
<1>6. /\ Lists(signed') /\ Len(signed') = n
      /\ \A p \in 1 .. n - 1 : signed'[p] = signed[p]
      /\ signed'[n] = Append(signed[n], j)
  <2>1. Lists(signed) /\ Len(signed) = n /\ Len(signed) >= 1
    BY <1>1 DEF Shape
  <2>2. signed' = Grown(signed, j)
    BY <1>1, <1>2 DEF Grown
  <2> QED
    BY <2>1, <2>2, GrowNewest
<1>7. /\ Len(signed'[n]) = m + 1
      /\ \A i \in 1 .. m : signed'[n][i] = signed[n][i]
      /\ signed'[n][m + 1] = j
  BY <1>1, <1>6, AppendIsSeq
<1>8. Done = 0 /\ Done' = 0 /\ Process' = n /\ File' = File /\ Cap' = Cap
  BY <1>2 DEF Done, NoFlush, Process, File, Cap
<1>9. Shape'
  <2>1. flushed' \in NoFlush .. Len(buffer')
    BY <1>1, <1>2, <1>5 DEF NoFlush
  <2>2. ASSUME NEW i \in 1 .. Len(buffer')
        PROVE  LET ev == buffer'[i].entry.event
               IN  ev \in Events \/ ev = SnapshotOf(ev.json[2])
    <3>1. CASE i \in 1 .. b
      BY <1>1, <1>5, <3>1 DEF Shape, TypeOK
    <3>2. CASE i = b + 1
      BY <1>3, <1>4, <1>5, <3>2
    <3> QED
      BY <1>1, <1>5, <3>1, <3>2
  <2>3. TypeOK'
    <3>1. /\ alive' \in BOOLEAN /\ disturbances' \in 0 .. MaxDisturbances
          /\ Len(files') = Len(signed') /\ Len(files') \in 1 .. MaxProcesses
          /\ clock' \in 1 .. MaxClock /\ started' \in Seq(1 .. MaxClock) /\ Len(files') = Len(started')
      BY <1>1, <1>2, <1>6 DEF Shape, TypeOK
    <3> QED
      BY <2>1, <2>2, <3>1 DEF TypeOK
  <2>4. Lists(files) /\ files' = files /\ alive'
    BY <1>1, <1>2 DEF Shape
  <2> QED
    BY <1>5, <1>6, <2>3, <2>4 DEF Shape
<1>10. NamesRoots' /\ AllJson'
  <2>1. NamesRoot(line)
    BY <1>3, <1>4 DEF NamesRoot
  <2>2. \A i \in 1 .. Len(buffer') : NamesRoot(buffer'[i])
    <3>1. \A i \in 1 .. Len(buffer') : i \in 1 .. b \/ i = b + 1
      BY <1>1, <1>5
    <3> QED
      BY <1>5, <2>1, <3>1 DEF FilesIInv, NamesRoots
  <2> QED
    BY <1>2, <1>8, <2>2 DEF FilesIInv, NamesRoots, AllJson
<1>11. AtLeastOnce'
  <2> SUFFICES ASSUME NEW k \in 1 .. Len(signed'[n])
               PROVE  \/ \E i \in 1 .. Len(File) : File[i].entry = signed'[n][k]
                      \/ \E i \in 1 .. Len(buffer') : AsJson(buffer'[i].entry) = signed'[n][k]
    BY <1>8 DEF AtLeastOnce
  <2>1. CASE k \in 1 .. m
    <3>1. \/ \E i \in 1 .. Len(File) : File[i].entry = signed[n][k]
          \/ \E i \in 1 .. b : AsJson(buffer[i].entry) = signed[n][k]
      BY <1>2, <2>1 DEF FilesIInv, AtLeastOnce
    <3>2. \A i \in 1 .. b : i \in 1 .. Len(buffer')
      BY <1>1, <1>5
    <3> QED
      BY <1>5, <1>7, <2>1, <3>1, <3>2
  <2>2. CASE k = m + 1
    <3>1. b + 1 \in 1 .. Len(buffer')
      BY <1>1, <1>5
    <3> QED
      BY <1>3, <1>5, <1>7, <2>2, <3>1 DEF j
  <2> QED
    BY <1>1, <1>7, <2>1, <2>2
<1>12. FlushedIsOnDisk'
  BY <1>8 DEF FlushedIsOnDisk
<1>13. ASSUME Calm PROVE Calm'
  <2>1. \A p \in 1 .. n : p = n \/ p \in 1 .. n - 1
    BY <1>1
  <2>2. OnDisk'
    <3> SUFFICES ASSUME NEW p \in 1 .. n
                 PROVE  /\ Len(files[p]) <= Len(signed'[p])
                        /\ \A i \in 1 .. Len(files[p]) : files[p][i].entry = signed'[p][i]
      BY <1>2, <1>8 DEF OnDisk
    <3>1. /\ Len(files[p]) <= Len(signed[p])
          /\ \A i \in 1 .. Len(files[p]) : files[p][i].entry = signed[p][i]
      BY <1>13 DEF Calm, OnDisk
    <3>2. CASE p = n
      <4>1. \A i \in 1 .. Len(files[n]) : i \in 1 .. m
        BY <1>1, <3>1, <3>2
      <4> QED
        BY <1>1, <1>7, <3>1, <3>2, <4>1
    <3> QED
      BY <1>6, <2>1, <3>1, <3>2
  <2>3. Unwritten'
    <3>1. m = Len(File) + b
      BY <1>1, <1>2, <1>8, <1>13 DEF Calm, Unwritten
    <3>2. Len(signed'[n]) = Len(File) + (Len(buffer') - 0)
      BY <1>1, <1>5, <1>7, <3>1
    <3>3. ASSUME NEW i \in 0 + 1 .. Len(buffer')
          PROVE  AsJson(buffer'[i].entry) = signed'[n][Len(File) + (i - 0)]
      <4>1. CASE i \in 1 .. b
        <5>1. AsJson(buffer[i].entry) = signed[n][Len(File) + (i - 0)]
          BY <1>2, <1>8, <1>13, <4>1 DEF Calm, Unwritten
        <5>2. Len(File) + (i - 0) \in 1 .. m
          BY <1>1, <3>1, <4>1
        <5> QED
          BY <1>5, <1>7, <4>1, <5>1, <5>2
      <4>2. CASE i = b + 1
        <5>1. Len(File) + (i - 0) = m + 1
          BY <1>1, <3>1, <4>2
        <5> QED
          BY <1>3, <1>5, <1>7, <4>2, <5>1 DEF j
      <4> QED
        BY <1>1, <1>5, <4>1, <4>2
    <3> QED
      BY <1>8, <3>2, <3>3 DEF Unwritten
  <2>4. LossSmall'
    <3>1. b < Cap
      BY <1>2, <1>13 DEF Calm, LossSmall
    <3>2. Len(buffer') <= Cap
      BY <1>1, <1>5, <3>1
    <3>3. flushed' = NoFlush => Len(buffer') < Cap
      BY <1>1, <1>2, <1>5 DEF NoFlush, Cap
    <3>4. \A p \in 1 .. n : p < n => Len(signed'[p]) - Len(files[p]) <= Cap
      BY <1>1, <1>6, <1>13 DEF Calm, LossSmall
    <3> QED
      BY <1>2, <1>8, <3>2, <3>3, <3>4 DEF LossSmall
  <2>5. Chains'
    <3>1. lastHash = IF m = 0 THEN Genesis ELSE signed[n][m].hash
      BY <1>2, <1>13 DEF Calm, Chains
    <3>2. ASSUME NEW i \in 1 .. m + 1 PROVE Link(signed'[n], i)
      <4>1. CASE i \in 1 .. m
        <5>1. Link(signed[n], i)
          BY <1>1, <1>13, <4>1 DEF Calm, Chains
        <5>2. signed'[n][i] = signed[n][i] /\ (i # 1 => signed'[n][i - 1] = signed[n][i - 1])
          BY <1>1, <1>7, <4>1
        <5> QED
          BY <5>1, <5>2 DEF Link
      <4>2. CASE i = m + 1
        <5>1. i # 1 => m \in 1 .. m /\ i - 1 = m
          BY <1>1, <4>2
        <5>2. m = 0 <=> i = 1
          BY <1>1, <4>2
        <5> QED
          BY <1>7, <1>14, <3>1, <4>2, <5>1, <5>2 DEF Link
      <4> QED
        BY <1>1, <4>1, <4>2
    <3>3. \A p \in 1 .. n - 1 : \A i \in 1 .. Len(signed'[p]) : Link(signed'[p], i)
      BY <1>1, <1>6, <1>13 DEF Calm, Chains
    <3>4. m + 1 # 0
      BY <1>1
    <3> QED
      BY <1>2, <1>7, <1>8, <1>14, <2>1, <3>2, <3>3, <3>4 DEF Chains
  <2>6. RootsOnDisk'
    BY <1>2, <1>13 DEF Calm, RootsOnDisk, RootOnDisk, Before, Process
  <2>7. RootsBuffered'
    <3>5. Reached' = Reached
      BY <1>2, <1>8 DEF Reached, Before
    <3>1. chainRoot = IF b = 0 THEN Reached ELSE buffer[b].root
      BY <1>2, <1>8, <1>13 DEF Calm, RootsBuffered
    <3>2. ASSUME NEW i \in 0 + 1 .. Len(buffer')
          PROVE  buffer'[i].root =
                   ChainRoot(IF i = 0 + 1 THEN Reached ELSE buffer'[i - 1].root,
                             buffer'[i].entry.hash)
      <4>1. CASE i \in 1 .. b
        <5>1. buffer[i].root =
                ChainRoot(IF i = 0 + 1 THEN Reached ELSE buffer[i - 1].root,
                          buffer[i].entry.hash)
          BY <1>2, <1>8, <1>13, <4>1 DEF Calm, RootsBuffered
        <5>2. buffer'[i] = buffer[i] /\ (i # 0 + 1 => buffer'[i - 1] = buffer[i - 1])
          <6>1. i \in 1 .. b /\ (i # 0 + 1 => i - 1 \in 1 .. b)
            BY <1>1, <4>1
          <6> QED
            BY <1>5, <6>1
        <5> QED
          BY <5>1, <5>2
      <4>2. CASE i = b + 1
        <5>1. i # 0 + 1 => b \in 1 .. b /\ i - 1 = b
          BY <1>1, <4>2
        <5>2. b = 0 <=> i = 0 + 1
          BY <1>1, <4>2
        <5> QED
          BY <1>3, <1>5, <3>1, <4>2, <5>1, <5>2
      <4> QED
        BY <1>1, <1>5, <4>1, <4>2
    <3>3. Len(buffer') # 0 /\ chainRoot' = buffer'[Len(buffer')].root
      BY <1>1, <1>2, <1>5
    <3> QED
      BY <1>2, <1>8, <3>2, <3>3, <3>5 DEF RootsBuffered
  <2> QED
    BY <2>2, <2>3, <2>4, <2>5, <2>6, <2>7 DEF Calm
<1> QED
  BY <1>2, <1>9, <1>10, <1>11, <1>12, <1>13 DEF FilesIInv

(* One line is written: it moves from the buffer to the newest file.       *)
LEMMA WriteLineStep ==
  ASSUME FilesIInv, WriteLine, UNCHANGED clock
  PROVE  FilesIInv'
<1> DEFINE n == Process
           f == flushed
           b == Len(buffer)
           k == Len(File)
           m == Len(signed[n])
           line == Line(buffer[f + 1])
<1>1. /\ Shape /\ n \in Nat \ {0} /\ n \in 1 .. n /\ b \in Nat /\ m \in Nat /\ k \in Nat
      /\ Len(files) = n /\ Len(signed) = n /\ File = files[n] /\ IsSeq(files[n])
      /\ \A p \in 1 .. n : Len(files[p]) \in Nat /\ Len(signed[p]) \in Nat
  BY ShapeFields DEF FilesIInv
<1>2. /\ UNCHANGED <<clock, started, alive, lastHash, chainRoot, buffer, signed, disturbances>> /\ alive
      /\ f \in 0 .. b - 1 /\ flushed' = f + 1
      /\ files' = Grown(files, line)
  BY <1>1 DEF WriteLine, Grown
<1>3. Done = f /\ Done' = f + 1 /\ f + 1 \in 1 .. b /\ f \in Nat
  BY <1>1, <1>2 DEF Done, NoFlush
<1>14. /\ line.entry = AsJson(buffer[f + 1].entry) /\ line.root = buffer[f + 1].root
       /\ line.entry.hash = buffer[f + 1].entry.hash
       /\ line.entry.event.json = buffer[f + 1].entry.event.json
       /\ AsJson(line.entry) = line.entry
  <2>1. line.entry = AsJson(buffer[f + 1].entry) /\ line.root = buffer[f + 1].root
    BY DEF Line
  <2> QED
    BY <2>1, JsonKeeps
<1> HIDE DEF line
<1>4. /\ Lists(files') /\ Len(files') = n
      /\ \A p \in 1 .. n - 1 : files'[p] = files[p]
      /\ files'[n] = Append(files[n], line)
  <2>1. Lists(files) /\ Len(files) = n /\ Len(files) >= 1
    BY <1>1 DEF Shape
  <2> QED
    BY <1>2, <2>1, GrowNewest
<1>5. /\ Len(files'[n]) = k + 1
      /\ \A i \in 1 .. k : files'[n][i] = files[n][i]
      /\ files'[n][k + 1] = line
  BY <1>1, <1>4, AppendIsSeq
<1>6. Process' = n /\ File' = files'[n] /\ Cap' = Cap
  BY <1>1, <1>4 DEF Process, File, Cap
<1>7. \A p \in 1 .. n : p = n \/ p \in 1 .. n - 1
  BY <1>1
<1>8. \A i \in 1 .. k + 1 : i \in 1 .. k \/ i = k + 1
  BY <1>1
<1>9. Shape'
  <2>1. flushed' \in NoFlush .. Len(buffer')
    BY <1>1, <1>2 DEF NoFlush
  <2>2. /\ alive' \in BOOLEAN /\ disturbances' \in 0 .. MaxDisturbances
        /\ Len(files') = Len(signed') /\ Len(files') \in 1 .. MaxProcesses
        /\ clock' \in 1 .. MaxClock /\ started' \in Seq(1 .. MaxClock) /\ Len(files') = Len(started')
    BY <1>1, <1>2, <1>4 DEF Shape, TypeOK
  <2>3. TypeOK'
    BY <1>1, <1>2, <2>1, <2>2 DEF Shape, TypeOK
  <2>4. Lists(signed') /\ IsSeq(buffer') /\ alive'
    BY <1>1, <1>2 DEF Shape
  <2> QED
    BY <1>4, <2>3, <2>4 DEF Shape
<1>10. NamesRoots'
  <2>1. \A p \in 1 .. n - 1 : \A i \in 1 .. Len(files'[p]) : NamesRoot(files'[p][i])
    BY <1>1, <1>4 DEF FilesIInv, NamesRoots
  <2>2. NamesRoot(line)
    <3>1. NamesRoot(buffer[f + 1])
      BY <1>3 DEF FilesIInv, NamesRoots
    <3> QED
      BY <1>14, <3>1 DEF NamesRoot
  <2>3. \A i \in 1 .. Len(files'[n]) : NamesRoot(files'[n][i])
    BY <1>1, <1>5, <1>8, <2>2 DEF FilesIInv, NamesRoots
  <2> QED
    BY <1>2, <1>6, <1>7, <2>1, <2>3 DEF FilesIInv, NamesRoots
<1>15. AllJson'
  <2>1. \A p \in 1 .. n - 1 : \A i \in 1 .. Len(files'[p]) :
          AsJson(files'[p][i].entry) = files'[p][i].entry
    BY <1>1, <1>4 DEF FilesIInv, AllJson
  <2>2. \A i \in 1 .. Len(files'[n]) : AsJson(files'[n][i].entry) = files'[n][i].entry
    BY <1>1, <1>5, <1>8, <1>14 DEF FilesIInv, AllJson
  <2> QED
    BY <1>6, <1>7, <2>1, <2>2 DEF AllJson
<1>11. AtLeastOnce'
  <2> SUFFICES ASSUME NEW j \in 1 .. m
               PROVE  \/ \E i \in 1 .. Len(files'[n]) : files'[n][i].entry = signed[n][j]
                      \/ \E i \in 1 .. b : AsJson(buffer[i].entry) = signed[n][j]
    BY <1>2, <1>6 DEF AtLeastOnce
  <2>1. \A i \in 1 .. k : i \in 1 .. Len(files'[n]) /\ files'[n][i] = files[n][i]
    BY <1>1, <1>5
  <2> QED
    BY <1>1, <1>2, <2>1 DEF FilesIInv, AtLeastOnce
<1>12. FlushedIsOnDisk'
  <2> SUFFICES ASSUME NEW i \in 1 .. f + 1
               PROVE  \E j \in 1 .. k + 1 : files'[n][j].entry = AsJson(buffer[i].entry)
    BY <1>2, <1>3, <1>5, <1>6 DEF FlushedIsOnDisk
  <2>1. CASE i \in 1 .. f
    <3>1. PICK j \in 1 .. k : files[n][j].entry = AsJson(buffer[i].entry)
      BY <1>1, <1>3, <2>1 DEF FilesIInv, FlushedIsOnDisk
    <3>2. j \in 1 .. k + 1 /\ files'[n][j] = files[n][j]
      BY <1>1, <1>5
    <3> QED
      BY <3>1, <3>2
  <2>2. CASE i = f + 1
    <3>1. k + 1 \in 1 .. k + 1
      BY <1>1
    <3> QED
      BY <1>5, <1>14, <2>2, <3>1
  <2> QED
    BY <1>3, <2>1, <2>2
<1>13. ASSUME Calm PROVE Calm'
  <2>1. /\ m = k + (b - f)
        /\ \A i \in f + 1 .. b : AsJson(buffer[i].entry) = signed[n][k + (i - f)]
    BY <1>2, <1>3, <1>13 DEF Calm, Unwritten
  <2>2. line.entry = signed[n][k + 1]
    <3>1. f + 1 \in f + 1 .. b /\ k + ((f + 1) - f) = k + 1
      BY <1>1, <1>3
    <3> QED
      BY <1>14, <2>1, <3>1
  <2>3. OnDisk'
    <3> SUFFICES ASSUME NEW p \in 1 .. n
                 PROVE  /\ Len(files'[p]) <= Len(signed[p])
                        /\ \A i \in 1 .. Len(files'[p]) : files'[p][i].entry = signed[p][i]
      BY <1>2, <1>6 DEF OnDisk
    <3>1. /\ Len(files[p]) <= Len(signed[p])
          /\ \A i \in 1 .. Len(files[p]) : files[p][i].entry = signed[p][i]
      BY <1>13 DEF Calm, OnDisk
    <3>2. CASE p = n
      <4>1. k + 1 <= m
        BY <1>1, <1>3, <2>1
      <4>2. \A i \in 1 .. k + 1 : files'[n][i].entry = signed[n][i]
        BY <1>1, <1>5, <1>8, <2>2, <3>1, <3>2
      <4> QED
        BY <1>5, <3>2, <4>1, <4>2
    <3> QED
      BY <1>4, <1>7, <3>1, <3>2
  <2>4. Unwritten'
    <3>1. m = (k + 1) + (b - (f + 1))
      BY <1>1, <1>3, <2>1
    <3>2. ASSUME NEW i \in (f + 1) + 1 .. b
          PROVE  AsJson(buffer[i].entry) = signed[n][(k + 1) + (i - (f + 1))]
      <4>1. i \in f + 1 .. b /\ (k + 1) + (i - (f + 1)) = k + (i - f)
        BY <1>1, <1>3
      <4> QED
        BY <2>1, <4>1
    <3> QED
      BY <1>2, <1>3, <1>5, <1>6, <3>1, <3>2 DEF Unwritten
  <2>5. LossSmall'
    <3>1. ASSUME NEW p \in 1 .. n, p < n
          PROVE  Len(signed[p]) - Len(files'[p]) <= Cap
      <4>1. p \in 1 .. n - 1
        BY <1>1, <3>1
      <4>2. Len(signed[p]) - Len(files[p]) <= Cap
        BY <1>13, <3>1 DEF Calm, LossSmall
      <4> QED
        BY <1>4, <4>1, <4>2
    <3>2. flushed' # NoFlush
      BY <1>2, <1>3 DEF NoFlush
    <3> QED
      BY <1>2, <1>6, <1>13, <3>1, <3>2 DEF Calm, LossSmall
  <2>6. Chains'
    BY <1>2, <1>6, <1>13 DEF Calm, Chains
  <2> DEFINE onDisk == Reached
  <2>7. /\ \A i \in f + 1 .. b :
            buffer[i].root =
              ChainRoot(IF i = f + 1 THEN onDisk ELSE buffer[i - 1].root, buffer[i].entry.hash)
        /\ chainRoot = buffer[b].root
    <3>1. b # f
      BY <1>1, <1>3
    <3> QED
      BY <1>2, <1>3, <1>13, <3>1 DEF Calm, RootsBuffered
  <2>8. line.root = ChainRoot(onDisk, line.entry.hash)
    <3>1. f + 1 \in f + 1 .. b
      BY <1>1, <1>3
    <3> QED
      BY <1>14, <2>7, <3>1
  <2>9. onDisk = IF k = 0 THEN Before(n) ELSE files[n][k].root
    BY <1>1 DEF Reached
  <2>10. Reached' = line.root
    <3>1. Len(files'[n]) # 0
      BY <1>1, <1>5
    <3> QED
      BY <1>1, <1>5, <1>6, <3>1 DEF Reached
  <2> HIDE DEF onDisk
  <2>11. \A p \in 1 .. n : Before(p)' = Before(p)
    <3> SUFFICES ASSUME NEW p \in 1 .. n
                 PROVE  RootUpto(files', started, p - 1) = RootUpto(files, started, p - 1)
      BY <1>2 DEF Before
    <3>1. p - 1 \in Nat /\ \A q \in 1 .. p - 1 : q \in 1 .. n /\ files'[q] = files[q]
      BY <1>1, <1>4
    <3>2. MaxClock \in Nat /\ \A q \in 1 .. n : started[q] \in 0 .. MaxClock
      BY <1>1, ShapeFields
    <3>3. \A q \in 1 .. p - 1 : files'[q] = files[q] /\ started[q] = started[q] /\ started[q] \in 0 .. MaxClock
      BY <3>1, <3>2
    <3> HIDE DEF n
    <3> QED
      BY <3>1, <3>2, <3>3, RootUptoSame
  <2>12. RootsOnDisk'
    <3> SUFFICES ASSUME NEW p \in 1 .. n, NEW i \in 1 .. Len(files'[p])
                 PROVE  files'[p][i].root =
                          ChainRoot(IF i = 1 THEN Before(p) ELSE files'[p][i - 1].root,
                                    files'[p][i].entry.hash)
      BY <1>6, <2>11 DEF RootsOnDisk, RootOnDisk
    <3>1. \A j \in 1 .. Len(files[p]) :
            files[p][j].root =
              ChainRoot(IF j = 1 THEN Before(p) ELSE files[p][j - 1].root,
                        files[p][j].entry.hash)
      BY <1>13 DEF Calm, RootsOnDisk, RootOnDisk
    <3>2. CASE p \in 1 .. n - 1
      BY <1>4, <3>1, <3>2
    <3>3. CASE p = n /\ i \in 1 .. k
      <4>1. files'[n][i] = files[n][i] /\ (i # 1 => files'[n][i - 1] = files[n][i - 1])
        BY SMTT(30), <1>1, <1>5, <3>3
      <4> QED
        BY <1>1, <3>1, <3>3, <4>1
    <3>4. CASE p = n /\ i = k + 1
      <4>1. i # 1 => k \in 1 .. k /\ i - 1 = k
        BY <1>1, <3>4
      <4>2. i = 1 <=> k = 0
        BY <1>1, <3>4
      <4> QED
        BY <1>1, <1>5, <2>8, <2>9, <3>4, <4>1, <4>2
    <3> QED
      BY <1>5, <1>7, <1>8, <3>2, <3>3, <3>4
  <2>13. RootsBuffered'
    <3>1. ASSUME NEW i \in (f + 1) + 1 .. b
          PROVE  buffer[i].root =
                   ChainRoot(IF i = (f + 1) + 1 THEN line.root ELSE buffer[i - 1].root,
                             buffer[i].entry.hash)
      <4>1. i \in f + 1 .. b /\ i # f + 1 /\ (i = (f + 1) + 1 => i - 1 = f + 1)
        BY <1>1, <1>3
      <4> QED
        BY <1>14, <2>7, <4>1
    <3>2. chainRoot = IF b = f + 1 THEN line.root ELSE buffer[b].root
      BY <1>14, <2>7
    <3> QED
      BY <1>2, <1>3, <1>6, <2>10, <3>1, <3>2 DEF RootsBuffered
  <2> QED
    BY <2>3, <2>4, <2>5, <2>6, <2>12, <2>13 DEF Calm
<1> QED
  BY <1>2, <1>9, <1>10, <1>11, <1>12, <1>13, <1>15 DEF FilesIInv

(* The next process: a new file and a new chain of hashes, but the chain   *)
(* of roots goes on from what is on disk.                                  *)
LEMMA RestartStep ==
  ASSUME FilesIInv, Restart, UNCHANGED clock
  PROVE  FilesIInv'
<1> DEFINE n == Process
<1>1. /\ Shape /\ n \in Nat \ {0} /\ n \in 1 .. n /\ Cap \in Nat \ {0}
      /\ Len(files) = n /\ Len(signed) = n
      /\ \A p \in 1 .. n : Len(files[p]) \in Nat /\ Len(signed[p]) \in Nat
  BY ShapeFields DEF FilesIInv
<1>2. /\ UNCHANGED <<buffer, flushed, disturbances>>
      /\ ~ alive /\ n < MaxProcesses /\ alive' = TRUE
      /\ chainRoot' = RootUpto(files, started, n) /\ lastHash' = Genesis
      /\ started' = Append(started, clock) /\ clock' = clock
      /\ files' = Append(files, <<>>) /\ signed' = Append(signed, <<>>)
  BY LoadedRootIs DEF Restart
<1>3. /\ buffer = <<>> /\ flushed = NoFlush /\ Len(buffer) = 0 /\ Len(<<>>) = 0
      /\ Done' = 0
  BY <1>1, <1>2, EmptyIsSeq DEF Shape, Done
<1>4. /\ Lists(files') /\ Len(files') = n + 1 /\ files'[n + 1] = <<>>
      /\ \A p \in 1 .. n : files'[p] = files[p]
      /\ Lists(signed') /\ Len(signed') = n + 1 /\ signed'[n + 1] = <<>>
      /\ \A p \in 1 .. n : signed'[p] = signed[p]
  <2>1. Lists(files) /\ Lists(signed)
    BY <1>1 DEF Shape
  <2> QED
    BY <1>1, <1>2, <2>1, AddList
<1>10. /\ started' \in Seq(1 .. MaxClock) /\ Len(started') = n + 1
       /\ \A p \in 1 .. n : started'[p] = started[p] /\ started[p] \in 0 .. MaxClock
       /\ MaxClock \in Nat
  <2>1. /\ Len(started) = n /\ started \in Seq(1 .. MaxClock) /\ clock \in 1 .. MaxClock
        /\ MaxClock \in Nat /\ \A p \in 1 .. n : started[p] \in 0 .. MaxClock
    BY <1>1, ShapeFields DEF Shape, TypeOK
  <2> QED
    BY <1>2, <2>1
<1>5. Process' = n + 1 /\ File' = <<>> /\ Cap' = Cap
  BY <1>4 DEF Process, File, Cap
<1>6. \A p \in 1 .. n + 1 : p \in 1 .. n \/ (p = n + 1 /\ files'[p] = <<>> /\ signed'[p] = <<>>)
  BY <1>1, <1>4
<1>7. Shape'
  <2>1. Len(files') = Len(signed') /\ Len(files') \in 1 .. MaxProcesses
    BY <1>1, <1>2, <1>4, PersistedAuditAssumption
  <2>2. flushed' \in NoFlush .. Len(buffer')
    BY <1>2, <1>3 DEF NoFlush
  <2>3. /\ alive' \in BOOLEAN /\ disturbances' \in 0 .. MaxDisturbances
        /\ clock' \in 1 .. MaxClock /\ Len(files') = Len(started')
    BY <1>1, <1>2, <1>4, <1>10 DEF Shape, TypeOK
  <2>4. buffer' = buffer /\ \A i \in 1 .. Len(buffer) : FALSE
    BY <1>2, <1>3
  <2>5. started' \in Seq(1 .. MaxClock) /\ Len(files') = Len(signed')
        /\ Len(files') \in 1 .. MaxProcesses
    BY <1>10, <2>1
  <2>6. TypeOK'
    BY <2>2, <2>3, <2>4, <2>5 DEF TypeOK
  <2>7. IsSeq(buffer') /\ alive' = TRUE
    <3>1. IsSeq(buffer)
      BY <1>1 DEF Shape
    <3> QED
      BY <1>2, <2>4, <3>1
  <2>8. Lists(files') /\ Lists(signed')
    BY <1>4
  <2> QED
    BY <2>6, <2>7, <2>8 DEF Shape
<1>8. NamesRoots' /\ AllJson' /\ AtLeastOnce' /\ FlushedIsOnDisk'
  <2>1. NamesRoots' /\ AllJson'
    <3>1. NamesRoots /\ AllJson /\ Process = n
      BY DEF FilesIInv
    <3>2. ASSUME NEW p \in 1 .. n + 1, NEW i \in 1 .. Len(files'[p])
          PROVE  NamesRoot(files'[p][i]) /\ AsJson(files'[p][i].entry) = files'[p][i].entry
      <4>1. p \in 1 .. n /\ files'[p] = files[p]
        BY <1>3, <1>4, <1>6
      <4> HIDE DEF n
      <4> QED
        BY <3>1, <4>1 DEF NamesRoots, AllJson
    <3>3. \A i \in 1 .. Len(buffer') : FALSE
      BY <1>2, <1>3
    <3>4. NamesRoots'
      BY <1>5, <3>2, <3>3 DEF NamesRoots, NamesRoot
    <3>5. AllJson'
      BY <1>5, <3>2 DEF AllJson
    <3> QED
      BY <3>4, <3>5
  <2>2. AtLeastOnce'
    BY <1>3, <1>4, <1>5 DEF AtLeastOnce
  <2>3. FlushedIsOnDisk'
    BY <1>3 DEF FlushedIsOnDisk
  <2> QED
    BY <2>1, <2>2, <2>3
<1>9. ASSUME Calm PROVE Calm'
  <2>1. OnDisk'
    BY <1>3, <1>4, <1>5, <1>6, <1>9 DEF Calm, OnDisk
  <2>2. Unwritten'
    BY <1>2, <1>3, <1>4, <1>5 DEF Unwritten
  <2>3. LossSmall'
    <3>1. \A p \in 1 .. n : Len(signed'[p]) - Len(files'[p]) <= Cap
      BY <1>2, <1>4, <1>9 DEF Calm, LossSmall
    <3>2. \A p \in 1 .. n + 1 : p < n + 1 => p \in 1 .. n
      BY <1>1
    <3> QED
      BY <1>1, <1>2, <1>3, <1>5, <3>1, <3>2 DEF LossSmall
  <2>4. Chains'
    <3>1. \A p \in 1 .. n : \A i \in 1 .. Len(signed'[p]) : Link(signed'[p], i)
      BY <1>4, <1>9 DEF Calm, Chains
    <3>2. \A i \in 1 .. Len(<<>>) : Link(<<>>, i)
      BY <1>3
    <3> QED
      BY <1>2, <1>3, <1>4, <1>5, <1>6, <3>1, <3>2 DEF Chains
  <2>5. \A p \in 1 .. n + 1 : Before(p)' = Before(p)
    <3> SUFFICES ASSUME NEW p \in 1 .. n + 1
                 PROVE  RootUpto(files', started', p - 1) = RootUpto(files, started, p - 1)
      BY DEF Before
    <3>1. p - 1 \in Nat /\ \A q \in 1 .. p - 1 :
            files'[q] = files[q] /\ started'[q] = started[q] /\ started'[q] \in 0 .. MaxClock
      BY <1>1, <1>4, <1>10
    <3>2. MaxClock \in Nat
      BY <1>10
    <3> DEFINE m == p - 1
               fs == files'
               gs == files
               times == started'
               others == started
    <3>3. m \in Nat /\ \A q \in 1 .. m :
            fs[q] = gs[q] /\ times[q] = others[q] /\ times[q] \in 0 .. MaxClock
      BY <3>1
    <3> HIDE DEF m, fs, gs, times, others
    <3>4. RootUpto(fs, times, m) = RootUpto(gs, others, m)
      BY <3>2, <3>3, RootUptoSame
    <3> QED
      BY <3>4 DEF m, fs, gs, times, others
  <2>6. RootsOnDisk'
    <3> SUFFICES ASSUME NEW p \in 1 .. n + 1, NEW i \in 1 .. Len(files'[p])
                 PROVE  files'[p][i].root =
                          ChainRoot(IF i = 1 THEN Before(p) ELSE files'[p][i - 1].root,
                                    files'[p][i].entry.hash)
      BY <1>5, <2>5 DEF RootsOnDisk, RootOnDisk
    <3>1. p \in 1 .. n /\ files'[p] = files[p]
      BY <1>3, <1>4, <1>6
    <3> QED
      BY <1>9, <3>1 DEF Calm, RootsOnDisk, RootOnDisk
  <2>7. RootsBuffered'
    <3>1. Reached' = RootUpto(files, started, n)
      <4>1. PICK k : k = n + 1
        OBVIOUS
      <4>2. k \in 1 .. n + 1 /\ k - 1 = n /\ Process' - 1 = n
        BY <1>1, <1>5, <4>1
      <4>3. Len(File') = 0
        <5>1. File' = <<>> /\ Len(<<>>) = 0
          BY <1>3, <1>5
        <5> QED
          BY <5>1
      <4>4. Reached' = RootUpto(files', started', n)
        BY <4>2, <4>3 DEF Reached, Before
      <4>5. Before(k)' = Before(k)
        BY <2>5, <4>2
      <4>6. RootUpto(files', started', n) = RootUpto(files, started, n)
        BY <4>2, <4>5 DEF Before
      <4> QED
        BY <4>4, <4>6
    <3> QED
      BY <1>2, <1>3, <1>5, <3>1 DEF RootsBuffered
  <2> QED
    BY <2>1, <2>2, <2>3, <2>4, <2>6, <2>7 DEF Calm
<1> QED
  BY <1>2, <1>7, <1>8, <1>9 DEF FilesIInv

(* The first process: nothing is signed, and nothing is on disk.           *)
LEMMA InitIInv == Init => FilesIInv
<1> SUFFICES ASSUME Init PROVE FilesIInv
  OBVIOUS
<1> DEFINE one == << <<>> >>
<1>1. /\ Lists(one) /\ Len(one) = 1 /\ one[1] = <<>> /\ Len(<<>>) = 0
      /\ \A p \in 1 .. Len(one) : p = 1
  <2>1. one \in Seq({<<>>}) /\ Len(one) = 1 /\ one[1] = <<>>
    OBVIOUS
  <2>2. \A p \in 1 .. Len(one) : p = 1
    BY <2>1
  <2> QED
    BY <2>1, <2>2, SeqIsSeq, EmptyIsSeq DEF Lists
<1>2. /\ files = one /\ signed = one /\ alive = TRUE /\ clock = 1 /\ started = <<1>>
      /\ lastHash = Genesis /\ chainRoot = Genesis
      /\ buffer = <<>> /\ flushed = NoFlush /\ disturbances = 0
  BY DEF Init
<1> HIDE DEF one
<1>3. /\ Process = 1 /\ File = <<>> /\ Done = 0 /\ Len(buffer) = 0
      /\ Cap \in Nat \ {0} /\ MaxProcesses \in Nat \ {0} /\ MaxDisturbances \in Nat
  <2>1. Process = 1 /\ File = <<>>
    BY <1>1, <1>2 DEF Process, File
  <2>2. Done = 0 /\ Len(buffer) = 0
    BY <1>1, <1>2 DEF Done
  <2>3. Cap \in Nat \ {0} /\ MaxProcesses \in Nat \ {0} /\ MaxDisturbances \in Nat
    BY PersistedAuditAssumption DEF Cap
  <2> QED
    BY <2>1, <2>2, <2>3
<1>4. Shape
  <2>1. clock \in 1 .. MaxClock /\ started \in Seq(1 .. MaxClock) /\ Len(started) = 1
    BY <1>2, PersistedAuditAssumption
  <2>2. /\ alive \in BOOLEAN /\ disturbances \in 0 .. MaxDisturbances
        /\ Len(files) = Len(signed) /\ Len(files) = 1 /\ 1 \in 1 .. MaxProcesses
        /\ flushed \in NoFlush .. Len(buffer)
    BY <1>1, <1>2, <1>3 DEF NoFlush
  <2>3. TypeOK
    BY <1>3, <2>1, <2>2 DEF TypeOK
  <2>4. Lists(files) /\ Lists(signed) /\ IsSeq(buffer)
    BY <1>1, <1>2, EmptyIsSeq
  <2> QED
    BY <1>2, <2>3, <2>4 DEF Shape
<1>5. NamesRoots /\ AllJson /\ AtLeastOnce /\ FlushedIsOnDisk
  BY <1>1, <1>2, <1>3 DEF NamesRoots, AllJson, AtLeastOnce, FlushedIsOnDisk
<1>6. Reached = Genesis
  <2>1. Reached = RootUpto(files, started, 0)
    BY <1>1, <1>3 DEF Reached, Before
  <2> QED
    BY <2>1, RootUptoNone
<1>7. Calm
  BY <1>1, <1>2, <1>3, <1>6
     DEF Calm, OnDisk, Unwritten, LossSmall, Chains, RootsOnDisk, RootsBuffered
<1> QED
  BY <1>4, <1>5, <1>7 DEF FilesIInv

(* Every step preserves the invariant; those that only concern a snapshot  *)
(* leave the log alone.                                                    *)
LEMMA Inductive == FilesIInv /\ [Next]_vars => FilesIInv'
<1> SUFFICES ASSUME FilesIInv, [Next]_vars PROVE FilesIInv'
  OBVIOUS
<1>1. ASSUME UNCHANGED logging, clock' \in 1 .. MaxClock PROVE FilesIInv'
  <2>1. UNCHANGED <<started, files, alive, lastHash, chainRoot, buffer, flushed, signed, disturbances>>
    BY <1>1 DEF logging
  <2>2. Shape'
    BY <1>1, <2>1 DEF FilesIInv, Shape, TypeOK, Lists
  <2>3. NamesRoots' /\ AllJson' /\ AtLeastOnce' /\ FlushedIsOnDisk'
    BY <2>1 DEF FilesIInv, NamesRoots, AllJson, AtLeastOnce, FlushedIsOnDisk, Process, File, Done
  <2>4. Calm => Calm'
    BY ZenonT(60), <2>1 DEF Calm, OnDisk, Unwritten, LossSmall, Chains, RootsOnDisk, RootOnDisk,
       RootsBuffered, Before, Reached, Process, File, Done
  <2> QED
    BY <2>1, <2>2, <2>3, <2>4 DEF FilesIInv
<1>5. clock \in 1 .. MaxClock
  BY DEF FilesIInv, Shape, TypeOK
<1>2. ASSUME NEW n \in Snapshots, BlockArrives(n), UNCHANGED clock PROVE FilesIInv'
  BY <1>2, LogSignedStep DEF BlockArrives
<1>3. ASSUME NEW n \in Snapshots, SnapshotArbitrumBlock(n) \/ BlockFails(n)
      PROVE  UNCHANGED logging
  BY <1>3 DEF SnapshotArbitrumBlock, BlockFails
<1>4. ASSUME NEW event \in Events, LogSigned(event), UNCHANGED clock PROVE FilesIInv'
  BY <1>4, LogSignedStep
<1> QED
  <2>1. CASE UNCHANGED vars \/ SetClock
    BY <1>1, <1>5, <2>1 DEF vars, SetClock
  <2>2. CASE UNCHANGED clock /\ Crash
    BY <2>2, CrashStep
  <2>3. CASE /\ UNCHANGED clock
             /\ \E n \in Snapshots : SnapshotArbitrumBlock(n) \/ BlockArrives(n) \/ BlockFails(n)
    BY <1>1, <1>2, <1>3, <1>5, <2>3
  <2>4. CASE /\ UNCHANGED clock
             /\ \/ \E event \in Events : Log(event) \/ LogSigned(event)
                \/ Close \/ WriteLine \/ WriteFails \/ EndFlush \/ Restart
    BY <1>4, <2>4, DisturbedStep, CloseStep, WriteLineStep, EndFlushStep, RestartStep
  <2> QED
    BY <2>1, <2>2, <2>3, <2>4 DEF Next

(* The invariant holds throughout.                                         *)
LEMMA FilesInvHolds == Spec => []FilesIInv
BY InitIInv, Inductive, PTL DEF Spec

(***************************************************************************)
(* What a crash can lose.                                                  *)
(***************************************************************************)

(* Lines that hold the entries of a list, one by one, have that list.      *)
LEMMA EntriesAre ==
  ASSUME NEW s, IsSeq(s), NEW lines, Len(lines) = Len(s),
         \A i \in 1 .. Len(s) : AsJson(lines[i].entry) = s[i]
  PROVE  s = EntriesOf(lines)
<1>1. s = [i \in 1 .. Len(s) |-> s[i]]
  BY DEF IsSeq
<1> QED
  BY <1>1 DEF EntriesOf

(* The entries of a file, then those of a buffer from some place on.       *)
Spliced(entries, lines, buf, d) ==
  /\ Len(entries) = Len(lines) + (Len(buf) - d)
  /\ \A i \in 1 .. Len(lines) : AsJson(lines[i].entry) = entries[i]
  /\ \A i \in d + 1 .. Len(buf) : AsJson(buf[i].entry) = entries[Len(lines) + (i - d)]

(* A list spliced from a file and the rest of a buffer holds the entries   *)
(* of the one followed by those of the other.                              *)
LEMMA SplicedAre ==
  ASSUME NEW s, IsSeq(s), NEW t, IsSeq(t), NEW u, IsSeq(u),
         NEW d \in 0 .. Len(t), Spliced(u, s, t, d)
  PROVE  u = EntriesOf(s \o SubSeq(t, d + 1, Len(t)))
<1> DEFINE S == {s[i] : i \in 1 .. Len(s)} \cup {t[i] : i \in 1 .. Len(t)}
           rest == SubSeq(t, d + 1, Len(t))
           st == s \o rest
<1>1. s \in Seq(S) /\ t \in Seq(S)
  BY SeqMonotonic DEF IsSeq
<1> HIDE DEF S
<1>2. Len(s) \in Nat /\ Len(t) \in Nat
  BY <1>1
<1>3. /\ rest \in Seq(S) /\ Len(rest) = Len(t) - d
      /\ \A i \in 1 .. Len(t) - d : rest[i] = t[d + i]
  <2>1. d + 1 \in Int /\ \A i \in d + 1 .. Len(t) : t[i] \in S
    BY <1>1, <1>2
  <2>2. /\ rest \in Seq(S)
        /\ Len(rest) = IF d + 1 <= Len(t) THEN Len(t) - (d + 1) + 1 ELSE 0
        /\ \A i \in 1 .. Len(t) - (d + 1) + 1 : rest[i] = t[d + 1 + i - 1]
    BY <1>2, <2>1, SubSeqProperties
  <2> HIDE DEF rest
  <2>3. Len(rest) = Len(t) - d
    BY <1>2, <2>2
  <2>4. ASSUME NEW i \in 1 .. Len(t) - d
        PROVE  rest[i] = t[d + i]
    <3>1. i \in 1 .. Len(t) - (d + 1) + 1 /\ d + 1 + i - 1 = d + i
      BY <1>2
    <3> QED
      BY <2>2, <3>1
  <2> QED
    BY <2>2, <2>3, <2>4
<1> HIDE DEF rest
<1>4. /\ Len(st) = Len(s) + Len(rest)
      /\ \A i \in 1 .. Len(s) + Len(rest) :
           st[i] = IF i <= Len(s) THEN s[i] ELSE rest[i - Len(s)]
  BY <1>1, <1>3, ConcatProperties
<1> HIDE DEF st
<1>5. /\ Len(u) = Len(s) + (Len(t) - d)
      /\ \A i \in 1 .. Len(s) : AsJson(s[i].entry) = u[i]
      /\ \A i \in d + 1 .. Len(t) : AsJson(t[i].entry) = u[Len(s) + (i - d)]
  BY DEF Spliced
<1>6. ASSUME NEW i \in 1 .. Len(u)
      PROVE  AsJson(st[i].entry) = u[i]
  <2>1. CASE i <= Len(s)
    BY <1>2, <1>3, <1>4, <1>5, <2>1
  <2>2. CASE ~ (i <= Len(s))
    <3>1. /\ i - Len(s) \in 1 .. Len(t) - d /\ d + (i - Len(s)) \in d + 1 .. Len(t)
          /\ Len(s) + ((d + (i - Len(s))) - d) = i
      BY <1>2, <1>5, <2>2
    <3>2. st[i] = t[d + (i - Len(s))]
      BY <1>2, <1>3, <1>4, <1>5, <2>2, <3>1
    <3> QED
      BY <1>5, <3>1, <3>2
  <2> QED
    BY <1>2, <1>5, <2>1, <2>2
<1>7. Len(st) = Len(u)
  BY <1>2, <1>3, <1>4, <1>5
<1>8. u = EntriesOf(st)
  BY <1>6, <1>7, EntriesAre
<1> QED
  BY <1>8 DEF st, rest

(* No entry a process has signed is lost or doubled while it runs and no   *)
(* write fails: its file and the unwritten part of its buffer hold them in *)
(* order; with failures, each is still on disk or in the buffer; and a     *)
(* crash loses the newest few only, at most flushInterval of them.         *)
THEOREM LossBoundedHolds == Spec => []LossBounded
<1>1. FilesIInv => LossBounded
  <2> SUFFICES ASSUME FilesIInv PROVE LossBounded
    OBVIOUS
  <2> DEFINE n == Process
             d == Done
  <2>1. /\ n \in 1 .. n /\ n \in Nat /\ File = files[n] /\ Len(buffer) \in Nat
        /\ d \in 0 .. Len(buffer) /\ IsSeq(buffer) /\ Cap \in Nat
        /\ \A p \in 1 .. n :
              /\ IsSeq(files[p]) /\ Len(files[p]) \in Nat
              /\ IsSeq(signed[p]) /\ Len(signed[p]) \in Nat
    BY ShapeFields DEF FilesIInv
  <2>2. NothingLostOrDoubled
    <3> SUFFICES ASSUME alive, disturbances = 0
                 PROVE  signed[n] = EntriesOf(File \o SubSeq(buffer, d + 1, Len(buffer)))
      <4>1. (IF flushed = NoFlush THEN 1 ELSE flushed + 1) = d + 1
        BY DEF Done
      <4> QED
        BY <4>1 DEF NothingLostOrDoubled
    <3>1. Spliced(signed[n], File, buffer, d)
      BY <2>1 DEF FilesIInv, Calm, Unwritten, OnDisk, AllJson, Spliced
    <3>2. IsSeq(signed[n]) /\ IsSeq(File)
      BY <2>1
    <3> HIDE DEF n, d
    <3> QED
      BY <2>1, <3>1, <3>2, SplicedAre
  <2>3. BoundedLoss
    <3> SUFFICES ASSUME disturbances = 0, NEW p \in 1 .. n
                 PROVE  /\ EntriesOf(files[p]) = SubSeq(signed[p], 1, Len(files[p]))
                        /\ p < n \/ ~ alive => Len(signed[p]) - Len(files[p]) <= Cap
      BY DEF BoundedLoss, Cap
    <3>1. /\ Len(files[p]) <= Len(signed[p])
          /\ \A i \in 1 .. Len(files[p]) : AsJson(files[p][i].entry) = signed[p][i]
          /\ p < n \/ ~ alive => Len(signed[p]) - Len(files[p]) <= Cap
      BY DEF FilesIInv, Calm, OnDisk, LossSmall, AllJson
    <3> DEFINE s == SubSeq(signed[p], 1, Len(files[p]))
    <3>2. /\ IsSeq(s) /\ Len(s) = Len(files[p])
          /\ \A i \in 1 .. Len(files[p]) : s[i] = signed[p][i]
      <4> DEFINE S == {signed[p][i] : i \in 1 .. Len(signed[p])}
      <4>1. signed[p] \in Seq(S) /\ Len(files[p]) \in Nat /\ Len(signed[p]) \in Nat
        BY <2>1 DEF IsSeq
      <4> HIDE DEF S
      <4>2. s \in Seq(S) /\ Len(s) = Len(files[p])
            /\ \A i \in 1 .. Len(files[p]) : s[i] = signed[p][i]
        BY <3>1, <4>1
      <4> QED
        BY <4>2, SeqIsSeq
    <3> HIDE DEF s
    <3>3. s = EntriesOf(files[p])
      BY <3>1, <3>2, EntriesAre
    <3> QED
      BY <3>1, <3>3 DEF s
  <2> QED
    BY <2>2, <2>3 DEF LossBounded, FilesIInv, Shape
<1> QED
  BY <1>1, FilesInvHolds, PTL

(***************************************************************************)
(* What the disk proves.                                                   *)
(***************************************************************************)

(* The chain roots on disk are one chain through the files of all          *)
(* processes, a snapshot on disk names the root its line continues, and    *)
(* the first process's file verifies at every moment.                      *)
THEOREM RootsVerifyHolds == Spec => []RootsVerify
<1>1. FilesIInv => RootsVerify
  <2> SUFFICES ASSUME FilesIInv PROVE RootsVerify
    OBVIOUS
  <2>1. /\ 1 \in 1 .. Process
        /\ \A p \in 1 .. Process : Len(files[p]) \in Nat /\ Len(signed[p]) \in Nat
    BY ShapeFields DEF FilesIInv
  <2>2. RootsContinue
    <3> SUFFICES ASSUME disturbances = 0, StartedInOrder
                 PROVE  RootsContinue
      BY DEF RootsContinue
    <3>1. \A p \in 1 .. Process : \A i \in 1 .. Len(files[p]) : RootOnDisk(p, i)
      BY DEF FilesIInv, Calm, RootsOnDisk
    <3>2. ASSUME NEW p \in 1 .. Process, NEW i \in 1 .. Len(files[p])
          PROVE  LET before == {q \in 1 .. p - 1 : files[q] # <<>>}
                     last   == CHOOSE q \in before : \A r \in before : r <= q
                     previous == IF i > 1 THEN files[p][i - 1].root
                                 ELSE IF before = {} THEN Genesis
                                 ELSE files[last][Len(files[last])].root
                 IN  files[p][i].root = ChainRoot(previous, files[p][i].entry.hash)
      <4>1. files[p][i].root =
              ChainRoot(IF i = 1 THEN RootUpto(files, started, p - 1) ELSE files[p][i - 1].root,
                        files[p][i].entry.hash)
        BY <3>1 DEF RootOnDisk, Before
      <4>2. i > 1 <=> i # 1
        BY <2>1
      <4>3. p - 1 \in Nat /\ \A q \in 1 .. p - 1 : q \in 1 .. Process /\ started[q] \in Nat
        BY ShapeFields DEF FilesIInv
      <4>4. \A q, r \in 1 .. p - 1 : q < r => started[q] < started[r]
        BY <4>3 DEF StartedInOrder
      <4>5. Newest(files, started, p - 1) =
              CHOOSE q \in Upto(files, p - 1) : \A r \in Upto(files, p - 1) : r <= q
        BY <4>3, <4>4, NewestInOrder
      <4>6. (i > 1 <=> i # 1)
            /\ RootUpto(files, started, p - 1) =
                 IF Upto(files, p - 1) = {} THEN Genesis
                 ELSE files[Newest(files, started, p - 1)]
                           [Len(files[Newest(files, started, p - 1)])].root
        BY <4>2 DEF RootUpto
      <4> QED
        BY <4>1, <4>5, <4>6 DEF Upto
    <3> QED
      BY <3>2 DEF RootsContinue
  <2>3. SnapshotNamesRoot
    BY DEF FilesIInv, NamesRoots, NamesRoot, SnapshotNamesRoot
  <2>4. FirstFileVerifies
    <3> DEFINE lines == files[1]
               s == signed[1]
               es == EntriesOf(lines)
    <3> SUFFICES ASSUME disturbances = 0
                 PROVE  VerifyAgainstFile(lines) <=>
                          \A i \in 2 .. Len(lines) : lines[i - 1].entry.timestamp <= lines[i].entry.timestamp
      BY DEF FirstFileVerifies
    <3>1. /\ Len(lines) <= Len(s)
          /\ \A i \in 1 .. Len(lines) : AsJson(lines[i].entry) = s[i] /\ lines[i].entry = s[i]
          /\ \A i \in 1 .. Len(s) : Link(s, i)
          /\ \A i \in 1 .. Len(lines) : RootOnDisk(1, i)
      BY <2>1 DEF FilesIInv, Calm, OnDisk, Chains, RootsOnDisk, AllJson
    <3>2. \A i \in 1 .. Len(lines) :
            lines[i].root =
              ChainRoot(IF i = 1 THEN Genesis ELSE lines[i - 1].root, lines[i].entry.hash)
      <4>1. Before(1) = Genesis
        BY RootUptoNone DEF Before
      <4> QED
        BY <3>1, <4>1 DEF RootOnDisk
    <3>3. /\ Len(es) = Len(lines) /\ Len(lines) \in Nat
          /\ \A i \in 1 .. Len(lines) :
               es[i] = s[i] /\ lines[i].entry = s[i] /\ (i # 1 => es[i - 1] = s[i - 1])
      <4>1. es = [i \in 1 .. Len(lines) |-> AsJson(lines[i].entry)] /\ Len(lines) \in Nat
        BY <2>1 DEF EntriesOf
      <4> HIDE DEF es
      <4>2. Len(es) = Len(lines)
        BY <4>1
      <4> QED
        BY <3>1, <4>1, <4>2
    <3> HIDE DEF es
    <3>4. ASSUME NEW i \in 1 .. Len(es)
          PROVE  LinkOK(es, i) /\ HashOK(es, i)
      <4>1. i \in 1 .. Len(s) /\ (i # 1 => i - 1 \in 1 .. Len(s))
        BY <2>1, <3>1, <3>3
      <4>2. Link(s, i) /\ (i # 1 => Link(s, i - 1))
        BY <3>1, <4>1
      <4> QED
        BY <3>3, <4>2 DEF Link, LinkOK, HashOK
    <3>5. VerifyChain(es) <=> \A i \in 1 .. Len(es) : TimeOK(es, i)
      BY <3>4 DEF VerifyChain
    <3>6. (\A i \in 1 .. Len(es) : TimeOK(es, i)) <=>
            \A i \in 2 .. Len(lines) : lines[i - 1].entry.timestamp <= lines[i].entry.timestamp
      <4>1. ASSUME NEW i \in 2 .. Len(lines)
            PROVE  TimeOK(es, i) <=> lines[i - 1].entry.timestamp <= lines[i].entry.timestamp
        <5>1. /\ i \in 1 .. Len(lines) /\ i - 1 \in 1 .. Len(lines) /\ i # 1
          BY <3>3
        <5>2. es[i] = lines[i].entry /\ es[i - 1] = lines[i - 1].entry
          BY <3>3, <5>1
        <5> QED
          BY <5>1, <5>2 DEF TimeOK
      <4>2. \A i \in 1 .. Len(es) : i = 1 \/ i \in 2 .. Len(lines)
        BY <3>3
      <4>3. \A i \in 2 .. Len(lines) : i \in 1 .. Len(es)
        BY <3>3
      <4>4. TimeOK(es, 1)
        BY DEF TimeOK
      <4> QED
        BY <4>1, <4>2, <4>3, <4>4
    <3> QED
      BY <3>2, <3>5, <3>6 DEF VerifyAgainstFile, es
  <2> QED
    BY <2>2, <2>3, <2>4 DEF RootsVerify
<1> QED
  BY <1>1, FilesInvHolds, PTL

edges == <<part, wrapping, commanding, telemetry>>

(* Each program starts as it would alone.                                  *)
LEMMA EdgesStart == EdgesInit => WrapInit /\ CommandInit /\ MetricsInit
BY DEF EdgesInit

(* A step is a step of one program, and the others stand still.            *)
LEMMA EdgesStep ==
  [EdgesNext]_edges =>
    [WrapNext]_wrapping /\ [CommandNext]_commanding /\ [MetricsNext]_telemetry
<1> SUFFICES ASSUME [EdgesNext]_edges
             PROVE  [WrapNext]_wrapping /\ [CommandNext]_commanding /\ [MetricsNext]_telemetry
  OBVIOUS
<1>1. CASE UNCHANGED edges
  BY <1>1 DEF edges
<1>2. CASE EdgesNext
  BY <1>2 DEF EdgesNext, Still
<1> QED
  BY <1>1, <1>2

(***************************************************************************)
(* Wrappers.                                                               *)
(***************************************************************************)

(* guardAgent knows one of these entry points, or none.                    *)
LEMMA DetectedShapes ==
  ASSUME NEW e \in SUBSET {"messages.create", "chat.completions.create", "invoke", "run"}
  PROVE  Detected(e) \in {Anthropic, OpenAI, WithKeySpot, WrapHermesAgent, Unwrapped}
<1>1. CASE "messages.create" \in e
  <2>1. e \notin {{"invoke"}, {"invoke", "run"}} /\ e # {"run"} /\ e # {}
    BY <1>1
  <2> QED
    BY <1>1, <2>1 DEF Detected
<1>2. CASE "messages.create" \notin e /\ "chat.completions.create" \in e
  <2>1. e \notin {{"invoke"}, {"invoke", "run"}} /\ e # {"run"} /\ e # {}
    BY <1>2
  <2> QED
    BY <1>2, <2>1 DEF Detected
<1>3. CASE "messages.create" \notin e /\ "chat.completions.create" \notin e
  <2>1. e \in {{"invoke"}, {"invoke", "run"}} \/ e = {"run"} \/ e = {}
    BY <1>3
  <2>2. CASE e \in {{"invoke"}, {"invoke", "run"}}
    <3>1. e # {"run"} /\ e # {}
      BY <2>2
    <3> QED
      BY <1>3, <2>2, <3>1 DEF Detected
  <2>3. CASE e = {"run"}
    <3>1. e \notin {{"invoke"}, {"invoke", "run"}} /\ e # {}
      BY <2>3
    <3> QED
      BY <1>3, <2>3, <3>1 DEF Detected
  <2>4. CASE e = {}
    <3>1. e \notin {{"invoke"}, {"invoke", "run"}} /\ e # {"run"}
      BY <2>4
    <3> QED
      BY <1>3, <2>4, <3>1 DEF Detected
  <2> QED
    BY <2>1, <2>2, <2>3, <2>4
<1> QED
  BY <1>1, <1>2, <1>3

(* Every wrapper's pieces are among the six.                               *)
LEMMA ShapePieces ==
  ASSUME NEW s \in Shapes
  PROVE  s.in \subseteq 1 .. 6 /\ s.out \subseteq 1 .. 6
<1>1. s \in {Anthropic, OpenAI, Agent, Unwrapped, Chroma, Qdrant, Weaviate}
  <2>1. CASE s \in GuardAgent
    <3>1. PICK e \in SUBSET {"messages.create", "chat.completions.create", "invoke", "run"} :
             s = Detected(e)
      BY <2>1 DEF GuardAgent
    <3> QED
      BY <3>1, DetectedShapes DEF WithKeySpot, WrapHermesAgent
  <2>2. CASE s \notin GuardAgent
    BY <2>2 DEF Shapes, WrapOpenClawAgent, KeySpotWrap, CoreSanitized, Milvus, Pinecone, LanceDB,
                Chroma, Qdrant
  <2> QED
    BY <2>1, <2>2
<1>2. CASE s \in {Anthropic, OpenAI, Agent, Unwrapped}
  BY <1>2 DEF Anthropic, OpenAI, Agent, Unwrapped
<1>3. CASE s \in {Chroma, Qdrant, Weaviate}
  BY <1>3 DEF Chroma, Qdrant, Weaviate, Sanitized
<1> QED
  BY <1>1, <1>2, <1>3

(* The invariant: what holds a secret may, the service was called only     *)
(* with pieces that had passed, and a failed check has rejected the call.  *)
WrapTypes ==
  /\ shape \in Shapes
  /\ form \in [1 .. 6 -> {"waiting", "secret", "clean", "failed"}]
  /\ content \in [1 .. 6 -> {"secret", "clean"}]

WrapIInv ==
  /\ WrapTypes
  /\ \A p \in 1 .. 6 : form[p] = "secret" => p \in Excepted
  /\ \A p \in DOMAIN sent : sent[p] = "secret" => p \in Excepted
  /\ service # "idle" => Passed(shape.in)
  /\ FailsClosed

(* No checkpoint has begun.                                                *)
LEMMA WrapStarts == WrapInit => WrapIInv
<1> SUFFICES ASSUME WrapInit PROVE WrapIInv
  OBVIOUS
<1>1. \A p \in 1 .. 6 : form[p] = IF p \in shape.opaque THEN content[p] ELSE "waiting"
  BY DEF WrapInit
<1>2. WrapTypes
  BY DEF WrapInit, WrapTypes
<1>3. \A p \in 1 .. 6 : form[p] # "failed" /\ (form[p] = "secret" => p \in Excepted)
  BY <1>1, <1>2 DEF WrapTypes, Excepted
<1>4. FailsClosed
  BY <1>2, <1>3, ShapePieces DEF FailsClosed, Pieces, WrapTypes
<1> QED
  BY <1>2, <1>3, <1>4 DEF WrapIInv, WrapInit

(* A checkpoint ends, one way or the other.                                *)
LEMMA CheckSteps ==
  ASSUME WrapIInv, NEW p \in Pieces, CheckPasses(p) \/ CheckFails(p)
  PROVE  WrapIInv'
<1>1. /\ p \in 1 .. 6 /\ shape.in \subseteq 1 .. 6 /\ shape.out \subseteq 1 .. 6
      /\ form[p] = "waiting" /\ UNCHANGED <<shape, strategy, content, service, sent>>
  BY ShapePieces DEF WrapIInv, WrapTypes, Pieces, CheckPasses, CheckFails, Checking
<1>2. p \in shape.in => service = "idle"
  BY <1>1 DEF WrapIInv, Passed
<1>3. PICK f \in {"secret", "clean", "failed"} :
        /\ form' = [form EXCEPT ![p] = f]
        /\ f = "secret" => p \in Excepted
        /\ f = "failed" => call' = "rejected"
        /\ call' \in {call, "rejected"}
  <2>1. CASE CheckPasses(p)
    <3>1. Checkpointed(p) \in {"secret", "clean"} /\ (Checkpointed(p) = "secret" => p \in Excepted)
      BY DEF Checkpointed, Excepted
    <3> QED
      BY <2>1, <3>1 DEF CheckPasses
  <2>2. CASE CheckFails(p)
    BY <2>2 DEF CheckFails
  <2> QED
    BY <2>1, <2>2
<1>4. WrapTypes'
  BY <1>1, <1>3 DEF WrapIInv, WrapTypes
<1>5. \A q \in 1 .. 6 : form'[q] = IF q = p THEN f ELSE form[q]
  BY <1>1, <1>3 DEF WrapIInv, WrapTypes
<1>6. \A q \in 1 .. 6 : form'[q] = "secret" => q \in Excepted'
  BY <1>1, <1>3, <1>5 DEF WrapIInv, Excepted
<1>7. \A q \in DOMAIN sent' : sent'[q] = "secret" => q \in Excepted'
  BY <1>1 DEF WrapIInv, Excepted
<1>8. service' # "idle" => Passed(shape.in)'
  BY <1>1, <1>2, <1>5 DEF WrapIInv, Passed
<1>9. FailsClosed'
  BY <1>1, <1>2, <1>3, <1>5 DEF WrapIInv, FailsClosed, Pieces
<1> QED
  BY <1>4, <1>6, <1>7, <1>8, <1>9 DEF WrapIInv

(* The call is forwarded, answered and resolved.                           *)
LEMMA CallSteps ==
  ASSUME WrapIInv, Forward \/ ServiceAnswers \/ ServiceFails \/ Resolve
  PROVE  WrapIInv'
<1>0. shape.in \subseteq 1 .. 6 /\ shape.out \subseteq 1 .. 6
  BY ShapePieces DEF WrapIInv, WrapTypes
<1>1. CASE Forward
  <2>1. \A p \in DOMAIN sent' : sent'[p] = "secret" => p \in Excepted'
    BY <1>0, <1>1 DEF Forward, WrapIInv, Excepted
  <2>2. FailsClosed'
    BY <1>1 DEF Forward, Passed, WrapIInv, FailsClosed, Pieces
  <2> QED
    BY <1>1, <2>1, <2>2 DEF Forward, WrapIInv, WrapTypes, Excepted, Passed
<1>2. CASE ServiceAnswers
  <2>1. PICK answer \in [shape.out -> {"secret", "clean"}] :
          /\ content' = [p \in 1 .. 6 |-> IF p \in shape.out THEN answer[p] ELSE content[p]]
          /\ form' = [p \in 1 .. 6 |->
               IF p \in shape.out \cap shape.opaque THEN answer[p] ELSE form[p]]
    BY <1>2 DEF ServiceAnswers
  <2>2. UNCHANGED <<shape, strategy, sent, call>> /\ service = "called"
    BY <1>2 DEF ServiceAnswers
  <2>3. WrapTypes'
    BY <2>1, <2>2 DEF WrapIInv, WrapTypes
  <2>4. \A p \in 1 .. 6 : form'[p] = form[p] \/ (p \in shape.opaque /\ form'[p] \in {"secret", "clean"})
    BY <2>1
  <2>5. \A p \in 1 .. 6 : form'[p] = "secret" => p \in Excepted'
    BY <2>2, <2>4 DEF WrapIInv, Excepted
  <2>6. Passed(shape.in)'
    BY <1>0, <2>2, <2>4 DEF WrapIInv, Passed
  <2>7. FailsClosed'
    BY <1>0, <2>2, <2>4, <2>6 DEF WrapIInv, FailsClosed, Pieces, Passed
  <2> QED
    BY <2>2, <2>3, <2>5, <2>6, <2>7 DEF WrapIInv, Excepted
<1>3. CASE ServiceFails
  <2>1. FailsClosed'
    BY <1>3 DEF ServiceFails, WrapIInv, FailsClosed, Pieces, Passed
  <2> QED
    BY <1>3, <2>1 DEF ServiceFails, WrapIInv, WrapTypes, Excepted, Passed
<1>4. CASE Resolve
  <2>1. FailsClosed'
    BY <1>4 DEF Resolve, WrapIInv, FailsClosed, Pieces
  <2> QED
    BY <1>4, <2>1 DEF Resolve, WrapIInv, WrapTypes, Excepted, Passed
<1> QED
  BY <1>1, <1>2, <1>3, <1>4

(* The invariant is inductive.                                             *)
LEMMA WrapSteps == WrapIInv /\ [WrapNext]_wrapping => WrapIInv'
<1> SUFFICES ASSUME WrapIInv, [WrapNext]_wrapping PROVE WrapIInv'
  OBVIOUS
<1>1. CASE UNCHANGED wrapping
  BY <1>1 DEF wrapping, WrapIInv, WrapTypes, Excepted, Passed, FailsClosed, Pieces
<1>2. CASE WrapNext
  BY <1>2, CheckSteps, CallSteps DEF WrapNext
<1> QED
  BY <1>1, <1>2

(* A wrapper lets nothing past that it checks, whichever checkpoints fail  *)
(* or finish late: every wrapper's shape and every content (frameworks/src, *)
(* adapters/src).                                                          *)
THEOREM WrapsTightHolds == EdgesSpec => []WrapsTight
<1>1. WrapIInv => WrapsTight
  BY ShapePieces DEF WrapIInv, WrapTypes, WrapsTight, OnlyOpaquePasses
<1> QED
  BY <1>1, EdgesStart, EdgesStep, WrapStarts, WrapSteps, PTL DEF EdgesSpec, edges

(***************************************************************************)
(* Command line.                                                           *)
(***************************************************************************)

(* Among natural numbers there is a least.                                 *)
LEMMA LeastExists ==
  ASSUME NEW T, T \subseteq Nat, T # {}
  PROVE  \E n \in T : \A m \in T : n <= m
<1> DEFINE R == OpToRel(<, Nat)
<1>1. IsWellFoundedOn(R, Nat)
  BY NatLessThanWellFounded
<1>2. \A x \in Nat, y \in Nat : <<x, y>> \in R <=> x < y
  BY DEF OpToRel
<1> HIDE DEF R
<1>3. PICK x \in T : \A y \in T : ~ (<<y, x>> \in R)
  BY <1>1, WFMin
<1>4. \A y \in T : ~ (y < x)
  BY <1>2, <1>3
<1> QED
  BY <1>4

(* g prunes text with the patterns of any of the first m places.           *)
Prunes(g, text, m) ==
  g = [s \in SUBSET (1 .. m) |->
         IF s = {} THEN text ELSE ReplaceMatch(g[s \ {Max(s)}], MatchOrder[Max(s)])]

(* The greatest of some numbers up to one of them.                         *)
LEMMA GreatestIs ==
  ASSUME NEW m \in Nat, NEW s \in SUBSET (1 .. m), m \in s
  PROVE  Max(s) = m
<1>1. \A y \in s : y \in Int /\ m >= y
  OBVIOUS
<1>2. \E x \in s : \A y \in s : x >= y
  BY <1>1
<1>3. PICK x : x = Max(s)
  OBVIOUS
<1>4. x \in s /\ \A y \in s : x >= y
  BY <1>2, <1>3 DEF Max
<1>5. x = m
  BY <1>1, <1>4
<1> QED
  BY <1>3, <1>5

(* One pattern more is replaced in what the others left.                   *)
LEMMA PrunesStep ==
  ASSUME NEW text, NEW m \in Nat, NEW g, Prunes(g, text, m)
  PROVE  \E h : Prunes(h, text, m + 1)
<1> DEFINE h == [s \in SUBSET (1 .. m + 1) |->
                   IF m + 1 \in s THEN ReplaceMatch(g[s \ {m + 1}], MatchOrder[m + 1]) ELSE g[s]]
<1>1. ASSUME NEW s \in SUBSET (1 .. m + 1)
      PROVE  h[s] = IF s = {} THEN text ELSE ReplaceMatch(h[s \ {Max(s)}], MatchOrder[Max(s)])
  <2>1. CASE m + 1 \in s
    <3>1. Max(s) = m + 1
      BY <2>1, GreatestIs
    <3>2. s \ {m + 1} \in SUBSET (1 .. m + 1) /\ m + 1 \notin s \ {m + 1}
      OBVIOUS
    <3>3. h[s \ {m + 1}] = g[s \ {m + 1}]
      BY <3>2
    <3>4. h[s] = ReplaceMatch(g[s \ {m + 1}], MatchOrder[m + 1])
      BY <2>1
    <3> HIDE DEF h
    <3> QED
      BY <2>1, <3>1, <3>3, <3>4
  <2>2. CASE m + 1 \notin s
    <3>1. s \in SUBSET (1 .. m) /\ h[s] = g[s]
      BY <2>2
    <3>2. s \ {Max(s)} \in SUBSET (1 .. m + 1) /\ m + 1 \notin s \ {Max(s)}
      BY <2>2
    <3>3. h[s \ {Max(s)}] = g[s \ {Max(s)}]
      BY <3>2
    <3>4. g[s] = IF s = {} THEN text ELSE ReplaceMatch(g[s \ {Max(s)}], MatchOrder[Max(s)])
      BY <3>1 DEF Prunes
    <3> HIDE DEF h
    <3> QED
      BY <3>1, <3>3, <3>4
  <2> QED
    BY <2>1, <2>2
<1>2. h = [s \in SUBSET (1 .. m + 1) |-> h[s]]
  OBVIOUS
<1> HIDE DEF h
<1>3. [s \in SUBSET (1 .. m + 1) |-> h[s]] =
        [s \in SUBSET (1 .. m + 1) |->
           IF s = {} THEN text ELSE ReplaceMatch(h[s \ {Max(s)}], MatchOrder[Max(s)])]
  BY <1>1
<1>4. Prunes(h, text, m + 1)
  BY <1>2, <1>3 DEF Prunes
<1> QED
  BY <1>4

(* So there is such a function for any number of patterns.                 *)
LEMMA PrunesExist ==
  ASSUME NEW text, NEW n \in Nat
  PROVE  \E g : Prunes(g, text, n)
<1> DEFINE T == {m \in Nat : ~ \E g : Prunes(g, text, m)}
<1>1. SUFFICES ASSUME T # {} PROVE FALSE
  BY <1>1
<1>2. PICK m \in T : \A k \in T : m <= k
  BY <1>1, LeastExists
<1>3. CASE m = 0
  <2> DEFINE g == [s \in SUBSET (1 .. 0) |-> text]
  <2>1. \A s \in SUBSET (1 .. 0) : s = {}
    OBVIOUS
  <2>2. [s \in SUBSET (1 .. 0) |-> text] = [s \in SUBSET (1 .. 0) |->
          IF s = {} THEN text ELSE ReplaceMatch(g[s \ {Max(s)}], MatchOrder[Max(s)])]
    BY <2>1
  <2>3. Prunes(g, text, 0)
    BY <2>2 DEF Prunes
  <2> QED
    BY <1>3, <2>3
<1>4. CASE m # 0
  <2>1. m - 1 \in Nat /\ m - 1 \notin T
    BY <1>2, <1>4
  <2>2. PICK g : Prunes(g, text, m - 1)
    BY <2>1
  <2>3. \E h : Prunes(h, text, m)
    BY <2>1, <2>2, PrunesStep
  <2> QED
    BY <2>3
<1> QED
  BY <1>3, <1>4

(* Replacing a match takes it away and brings no secret.                   *)
LEMMA ReplacingTakes ==
  ASSUME NEW text, NEW s \in FileSecrets
  PROVE  ReplaceMatch(text, s) \cap FileSecrets \subseteq text \ {s}
<1>1. \A o \in FileSecrets : Rest[o] \notin FileSecrets
  BY CommandLineAssumption DEF Range
<1> QED
  BY <1>1 DEF ReplaceMatch

(* What is pruned holds no secret that a pattern knows.                    *)
LEMMA PrunedIsClean ==
  ASSUME NEW text
  PROVE  Pruned(text) \cap FileSecrets = {}
<1> DEFINE n == Len(MatchOrder)
           F == CHOOSE g : Prunes(g, text, n)
<1>1. /\ n \in Nat /\ DOMAIN MatchOrder = 1 .. n
      /\ \A i \in 1 .. n : MatchOrder[i] \in FileSecrets
      /\ \A s \in FileSecrets : \E i \in 1 .. n : MatchOrder[i] = s
  BY CommandLineAssumption DEF Range
<1>2. Pruned(text) = F[1 .. n]
  BY <1>1 DEF Pruned, FoldLeft, MapThenFoldSet, Prunes
<1>3. Prunes(F, text, n)
  BY <1>1, PrunesExist
<1> HIDE DEF F
<1> DEFINE D == {m \in 0 .. n : \E i \in 1 .. m : MatchOrder[i] \in F[1 .. m]}
<1>4. D = {}
  <2>1. SUFFICES ASSUME D # {} PROVE FALSE
    OBVIOUS
  <2>2. D \subseteq Nat
    BY <1>1
  <2>3. PICK m \in D : \A k \in D : m <= k
    BY <2>1, <2>2, LeastExists
  <2>4. m \in 1 .. n
    BY <2>3
  <2>5. m - 1 \in 0 .. n /\ m - 1 \notin D
    BY <1>1, <2>3, <2>4
  <2>6. \A i \in 1 .. m - 1 : MatchOrder[i] \notin F[1 .. m - 1]
    BY <2>5
  <2>7. 1 .. m \in SUBSET (1 .. n) /\ 1 .. m # {} /\ Max(1 .. m) = m /\ (1 .. m) \ {m} = 1 .. m - 1
    <3>1. m \in Nat /\ m \in 1 .. m /\ 1 .. m \in SUBSET (1 .. m)
      BY <2>4
    <3>2. Max(1 .. m) = m
      BY <3>1, GreatestIs
    <3>3. 1 .. m \in SUBSET (1 .. n)
      BY <1>1, <2>4
    <3>4. (1 .. m) \ {m} = 1 .. m - 1
      BY <2>4
    <3> QED
      BY <3>1, <3>2, <3>3, <3>4
  <2>8. F[1 .. m] = ReplaceMatch(F[1 .. m - 1], MatchOrder[m])
    BY <1>3, <2>7 DEF Prunes
  <2>9. F[1 .. m] \cap FileSecrets \subseteq F[1 .. m - 1] \ {MatchOrder[m]}
    BY <1>1, <2>4, <2>8, ReplacingTakes
  <2>10. ASSUME NEW i \in 1 .. m PROVE MatchOrder[i] \notin F[1 .. m]
    <3>1. MatchOrder[i] \in FileSecrets
      BY <1>1, <2>4
    <3>2. CASE i = m
      BY <2>9, <3>1, <3>2
    <3>3. CASE i # m
      <4>1. i \in 1 .. m - 1
        BY <2>4, <3>3
      <4> QED
        BY <2>6, <2>9, <3>1, <4>1
    <3> QED
      BY <3>2, <3>3
  <2> QED
    BY <2>3, <2>10
<1>5. \A i \in 1 .. n : MatchOrder[i] \notin F[1 .. n]
  BY <1>1, <1>4
<1> QED
  BY <1>1, <1>2, <1>5

(* Something that was read in f and is still there has been reported, or   *)
(* could not be pruned, or is in the text that is being scanned.           *)
Reported(f, s) ==
  \/ access[f] = "oversized"
  \/ ~ args.prune /\ total
  \/ args.prune /\ (args.json \/ access[f] = "read_only")
  \/ reading.file = f /\ s \in reading.text

CommandTypes ==
  /\ DOMAIN disk = Files /\ DOMAIN seen = Files
  /\ total \in BOOLEAN /\ args.prune \in BOOLEAN

CommandIInv ==
  /\ CommandTypes
  /\ exit # "scanning" => reading = Nothing
  /\ exit = "0" /\ args.first = "path" => args.prune \/ ~ total
  /\ args.first = "path" =>
       \A f \in Files : \A s \in FileSecrets \cap seen[f] \cap disk[f] : Reported(f, s)

(* Nothing has been read.                                                  *)
LEMMA CommandStarts == CommandInit => CommandIInv
<1> SUFFICES ASSUME CommandInit PROVE CommandIInv
  OBVIOUS
<1>1. CommandTypes
  BY DEF CommandInit, CommandTypes, Nothing
<1> QED
  BY <1>1 DEF CommandInit, CommandIInv

(* A file is read.                                                         *)
LEMMA ReadKeeps ==
  ASSUME CommandIInv, NEW f \in Files, ReadFile(f)
  PROVE  CommandIInv'
<1>1. UNCHANGED <<args, access, disk, total, exit>> /\ exit = "scanning" /\ reading = Nothing
  BY DEF ReadFile
<1>2. CASE access[f] = "unreadable"
  BY <1>1, <1>2 DEF ReadFile, CommandIInv, CommandTypes, Reported
<1>3. CASE access[f] # "unreadable"
  <2>1. /\ reading' = [file |-> f, text |-> disk[f]]
        /\ seen' = [seen EXCEPT ![f] = disk[f]]
    BY <1>3 DEF ReadFile
  <2>2. CommandTypes'
    BY <1>1, <2>1 DEF CommandIInv, CommandTypes
  <2>3. ASSUME args.first = "path", NEW g \in Files, NEW s \in FileSecrets \cap seen'[g] \cap disk'[g]
        PROVE  Reported(g, s)'
    <3>1. CASE g = f
      BY <1>1, <2>1, <2>3, <3>1 DEF Reported
    <3>2. CASE g # f
      <4>1. seen'[g] = seen[g] /\ disk'[g] = disk[g]
        BY <1>1, <2>1, <3>2 DEF CommandIInv, CommandTypes
      <4>2. Reported(g, s)
        BY <2>3, <4>1 DEF CommandIInv
      <4>3. s \notin reading.text
        BY <1>1 DEF Nothing
      <4> QED
        BY <1>1, <4>2, <4>3 DEF Reported
    <3> QED
      BY <3>1, <3>2
  <2> QED
    BY <1>1, <2>2, <2>3 DEF CommandIInv
<1> QED
  BY <1>2, <1>3

(* A scan has returned: what it found is reported or pruned.               *)
LEMMA HandleKeeps ==
  ASSUME CommandIInv, HandleFile
  PROVE  CommandIInv'
<1>1. /\ UNCHANGED <<args, access, exit, seen>> /\ reading # Nothing /\ reading' = Nothing
      /\ total' = (total \/ Found # {})
  BY DEF HandleFile
<1>2. exit = "scanning"
  BY <1>1 DEF CommandIInv
<1>3. CommandTypes'
  BY <1>1 DEF HandleFile, CommandIInv, CommandTypes, Nothing
<1>4. ASSUME args.first = "path", NEW f \in Files, NEW s \in FileSecrets \cap seen[f] \cap disk'[f]
      PROVE  Reported(f, s)'
  <2>1. CASE disk'[f] # disk[f]
    <3>1. f = reading.file /\ disk' = [disk EXCEPT ![reading.file] = Pruned(reading.text)]
      BY <2>1 DEF HandleFile, CommandIInv, CommandTypes
    <3>2. disk'[f] = Pruned(reading.text)
      BY <3>1 DEF CommandIInv, CommandTypes
    <3> QED
      BY <1>4, <3>2, PrunedIsClean
  <2>2. CASE disk'[f] = disk[f]
    <3>1. Reported(f, s)
      BY <1>4, <2>2 DEF CommandIInv
    <3>2. CASE ~ (reading.file = f /\ s \in reading.text)
      BY <1>1, <3>1, <3>2 DEF Reported
    <3>3. CASE reading.file = f /\ s \in reading.text /\ access[f] # "oversized"
      <4>1. s \in Found
        BY <3>3 DEF Found
      <4>2. total'
        BY <1>1, <4>1
      <4>3. CASE ~ args.prune
        BY <1>1, <4>2, <4>3 DEF Reported
      <4>4. CASE args.prune
        <5>1. args.json \/ access[f] = "read_only" \/ disk' = [disk EXCEPT ![f] = Pruned(reading.text)]
          BY <1>4, <3>3, <4>1, <4>4 DEF HandleFile, Pruning
        <5>2. disk' = [disk EXCEPT ![f] = Pruned(reading.text)] => s \notin disk'[f]
          BY PrunedIsClean DEF CommandIInv, CommandTypes
        <5> QED
          BY <1>1, <4>4, <5>1, <5>2 DEF Reported
      <4> QED
        BY <4>3, <4>4
    <3>4. CASE access[f] = "oversized"
      BY <1>1, <3>4 DEF Reported
    <3> QED
      BY <3>2, <3>3, <3>4
  <2> QED
    BY <2>1, <2>2
<1> QED
  BY <1>1, <1>2, <1>3, <1>4 DEF CommandIInv

(* Another program writes: what was read there is no longer held against   *)
(* the command.                                                            *)
LEMMA OtherWriteKeeps ==
  ASSUME CommandIInv, NEW f \in Files, OtherWrites(f)
  PROVE  CommandIInv'
<1>1. UNCHANGED <<args, access, reading, total, exit>>
  BY DEF OtherWrites
<1>2. CommandTypes'
  BY <1>1 DEF OtherWrites, CommandIInv, CommandTypes
<1>3. ASSUME args.first = "path", NEW g \in Files, NEW s \in FileSecrets \cap seen'[g] \cap disk'[g]
      PROVE  Reported(g, s)'
  <2>1. g # f
    BY DEF OtherWrites, CommandIInv, CommandTypes
  <2>2. seen'[g] = seen[g] /\ disk'[g] = disk[g]
    BY <2>1 DEF OtherWrites, CommandIInv, CommandTypes
  <2>3. Reported(g, s)
    BY <1>3, <2>2 DEF CommandIInv
  <2> QED
    BY <1>1, <2>3 DEF Reported
<1> QED
  BY <1>1, <1>2, <1>3 DEF CommandIInv

(* The invariant is inductive.                                             *)
LEMMA CommandSteps == CommandIInv /\ [CommandNext]_commanding => CommandIInv'
<1> SUFFICES ASSUME CommandIInv, [CommandNext]_commanding PROVE CommandIInv'
  OBVIOUS
<1>1. CASE UNCHANGED commanding
  BY <1>1 DEF commanding, CommandIInv, CommandTypes, Reported
<1>2. CASE Main
  BY <1>2 DEF Main, CommandIInv, CommandTypes, Reported
<1>3. CASE Finish
  BY <1>3 DEF Finish, CommandIInv, CommandTypes, Reported, GitMode
<1>4. CASE HandleFile
  BY <1>4, HandleKeeps
<1>5. ASSUME NEW f \in Files, ReadFile(f) \/ OtherWrites(f) PROVE CommandIInv'
  BY <1>5, ReadKeeps, OtherWriteKeeps
<1> QED
  BY <1>1, <1>2, <1>3, <1>4, <1>5 DEF CommandNext

LEMMA CommandInvHolds == EdgesSpec => []CommandIInv
BY EdgesStart, EdgesStep, CommandStarts, CommandSteps, PTL DEF EdgesSpec, edges

(* Exit code 0 means that no secret that was read is still there in whole, *)
(* for any number of files, secrets and writes of other programs, and in   *)
(* whatever order the patterns stand (cli/src/index.ts).                   *)
THEOREM ExitMeansCleanHolds == EdgesSpec => []ExitMeansClean
<1>1. CommandIInv => ExitMeansClean
  BY DEF CommandIInv, ExitMeansClean, Reported, Nothing
<1> QED
  BY <1>1, CommandInvHolds, PTL

(***************************************************************************)
(* The sum of a histogram.                                                 *)
(***************************************************************************)
SumOf(d, S) == MapThenSumSet(LAMBDA x : d[x], S)

Some(s) == CHOOSE x \in s : TRUE

(* g sums d over the subsets of S with at most n elements.                 *)
Sums(g, d, S, n) ==
  g = [s \in {T \in SUBSET S : Cardinality(T) <= n} |->
         IF s = {} THEN 0 ELSE d[Some(s)] + g[s \ {Some(s)}]]

(* Taking some element leaves fewer.                                       *)
LEMMA SomeSmaller ==
  ASSUME NEW s, IsFiniteSet(s), s # {}
  PROVE  /\ Some(s) \in s /\ IsFiniteSet(s \ {Some(s)})
         /\ Cardinality(s) \in Nat /\ Cardinality(s \ {Some(s)}) = Cardinality(s) - 1
<1>1. Some(s) \in s
  BY DEF Some
<1> QED
  BY <1>1, FS_RemoveElement, FS_CardinalityType

(* There is such a function for any n.                                     *)
LEMMA SumsStep ==
  ASSUME NEW S, IsFiniteSet(S), NEW d, NEW n \in Nat, NEW g, Sums(g, d, S, n)
  PROVE  \E h : Sums(h, d, S, n + 1)
<1> DEFINE Small(k) == {T \in SUBSET S : Cardinality(T) <= k}
           h == [s \in Small(n + 1) |->
                   IF s \in Small(n) THEN g[s] ELSE d[Some(s)] + g[s \ {Some(s)}]]
<1>1. ASSUME NEW s \in Small(n + 1)
      PROVE  h[s] = IF s = {} THEN 0 ELSE d[Some(s)] + h[s \ {Some(s)}]
  <2>1. IsFiniteSet(s) /\ Cardinality(s) \in Nat
    BY FS_Subset, FS_CardinalityType
  <2>2. CASE s = {}
    <3>1. s \in Small(n)
      BY <2>2, FS_EmptySet
    <3>2. g[s] = 0
      BY <2>2, <3>1 DEF Sums
    <3> QED
      BY <2>2, <3>1, <3>2
  <2>3. CASE s # {}
    <3>1. Some(s) \in s /\ Cardinality(s \ {Some(s)}) = Cardinality(s) - 1
      BY <2>1, <2>3, SomeSmaller
    <3>2. s \ {Some(s)} \in Small(n) /\ s \ {Some(s)} \in Small(n + 1)
      BY <2>1, <3>1
    <3>3. h[s \ {Some(s)}] = g[s \ {Some(s)}]
      BY <3>2
    <3>4. s \in Small(n) => g[s] = d[Some(s)] + g[s \ {Some(s)}]
      BY <2>3 DEF Sums
    <3>5. h[s] = IF s \in Small(n) THEN g[s] ELSE d[Some(s)] + g[s \ {Some(s)}]
      OBVIOUS
    <3> HIDE DEF h
    <3> QED
      BY <2>3, <3>3, <3>4, <3>5
  <2> QED
    BY <2>2, <2>3
<1>2. h = [s \in Small(n + 1) |-> h[s]]
  OBVIOUS
<1> HIDE DEF h
<1>3. [s \in Small(n + 1) |-> h[s]] =
        [s \in Small(n + 1) |-> IF s = {} THEN 0 ELSE d[Some(s)] + h[s \ {Some(s)}]]
  BY <1>1
<1>4. Sums(h, d, S, n + 1)
  BY <1>2, <1>3 DEF Sums
<1> QED
  BY <1>4

LEMMA SumsExist ==
  ASSUME NEW S, IsFiniteSet(S), NEW d, NEW n \in Nat
  PROVE  \E g : Sums(g, d, S, n)
<1> DEFINE K == {m \in Nat : ~ \E g : Sums(g, d, S, m)}
<1>1. SUFFICES ASSUME K # {} PROVE FALSE
  BY <1>1
<1>2. PICK m \in K : \A k \in K : m <= k
  BY <1>1, LeastExists
<1>3. CASE m = 0
  <2> DEFINE g == [s \in {T \in SUBSET S : Cardinality(T) <= 0} |-> 0]
  <2>1. \A s \in {T \in SUBSET S : Cardinality(T) <= 0} : s = {}
    BY FS_Subset, FS_CardinalityType, FS_EmptySet
  <2>2. g = [s \in {T \in SUBSET S : Cardinality(T) <= 0} |->
               IF s = {} THEN 0 ELSE d[Some(s)] + g[s \ {Some(s)}]]
    BY <2>1
  <2>3. Sums(g, d, S, 0)
    BY <2>2 DEF Sums
  <2> QED
    BY <1>3, <2>3
<1>4. CASE m # 0
  <2>1. m - 1 \in Nat /\ m - 1 \notin K
    BY <1>2, <1>4
  <2>2. PICK g : Sums(g, d, S, m - 1)
    BY <2>1
  <2>3. \E h : Sums(h, d, S, m)
    BY <2>1, <2>2, SumsStep
  <2> QED
    BY <2>3
<1> QED
  BY <1>3, <1>4

(* g tells the sum of d over every subset of S.                            *)
SumsBy(g, d, S) ==
  /\ SumOf(d, S) = g[S] /\ g[{}] = 0
  /\ \A s \in SUBSET S : s # {} => g[s] = d[Some(s)] + g[s \ {Some(s)}]

(* So the sum is that of some element and of the rest.                     *)
LEMMA SumIs ==
  ASSUME NEW S, IsFiniteSet(S), NEW d
  PROVE  \E g : SumsBy(g, d, S)
<1> DEFINE Sum(g) == g = [s \in SUBSET S |->
                            IF s = {} THEN 0 ELSE d[Some(s)] + g[s \ {Some(s)}]]
           F == CHOOSE g : Sum(g)
<1>1. SumOf(d, S) = F[S]
  BY DEF SumOf, MapThenSumSet, MapThenFoldSet, Some
<1>2. {T \in SUBSET S : Cardinality(T) <= Cardinality(S)} = SUBSET S
  BY FS_Subset
<1>3. PICK g : Sums(g, d, S, Cardinality(S))
  BY SumsExist, FS_CardinalityType
<1>4. Sum(g)
  BY <1>2, <1>3 DEF Sums
<1>5. Sum(F)
  BY <1>4
<1> HIDE DEF F
<1>6. SumsBy(F, d, S)
  BY <1>1, <1>5 DEF SumsBy
<1> QED
  BY <1>6

(* A histogram of nothing sums up to 0.                                    *)
LEMMA SumOfNothing ==
  ASSUME NEW S, IsFiniteSet(S), NEW d, \A x \in S : d[x] = 0
  PROVE  SumOf(d, S) = 0
<1>1. PICK g : SumsBy(g, d, S)
  BY SumIs
<1> DEFINE K == {n \in Nat : \E s \in SUBSET S : Cardinality(s) = n /\ g[s] # 0}
<1>2. K = {}
  <2>1. SUFFICES ASSUME K # {} PROVE FALSE
    OBVIOUS
  <2>2. PICK n \in K : \A k \in K : n <= k
    BY <2>1, LeastExists
  <2>3. PICK s \in SUBSET S : Cardinality(s) = n /\ g[s] # 0
    BY <2>2
  <2>4. IsFiniteSet(s) /\ s # {}
    BY <1>1, <2>3, FS_Subset DEF SumsBy
  <2>5. /\ Some(s) \in s /\ s \ {Some(s)} \in SUBSET S
        /\ Cardinality(s \ {Some(s)}) = n - 1 /\ n - 1 \in Nat
    <3>1. Some(s) \in s /\ Cardinality(s \ {Some(s)}) = n - 1 /\ IsFiniteSet(s \ {Some(s)})
      BY <2>3, <2>4, SomeSmaller
    <3>2. Cardinality(s \ {Some(s)}) \in Nat
      BY <3>1, FS_CardinalityType
    <3> QED
      BY <3>1, <3>2
  <2>6. g[s \ {Some(s)}] = 0
    BY <2>2, <2>5
  <2> QED
    BY <1>1, <2>3, <2>4, <2>5, <2>6 DEF SumsBy
<1>3. g[S] = 0
  BY <1>2, FS_CardinalityType
<1> QED
  BY <1>1, <1>3 DEF SumsBy

(* One more in one place is one more altogether.                           *)
LEMMA SumGrows ==
  ASSUME NEW S, IsFiniteSet(S), NEW d \in [S -> Nat], NEW b \in S
  PROVE  SumOf([d EXCEPT ![b] = @ + 1], S) = SumOf(d, S) + 1
<1>0. PICK e : e = [d EXCEPT ![b] = @ + 1]
  OBVIOUS
<1>1. PICK g : SumsBy(g, d, S)
  BY SumIs
<1>2. PICK h : SumsBy(h, e, S)
  BY SumIs
<1> DEFINE P(s) == g[s] \in Nat /\ h[s] = g[s] + IF b \in s THEN 1 ELSE 0
           K == {n \in Nat : \E s \in SUBSET S : Cardinality(s) = n /\ ~ P(s)}
<1>3. K = {}
  <2>1. SUFFICES ASSUME K # {} PROVE FALSE
    OBVIOUS
  <2>2. PICK n \in K : \A k \in K : n <= k
    BY <2>1, LeastExists
  <2>3. PICK s \in SUBSET S : Cardinality(s) = n /\ ~ P(s)
    BY <2>2
  <2>4. IsFiniteSet(s) /\ s # {}
    <3>1. P({})
      BY <1>1, <1>2 DEF SumsBy
    <3> HIDE DEF P
    <3> QED
      BY <2>3, <3>1, FS_Subset
  <2>5. PICK x \in s : x = Some(s)
    BY <2>4, SomeSmaller
  <2>6. s \ {x} \in SUBSET S /\ Cardinality(s \ {x}) = n - 1 /\ n - 1 \in Nat
    <3>1. Cardinality(s \ {x}) = n - 1 /\ IsFiniteSet(s \ {x})
      BY <2>3, <2>4, <2>5, SomeSmaller
    <3>2. Cardinality(s \ {x}) \in Nat
      BY <3>1, FS_CardinalityType
    <3> QED
      BY <3>1, <3>2
  <2>7. P(s \ {x})
    BY <2>2, <2>6
  <2>8. g[s] = d[x] + g[s \ {x}] /\ h[s] = e[x] + h[s \ {x}]
    BY <1>1, <1>2, <2>4, <2>5 DEF SumsBy
  <2>9. d[x] \in Nat /\ e[x] = d[x] + IF x = b THEN 1 ELSE 0
    BY <1>0, <2>5
  <2>10. h[s \ {x}] = g[s \ {x}] + (IF b \in s /\ b # x THEN 1 ELSE 0) /\ g[s \ {x}] \in Nat
    BY <2>7
  <2>11. P(s)
    BY <2>5, <2>8, <2>9, <2>10
  <2> QED
    BY <2>3, <2>11
<1>4. P(S)
  BY <1>3, FS_CardinalityType
<1> QED
  BY <1>0, <1>1, <1>2, <1>4 DEF SumsBy

(***************************************************************************)
(* Bookkeeping.                                                            *)
(***************************************************************************)
Places == {"absent", "limited", "open", "finished", "broken", "gone"}

Counting == In("open") \cup In("broken") \cup In("gone")

Happened == inserting \cup usage \cup lost

EventsOf(r) == {e \in Happened : e.of = r}

(* Only a user's finished request to the API is a usage event.             *)
Used(r) == r \in In("finished") /\ request[r].route \in Endpoints /\ request[r].user # Anonymous

AnyRequest ==
  [at : Places, route : Endpoints \cup {"page", "sse"}, checking : BOOLEAN,
   user : Callers \cup {Anonymous}]

MetricsTypes ==
  /\ request \in [Requests -> AnyRequest]
  /\ \A r \in Requests : request[r].checking => request[r].at \in {"open", "gone"}
  /\ durations \in [Buckets -> Nat]
  /\ IsFiniteSet(Happened)

EventsOK ==
  \A r \in Requests : IF Used(r) THEN \E e : EventsOf(r) = {e} ELSE EventsOf(r) = {}

(* What a report has counted was there and still is; the status codes are  *)
(* counted last, with all that was counted before.                         *)
ReportOK ==
  /\ usageReport = [for |-> usageReport.for, rows |-> usageReport.rows]
  /\ Counted \subseteq Queries
  /\ \A q \in Counted :
       \A row \in usageReport.rows[q] :
         row \in usage /\ row.by = usageReport.for /\ (q = "errors" => row.status >= 400)
  /\ "statuses" \in Counted =>
       Counted = Queries /\ \A q \in Counted : usageReport.rows[q] \subseteq usageReport.rows["statuses"]

MetricsIInv ==
  /\ MetricsTypes
  /\ active = Cardinality(Counting)
  /\ SumOf(durations, Buckets) = Cardinality(In("finished"))
  /\ EventsOK /\ SessionsOpen /\ ReportOK

(* The five buckets.                                                       *)
LEMMA BucketsFinite == IsFiniteSet(Buckets)
<1>1. Buckets = {"1xx"} \cup {"2xx"} \cup {"3xx"} \cup {"4xx"} \cup {"5xx"}
  BY DEF Buckets
<1>2. /\ IsFiniteSet({"1xx"}) /\ IsFiniteSet({"2xx"}) /\ IsFiniteSet({"3xx"})
      /\ IsFiniteSet({"4xx"}) /\ IsFiniteSet({"5xx"})
  BY FS_Singleton
<1>3. IsFiniteSet({"1xx"} \cup {"2xx"}) /\ IsFiniteSet({"4xx"} \cup {"5xx"})
  BY <1>2, FS_Union
<1>4. IsFiniteSet(({"1xx"} \cup {"2xx"}) \cup {"3xx"})
  BY <1>2, <1>3, FS_Union
<1>5. IsFiniteSet((({"1xx"} \cup {"2xx"}) \cup {"3xx"}) \cup ({"4xx"} \cup {"5xx"}))
  BY <1>3, <1>4, FS_Union
<1>6. Buckets = (({"1xx"} \cup {"2xx"}) \cup {"3xx"}) \cup ({"4xx"} \cup {"5xx"})
  BY <1>1
<1> QED
  BY <1>5, <1>6

(* The sum after a step is that of the histogram after it.                 *)
LEMMA SumAfter == SumOf(durations, Buckets)' = SumOf(durations', Buckets)
BY DEF SumOf, MapThenSumSet, MapThenFoldSet, Buckets

(* Nothing has happened.                                                   *)
LEMMA MetricsStart == MetricsInit => MetricsIInv
<1> SUFFICES ASSUME MetricsInit PROVE MetricsIInv
  OBVIOUS
<1>1. \A r \in Requests : request[r] = Absent
  BY DEF MetricsInit
<1>2. Counting = {} /\ In("finished") = {} /\ Happened = {}
  BY <1>1 DEF Counting, In, Absent, MetricsInit, Happened
<1>3. Cardinality(Counting) = 0 /\ Cardinality(In("finished")) = 0 /\ IsFiniteSet(Happened)
  BY <1>2, FS_EmptySet
<1>4. MetricsTypes
  BY <1>3 DEF MetricsInit, MetricsTypes, AnyRequest, Absent, Places
<1>5. SumOf(durations, Buckets) = 0
  <2>1. IsFiniteSet(Buckets)
    BY BucketsFinite
  <2> QED
    BY <2>1, SumOfNothing DEF MetricsInit
<1>6. EventsOK
  BY <1>2 DEF EventsOK, Used, EventsOf
<1>7. SessionsOpen
  BY <1>1 DEF SessionsOpen, In, Absent, MetricsInit
<1>8. ReportOK
  BY DEF ReportOK, MetricsInit, NoReport, Counted
<1> QED
  BY <1>3, <1>4, <1>5, <1>6, <1>7, <1>8 DEF MetricsIInv, MetricsInit

(* A request that goes from one place to another.                          *)
Goes(r, there) ==
  /\ request'[r].at = there
  /\ \A s \in Requests \ {r} : request'[s] = request[s]

LEMMA GoesMoves ==
  ASSUME NEW r \in Requests, NEW there \in Places, Goes(r, there), NEW place \in Places
  PROVE  In(place)' = IF place = there THEN In(place) \cup {r} ELSE In(place) \ {r}
BY DEF Goes, In

(* The counts go along.                                                    *)
LEMMA GoesCounts ==
  ASSUME MetricsIInv, NEW r \in Requests, NEW there \in {"limited", "open", "finished", "broken", "gone"},
         Goes(r, there),
         request[r].at = IF there \in {"limited", "open"} THEN "absent" ELSE "open"
  PROVE  /\ Cardinality(Counting') = active + (IF there = "open" THEN 1 ELSE 0)
                                            - (IF there = "finished" THEN 1 ELSE 0)
         /\ Cardinality(In("finished")') =
              Cardinality(In("finished")) + (IF there = "finished" THEN 1 ELSE 0)
         /\ there # "finished" => Counting' = Counting \cup {r} \/ Counting' = Counting
<1>1. /\ In("open")' = IF there = "open" THEN In("open") \cup {r} ELSE In("open") \ {r}
      /\ In("broken")' = IF there = "broken" THEN In("broken") \cup {r} ELSE In("broken") \ {r}
      /\ In("gone")' = IF there = "gone" THEN In("gone") \cup {r} ELSE In("gone") \ {r}
      /\ In("finished")' = IF there = "finished" THEN In("finished") \cup {r} ELSE In("finished") \ {r}
  BY GoesMoves DEF Places
<1>2. /\ r \notin In("finished") /\ r \notin In("broken") /\ r \notin In("gone")
      /\ r \in In("open") <=> there \in {"finished", "broken", "gone"}
  BY DEF In
<1>3. IsFiniteSet(Counting) /\ IsFiniteSet(In("finished"))
  BY RequestMetricsAssumption, FS_Subset DEF Counting, In
<1>4. Cardinality(Counting) \in Nat /\ Cardinality(In("finished")) \in Nat /\ active = Cardinality(Counting)
  BY <1>3, FS_CardinalityType DEF MetricsIInv
<1>5. Counting' = IF there = "open" THEN Counting \cup {r} ELSE
                  IF there = "finished" THEN Counting \ {r} ELSE Counting
  BY <1>1, <1>2 DEF Counting
<1>6. r \in Counting <=> there \in {"finished", "broken", "gone"}
  BY <1>2 DEF Counting
<1>7. Cardinality(Counting') = active + (IF there = "open" THEN 1 ELSE 0)
                                      - (IF there = "finished" THEN 1 ELSE 0)
  <2>0. active \in Nat
    BY <1>4
  <2>1. CASE there = "open"
    <3>1. Cardinality(Counting \cup {r}) = Cardinality(Counting) + 1
      BY <1>3, <1>6, <2>1, FS_AddElement
    <3>2. Cardinality(Counting') = active + 1
      BY <1>4, <1>5, <2>1, <3>1
    <3> QED
      BY <2>0, <2>1, <3>2
  <2>2. CASE there = "finished"
    <3>1. Cardinality(Counting \ {r}) = Cardinality(Counting) - 1
      BY <1>3, <1>6, <2>2, FS_RemoveElement
    <3>2. Cardinality(Counting') = active - 1
      BY <1>4, <1>5, <2>2, <3>1
    <3> QED
      BY <2>0, <2>2, <3>2
  <2>3. CASE there # "open" /\ there # "finished"
    <3>1. Cardinality(Counting') = active
      BY <1>4, <1>5, <2>3
    <3> QED
      BY <2>0, <2>3, <3>1
  <2> QED
    BY <2>1, <2>2, <2>3
<1>8. In("finished")' = IF there = "finished" THEN In("finished") \cup {r} ELSE In("finished")
  BY <1>1, <1>2
<1>9. Cardinality(In("finished")') = Cardinality(In("finished")) + (IF there = "finished" THEN 1 ELSE 0)
  <2>1. CASE there = "finished"
    BY <1>2, <1>3, <1>4, <1>8, <2>1, FS_AddElement
  <2>2. CASE there # "finished"
    BY <1>4, <1>8, <2>2
  <2> QED
    BY <2>1, <2>2
<1> QED
  BY <1>5, <1>7, <1>9

(* A request that does not finish leaves the events as they are.           *)
LEMMA EventsStay ==
  ASSUME MetricsIInv, NEW r \in Requests, NEW there \in {"limited", "open", "broken", "gone"},
         Goes(r, there), request[r].at # "finished", UNCHANGED <<inserting, usage, lost>>
  PROVE  EventsOK' /\ Happened' = Happened
<1>1. Happened' = Happened
  BY DEF Happened
<1>2. ASSUME NEW s \in Requests PROVE Used(s)' = Used(s)
  <2>1. CASE s = r
    BY <2>1 DEF Goes, Used, In
  <2>2. CASE s # r
    BY <2>2 DEF Goes, Used, In
  <2> QED
    BY <2>1, <2>2
<1>3. \A s \in Requests : EventsOf(s)' = EventsOf(s)
  BY <1>1 DEF EventsOf
<1>4. EventsOK'
  BY <1>2, <1>3 DEF EventsOK, MetricsIInv
<1> QED
  BY <1>1, <1>4

(* The rows that were counted stay while the table grows.                  *)
LEMMA ReportStays ==
  ASSUME ReportOK, UNCHANGED usageReport, usage \subseteq usage'
  PROVE  ReportOK'
BY DEF ReportOK, Counted

(* A request is limited, arrives, or breaks off.                           *)
LEMMA UnfinishedKeeps ==
  ASSUME MetricsIInv, NEW r \in Requests, RateLimited(r) \/ Arrive(r) \/ BreakOff(r)
  PROVE  MetricsIInv'
<1>1. PICK there \in {"limited", "open", "broken", "gone"} :
        /\ there = "limited" => RateLimited(r)
        /\ there = "open" => Arrive(r)
        /\ there \in {"broken", "gone"} =>
             BreakOff(r) /\ there = IF request[r].checking THEN "gone" ELSE "broken"
  OBVIOUS
<1>2. request \in [Requests -> AnyRequest]
  BY DEF MetricsIInv, MetricsTypes
<1>3. /\ UNCHANGED <<durations, inserting, usage, lost, usageReport, reports>>
      /\ active' = active + (IF there = "open" THEN 1 ELSE 0)
  <2>1. active \in Nat
    <3>1. IsFiniteSet(Counting)
      BY RequestMetricsAssumption, FS_Subset DEF Counting, In
    <3> QED
      BY <3>1, FS_CardinalityType DEF MetricsIInv
  <2> QED
    BY <1>1, <2>1 DEF RateLimited, Arrive, BreakOff
<1>4. /\ Goes(r, there) /\ request[r].at = IF there \in {"limited", "open"} THEN "absent" ELSE "open"
      /\ request' \in [Requests -> AnyRequest]
      /\ request'[r].checking => there \in {"open", "gone"}
  <2>1. CASE there = "limited"
    BY <1>1, <1>2, <2>1 DEF RateLimited, Goes, Absent, Places, AnyRequest
  <2>2. CASE there = "open"
    <3>1. PICK route \in {"page", "sse"} \cup Endpoints :
            request' = [request EXCEPT ![r] =
              [at |-> "open", route |-> route, checking |-> route # "page", user |-> Anonymous]]
      BY <1>1, <2>2 DEF Arrive
    <3> QED
      BY <1>1, <1>2, <2>2, <3>1 DEF Arrive, Goes, Absent, Places, AnyRequest
  <2>3. CASE there \in {"broken", "gone"}
    BY <1>1, <1>2, <2>3 DEF BreakOff, Goes, Places, AnyRequest
  <2> QED
    BY <2>1, <2>2, <2>3
<1>5. EventsOK' /\ Happened' = Happened
  BY <1>3, <1>4, EventsStay
<1>6. MetricsTypes'
  <2>1. ASSUME NEW s \in Requests, request'[s].checking
        PROVE  request'[s].at \in {"open", "gone"}
    BY <1>4, <2>1 DEF Goes, MetricsTypes, MetricsIInv
  <2> QED
    BY <1>3, <1>4, <1>5, <2>1 DEF MetricsTypes, MetricsIInv
<1>7. active' = Cardinality(Counting')
  BY <1>3, <1>4, GoesCounts
<1>8. SumOf(durations, Buckets)' = Cardinality(In("finished")')
  <2>1. Cardinality(In("finished")) \in Nat
    <3>1. IsFiniteSet(In("finished"))
      BY RequestMetricsAssumption, FS_Subset DEF In
    <3> QED
      BY <3>1, FS_CardinalityType
  <2>2. Cardinality(In("finished")') = Cardinality(In("finished"))
    BY <1>4, <2>1, GoesCounts
  <2>3. SumOf(durations', Buckets) = SumOf(durations, Buckets)
    BY <1>3
  <2> QED
    BY <2>2, <2>3, SumAfter DEF MetricsIInv
<1>9. SessionsOpen'
  <2>1. CASE there = "limited"
    BY <1>1, <1>4, <2>1 DEF RateLimited, Absent, MetricsIInv, SessionsOpen, Goes, In
  <2>2. CASE there = "open"
    <3>1. PICK route \in {"page", "sse"} \cup Endpoints :
            /\ request' = [request EXCEPT ![r] =
                 [at |-> "open", route |-> route, checking |-> route # "page", user |-> Anonymous]]
            /\ transports' = transports
      BY <1>1, <2>2 DEF Arrive
    <3>2. request'[r].route = route /\ request'[r].checking = (route # "page")
      BY <1>2, <3>1
    <3>3. request'[r].route = "sse" => request'[r].checking
      BY <3>2
    <3> QED
      BY <1>4, <2>2, <3>1, <3>3 DEF MetricsIInv, SessionsOpen, Goes, In
  <2>3. CASE there \in {"broken", "gone"}
    <3>1. /\ transports' = transports \ {r} /\ there = IF request[r].checking THEN "gone" ELSE "broken"
          /\ request'[r].checking = request[r].checking
      BY <1>1, <1>2, <2>3 DEF BreakOff, AnyRequest
    <3> QED
      BY <1>4, <2>3, <3>1 DEF MetricsIInv, SessionsOpen, Goes, In
  <2> QED
    BY <2>1, <2>2, <2>3
<1>10. ReportOK'
  BY <1>3, ReportStays DEF MetricsIInv
<1> QED
  BY <1>5, <1>6, <1>7, <1>8, <1>9, <1>10 DEF MetricsIInv

(* A request is let in or refused, where its connection is or was.         *)
LEMMA CheckedKeeps ==
  ASSUME MetricsIInv, NEW r \in Requests, LetIn(r) \/ Refuse(r)
  PROVE  MetricsIInv'
<1>1. /\ UNCHANGED <<active, durations, inserting, usage, lost, usageReport, reports>>
      /\ request[r].checking
  BY DEF LetIn, Refuse
<1>2. request \in [Requests -> AnyRequest] /\ request[r].at \in {"open", "gone"}
  BY <1>1 DEF MetricsIInv, MetricsTypes
<1>3. /\ request' \in [Requests -> AnyRequest] /\ ~ request'[r].checking
      /\ request'[r].at = request[r].at
      /\ \A s \in Requests \ {r} : request'[s] = request[s]
  <2>1. CASE LetIn(r)
    <3>1. PICK user \in Callers :
            request' = [request EXCEPT ![r].checking = FALSE, ![r].user = user]
      BY <2>1 DEF LetIn
    <3> QED
      BY <1>2, <3>1 DEF AnyRequest
  <2>2. CASE Refuse(r)
    BY <1>2, <2>2 DEF Refuse, AnyRequest
  <2> QED
    BY <2>1, <2>2
<1>4. \A place \in Places : In(place)' = In(place)
  BY <1>3 DEF In
<1>5. Counting' = Counting /\ In("finished")' = In("finished")
  BY <1>4 DEF Counting, Places
<1>6. MetricsTypes'
  <2>1. ASSUME NEW s \in Requests, request'[s].checking
        PROVE  request'[s].at \in {"open", "gone"}
    BY <1>3, <2>1 DEF MetricsTypes, MetricsIInv
  <2> QED
    BY <1>1, <1>3, <2>1 DEF MetricsTypes, MetricsIInv, Happened
<1>7. EventsOK'
  <2>1. ASSUME NEW s \in Requests PROVE EventsOf(s)' = EventsOf(s) /\ (Used(s)' <=> Used(s))
    BY <1>1, <1>2, <1>3 DEF EventsOf, Happened, Used, In
  <2> QED
    BY <2>1 DEF MetricsIInv, EventsOK
<1>8. SessionsOpen'
  <2>1. request[r].checking /\ r \in In("open") \cup In("gone") /\ r \notin transports
    BY <1>1, <1>2 DEF In, MetricsIInv, SessionsOpen
  <2>2. transports' = IF request'[r].route = "sse" THEN transports \cup {r} ELSE transports
    <3>1. CASE LetIn(r)
      <4>1. request'[r].route = request[r].route
        BY <1>2, <3>1 DEF LetIn, AnyRequest
      <4> QED
        BY <3>1, <4>1 DEF LetIn
    <3>2. CASE Refuse(r)
      BY <1>2, <3>2 DEF Refuse, AnyRequest
    <3> QED
      BY <3>1, <3>2
  <2> QED
    BY <1>3, <1>4, <2>1, <2>2 DEF In, MetricsIInv, SessionsOpen
<1>9. SumOf(durations, Buckets)' = Cardinality(In("finished"))
  <2>1. SumOf(durations', Buckets) = SumOf(durations, Buckets)
    BY <1>1
  <2> QED
    BY <2>1, SumAfter DEF MetricsIInv
<1>10. ReportOK'
  BY <1>1, ReportStays DEF MetricsIInv
<1> QED
  BY <1>1, <1>5, <1>6, <1>7, <1>8, <1>9, <1>10 DEF MetricsIInv

(* Every status code falls into a bucket.                                  *)
LEMMA BucketOfStatus ==
  ASSUME NEW code \in 200 .. 599
  PROVE  BucketStatus(code) \in Buckets
<1>1. CASE code >= 500
  BY <1>1 DEF BucketStatus, Buckets
<1>2. CASE code \in 400 .. 499
  BY <1>2 DEF BucketStatus, Buckets
<1>3. CASE code \in 300 .. 399
  BY <1>3 DEF BucketStatus, Buckets
<1>4. CASE code \in 200 .. 299
  BY <1>4 DEF BucketStatus, Buckets
<1> QED
  BY <1>1, <1>2, <1>3, <1>4

(* A request finishes.                                                     *)
LEMMA FinishedKeeps ==
  ASSUME MetricsIInv, NEW r \in Requests, FinishRequest(r)
  PROVE  MetricsIInv'
<1>1. PICK status \in Answers(r) :
        /\ durations' = [durations EXCEPT ![BucketStatus(status)] = @ + 1]
        /\ inserting' = inserting \cup UsageEvents(r, status)
  BY DEF FinishRequest
<1>2. /\ request \in [Requests -> AnyRequest]
      /\ durations \in [Buckets -> Nat]
  BY DEF MetricsIInv, MetricsTypes
<1>3. BucketStatus(status) \in Buckets
  <2>1. status \in 200 .. 599
    <3>1. Answers(r) = {401} \/ Answers(r) = StatusCodes
      BY DEF Answers
    <3>2. StatusCodes \subseteq 200 .. 599 /\ 401 \in StatusCodes
      BY RequestMetricsAssumption
    <3>3. status \in StatusCodes
      BY <3>1, <3>2
    <3> QED
      BY <3>2, <3>3
  <2> QED
    BY <2>1, BucketOfStatus
<1>4. /\ request[r].at = "open" /\ request[r].route # "sse" /\ ~ request[r].checking
      /\ active' = active - 1 /\ request' = [request EXCEPT ![r].at = "finished"]
      /\ UNCHANGED <<usage, lost, transports, usageReport, reports>>
  BY DEF FinishRequest
<1>5. /\ Goes(r, "finished") /\ request'[r].route = request[r].route /\ request'[r].user = request[r].user
      /\ request'[r].checking = request[r].checking /\ request' \in [Requests -> AnyRequest]
  BY <1>2, <1>4 DEF Goes, Places, AnyRequest
<1>6. /\ Cardinality(Counting') = active - 1
      /\ Cardinality(In("finished")') = Cardinality(In("finished")) + 1
  <2>1. active \in Nat /\ Cardinality(In("finished")) \in Nat
    <3>1. IsFiniteSet(Counting) /\ IsFiniteSet(In("finished"))
      BY RequestMetricsAssumption, FS_Subset DEF Counting, In
    <3> QED
      BY <3>1, FS_CardinalityType DEF MetricsIInv
  <2> QED
    BY <1>4, <1>5, <2>1, GoesCounts
<1>7. SumOf(durations', Buckets) = SumOf(durations, Buckets) + 1
  <2>1. IsFiniteSet(Buckets)
    BY BucketsFinite
  <2>2. PICK b \in Buckets : durations' = [durations EXCEPT ![b] = @ + 1]
    BY <1>1, <1>3
  <2> QED
    BY <1>2, <2>1, <2>2, SumGrows
<1>8. Happened' = Happened \cup UsageEvents(r, status)
  BY <1>1, <1>4 DEF Happened
<1>9. IsFiniteSet(Happened')
  <2>1. IsFiniteSet(UsageEvents(r, status))
    BY FS_EmptySet, FS_Singleton DEF UsageEvents
  <2> QED
    BY <1>8, <2>1, FS_Union DEF MetricsIInv, MetricsTypes
<1>10. EventsOK'
  <2>1. \A e \in UsageEvents(r, status) : e.of = r
    BY DEF UsageEvents
  <2>2. ASSUME NEW s \in Requests, s # r
        PROVE  (Used(s)' <=> Used(s)) /\ EventsOf(s)' = EventsOf(s)
    BY <1>5, <1>8, <2>1, <2>2 DEF Goes, Used, In, EventsOf
  <2>3. EventsOf(r) = {} /\ EventsOf(r)' = UsageEvents(r, status)
    <3>1. ~ Used(r)
      BY <1>4 DEF Used, In
    <3>2. EventsOf(r) = {}
      BY <3>1 DEF MetricsIInv, EventsOK
    <3> QED
      BY <1>8, <2>1, <3>2 DEF EventsOf
  <2>4. Used(r)' <=> request[r].route \in Endpoints /\ request[r].user # Anonymous
    BY <1>5 DEF Used, In, Goes
  <2>5. IF Used(r)' THEN \E e : EventsOf(r)' = {e} ELSE EventsOf(r)' = {}
    BY <2>3, <2>4 DEF UsageEvents
  <2>6. \A s \in Requests : IF Used(s) THEN \E e : EventsOf(s) = {e} ELSE EventsOf(s) = {}
    BY DEF MetricsIInv, EventsOK
  <2>7. ASSUME NEW s \in Requests
        PROVE  IF Used(s)' THEN \E e : EventsOf(s)' = {e} ELSE EventsOf(s)' = {}
    BY <2>2, <2>5, <2>6
  <2> QED
    BY <2>7 DEF EventsOK
<1>11. SessionsOpen'
  BY <1>4, <1>5 DEF MetricsIInv, SessionsOpen, Goes, In
<1>12. ReportOK'
  BY <1>4, ReportStays DEF MetricsIInv
<1>13. MetricsTypes'
  <2>1. ASSUME NEW s \in Requests, request'[s].checking
        PROVE  request'[s].at \in {"open", "gone"}
    BY <1>4, <1>5, <2>1 DEF Goes, MetricsTypes, MetricsIInv
  <2> QED
    BY <1>1, <1>2, <1>3, <1>5, <1>9, <2>1 DEF MetricsTypes
<1>14. SumOf(durations, Buckets)' = Cardinality(In("finished")')
  BY <1>6, <1>7, SumAfter DEF MetricsIInv
<1> QED
  BY <1>4, <1>6, <1>10, <1>11, <1>12, <1>13, <1>14 DEF MetricsIInv

(* An insert returns, or fails.                                            *)
LEMMA InsertKeeps ==
  ASSUME MetricsIInv, NEW e \in inserting, Inserted(e) \/ InsertFails(e)
  PROVE  MetricsIInv'
<1>1. UNCHANGED <<request, active, durations, transports, usageReport, reports>> /\ usage \subseteq usage'
  BY DEF Inserted, InsertFails
<1>2. Happened' = Happened
  BY DEF Inserted, InsertFails, Happened
<1>3. ReportOK'
  BY <1>1, ReportStays DEF MetricsIInv
<1>4. \A r \in Requests : EventsOf(r)' = EventsOf(r) /\ (Used(r)' <=> Used(r))
  BY <1>1, <1>2 DEF EventsOf, Used, In
<1>5. EventsOK'
  BY <1>4 DEF MetricsIInv, EventsOK
<1> QED
  BY <1>1, <1>2, <1>3, <1>5 DEF MetricsIInv, MetricsTypes, Counting, In, SessionsOpen

(* The queries of a report.                                                *)
LEMMA QueriesAre ==
  /\ DOMAIN Stages = 1 .. 4
  /\ Stages[1] = {"total", "series"} /\ Stages[2] = {"errors", "latency"}
  /\ Stages[3] = {"endpoints"} /\ Stages[4] = {"statuses"}
  /\ Queries = {"total", "series", "errors", "latency", "endpoints", "statuses"}
<1>1. DOMAIN Stages = 1 .. 4
  BY DEF Stages
<1>2. /\ Stages[1] = {"total", "series"} /\ Stages[2] = {"errors", "latency"}
      /\ Stages[3] = {"endpoints"} /\ Stages[4] = {"statuses"}
  BY DEF Stages
<1>3. 1 .. 4 = {1, 2, 3, 4}
  OBVIOUS
<1>4. Queries = Stages[1] \cup Stages[2] \cup Stages[3] \cup Stages[4]
  BY <1>1, <1>3 DEF Queries
<1> QED
  BY <1>1, <1>2, <1>4

(* What a query counts is the caller's, and in the table.                  *)
LEMMA RowsOfCaller ==
  ASSUME NEW q \in Queries, NEW user, NEW rows \in RowsOf(q, user)
  PROVE  /\ \A row \in rows : row \in usage /\ row.by = user /\ (q = "errors" => row.status >= 400)
         /\ q = "statuses" => rows = {row \in usage : row.by = user}
<1>1. CASE q = "errors"
  BY <1>1 DEF RowsOf
<1>2. CASE q = "endpoints"
  BY <1>2 DEF RowsOf
<1>3. CASE q \notin {"errors", "endpoints"}
  BY <1>3 DEF RowsOf
<1> QED
  BY <1>1, <1>2, <1>3

(* A report begins, counts, or fails.                                      *)
LEMMA ReportKeeps ==
  ASSUME MetricsIInv,
         (\E user \in Callers : BeginReport(user)) \/ (\E q \in Queries : RunQuery(q)) \/ QueryFails
  PROVE  MetricsIInv'
<1>1. UNCHANGED <<request, active, durations, inserting, usage, lost, transports>>
  BY DEF BeginReport, RunQuery, QueryFails
<1>2. ReportOK'
  <2>1. CASE (\E user \in Callers : BeginReport(user)) \/ QueryFails
    <3>1. Counted' = {} /\ usageReport' = [for |-> usageReport'.for, rows |-> usageReport'.rows]
      BY <2>1 DEF BeginReport, QueryFails, NoReport, Counted
    <3> QED
      BY <3>1 DEF ReportOK
  <2>2. ASSUME NEW q \in Queries, RunQuery(q) PROVE ReportOK'
    <3>1. PICK rows \in RowsOf(q, usageReport.for) :
            usageReport' = [usageReport EXCEPT !.rows =
              [p \in Counted \cup {q} |-> IF p = q THEN rows ELSE usageReport.rows[p]]]
      BY <2>2 DEF RunQuery
    <3>2. /\ q \notin Counted
          /\ \E i \in DOMAIN Stages : q \in Stages[i] /\ \A j \in 1 .. i - 1 : Stages[j] \subseteq Counted
      BY <2>2 DEF RunQuery
    <3>3. /\ Counted' = Counted \cup {q} /\ usageReport'.for = usageReport.for
          /\ \A p \in Counted \cup {q} :
               usageReport'.rows[p] = IF p = q THEN rows ELSE usageReport.rows[p]
      <4>1. "for" \in DOMAIN usageReport /\ "rows" \in DOMAIN usageReport
        BY DEF MetricsIInv, ReportOK
      <4> QED
        BY <3>1, <4>1 DEF Counted
    <3>12. usageReport' = [for |-> usageReport'.for, rows |-> usageReport'.rows]
      <4>1. PICK old : old = usageReport
        OBVIOUS
      <4>2. old = [for |-> old.for, rows |-> old.rows]
        BY <4>1 DEF MetricsIInv, ReportOK
      <4> QED
        BY <3>1, <4>1, <4>2
    <3>4. /\ \A row \in rows :
               row \in usage /\ row.by = usageReport.for /\ (q = "errors" => row.status >= 400)
          /\ q = "statuses" => rows = {row \in usage : row.by = usageReport.for}
      BY <3>1, RowsOfCaller
    <3>5. "statuses" \notin Counted
      BY <3>2 DEF MetricsIInv, ReportOK
    <3>6. q = "statuses" => Counted \cup {q} = Queries
      BY <3>2, QueriesAre DEF MetricsIInv, ReportOK
    <3>7. ASSUME NEW p \in Counted', NEW row \in usageReport'.rows[p]
          PROVE  row \in usage /\ row.by = usageReport.for /\ (p = "errors" => row.status >= 400)
      BY <3>3, <3>4, <3>7 DEF MetricsIInv, ReportOK
    <3>8. ASSUME q = "statuses"
          PROVE  \A p \in Counted' : usageReport'.rows[p] \subseteq usageReport'.rows["statuses"]
      BY <3>3, <3>4, <3>7, <3>8
    <3>9. "statuses" \in Counted' => q = "statuses"
      BY <3>3, <3>5
    <3>10. Counted' \subseteq Queries
      BY <3>3 DEF MetricsIInv, ReportOK
    <3>11. Queries' = Queries
      BY DEF Queries, Stages
    <3> QED
      BY <1>1, <3>3, <3>6, <3>7, <3>8, <3>9, <3>10, <3>11, <3>12 DEF ReportOK
  <2> QED
    BY <2>1, <2>2
<1> QED
  BY <1>1, <1>2 DEF MetricsIInv, MetricsTypes, Counting, In, SessionsOpen, EventsOK, Used, EventsOf, Happened


(* Every step keeps the books.                                             *)
LEMMA MetricsSteps == MetricsIInv /\ [MetricsNext]_telemetry => MetricsIInv'
<1> SUFFICES ASSUME MetricsIInv, [MetricsNext]_telemetry PROVE MetricsIInv'
  OBVIOUS
<1>1. CASE UNCHANGED telemetry
  <2>1. UNCHANGED <<request, active, durations, inserting, usage, lost, transports, usageReport>>
    BY <1>1 DEF telemetry
  <2>2. SumOf(durations, Buckets)' = SumOf(durations, Buckets)
    BY <2>1, SumAfter
  <2>3. Queries' = Queries
    BY DEF Queries, Stages
  <2>4. /\ MetricsTypes' /\ (active = Cardinality(Counting))' /\ EventsOK' /\ SessionsOpen'
        /\ In("finished")' = In("finished")
    BY <2>1 DEF MetricsIInv, MetricsTypes, Counting, In, SessionsOpen, EventsOK, Used, EventsOf, Happened
  <2>5. ReportOK'
    BY <2>1, ReportStays DEF MetricsIInv
  <2> QED
    BY <2>2, <2>4, <2>5 DEF MetricsIInv
<1>2. CASE MetricsNext
  BY <1>2, UnfinishedKeeps, CheckedKeeps, FinishedKeeps, InsertKeeps, ReportKeeps DEF MetricsNext
<1> QED
  BY <1>1, <1>2

(* The books say what has happened to the requests.                        *)
LEMMA BooksFollow == MetricsIInv => BooksKept
<1> SUFFICES ASSUME MetricsIInv PROVE BooksKept
  OBVIOUS
<1>1. active = Cardinality(In("open") \cup In("broken") \cup In("gone"))
  BY DEF MetricsIInv, Counting
<1>2. MapThenSumSet(LAMBDA b : durations[b], Buckets) = Cardinality(In("finished"))
  BY DEF MetricsIInv, SumOf
<1>3. ASSUME NEW r \in Requests
      PROVE  Cardinality({e \in inserting \cup usage \cup lost : e.of = r}) =
               IF r \in In("finished") /\ request[r].route \in Endpoints /\ request[r].user # Anonymous
                 THEN 1 ELSE 0
  <2>1. IF Used(r) THEN \E e : EventsOf(r) = {e} ELSE EventsOf(r) = {}
    BY DEF MetricsIInv, EventsOK
  <2>2. Cardinality(EventsOf(r)) = IF Used(r) THEN 1 ELSE 0
    BY <2>1, FS_Singleton, FS_EmptySet
  <2> QED
    BY <2>2 DEF EventsOf, Happened, Used
<1>4. RequestsAccounted
  BY <1>1, <1>2, <1>3 DEF RequestsAccounted
<1>5. ReportMonotone
  <2> SUFFICES ASSUME Counted = Queries PROVE ReportMonotone
    BY DEF ReportMonotone
  <2>1. /\ "statuses" \in Counted /\ "errors" \in Counted
        /\ {"total", "series", "latency", "endpoints"} \subseteq Counted
    BY QueriesAre
  <2>2. \A q \in Counted : usageReport.rows[q] \subseteq usageReport.rows["statuses"]
    BY <2>1 DEF MetricsIInv, ReportOK
  <2>3. IsFiniteSet(usageReport.rows["statuses"])
    <3>1. usageReport.rows["statuses"] \subseteq Happened
      BY <2>1 DEF MetricsIInv, ReportOK, Happened
    <3> QED
      BY <3>1, FS_Subset DEF MetricsIInv, MetricsTypes
  <2>4. ASSUME NEW q \in {"total", "series", "latency", "endpoints"}
        PROVE  Cardinality(usageReport.rows[q]) <= Cardinality(usageReport.rows["statuses"])
    BY <2>1, <2>2, <2>3, FS_Subset
  <2>5. Cardinality(usageReport.rows["errors"]) <=
          Cardinality({row \in usageReport.rows["statuses"] : row.status >= 400})
    <3>1. usageReport.rows["errors"] \subseteq {row \in usageReport.rows["statuses"] : row.status >= 400}
      BY <2>1, <2>2 DEF MetricsIInv, ReportOK
    <3>2. IsFiniteSet({row \in usageReport.rows["statuses"] : row.status >= 400})
      BY <2>3, FS_Subset
    <3> QED
      BY <3>1, <3>2, FS_Subset
  <2> QED
    BY <2>4, <2>5 DEF ReportMonotone
<1> QED
  BY <1>4, <1>5 DEF BooksKept, MetricsIInv

(* What the server says about its requests - the gauge, the histogram, the *)
(* usage events, the sessions, the report of several queries - is what has *)
(* happened to them (metrics.ts, usageTracker.ts, services/metrics.ts).    *)
THEOREM BooksKeptHolds == EdgesSpec => []BooksKept
<1>1. EdgesInit => MetricsIInv
  BY EdgesStart, MetricsStart
<1>2. MetricsIInv /\ [EdgesNext]_edges => MetricsIInv'
  BY EdgesStep, MetricsSteps
<1> QED
  BY <1>1, <1>2, BooksFollow, PTL DEF EdgesSpec, edges

(***************************************************************************)
(* The dashboard's session: the inductive invariant.                       *)
(***************************************************************************)
CookieToken ==
  [user : Users, access : Nat, refresh : Nat, due : Nat, failed : BOOLEAN]

Request ==
  [sent : CookieToken \cup {None}, at : {"sent", "issued", "answered"},
   token : CookieToken \cup {None}, late : BOOLEAN, since : Nat]

PageSession == [user : Users, token : {"failed", "usable", "slow", "expired"}]

SessionTypes ==
  /\ now \in Nat
  /\ cookie \in CookieToken \cup {None}
  /\ signing # None => signing.token \in CookieToken
  /\ asking \in [Slots -> Request \cup {None}]
  /\ page \in [Tabs -> PageSession \cup {None}]
  /\ late \in BOOLEAN

CacheTypes ==
  /\ data \in [Tabs -> [user : Users, seen : Nat, fresh : BOOLEAN, kept : BOOLEAN] \cup {None}]
  /\ query \in [Tabs -> [user : Users, seen : Nat \cup {None}, kept : BOOLEAN] \cup {None}]
  /\ mutation \in [Tabs -> Users \cup {None}]
  /\ server \in [Users -> Nat]
  /\ done \in [Tabs -> Nat]

Own(token) == token # None => token.user = owner

(* A token that an answer carries was not due when the answer left, or its *)
(* refresh has failed.                                                     *)
AnswerOK(answer) ==
  answer.at = "answered" /\ answer.token # None =>
    answer.token.failed \/ answer.since < answer.token.due

(* A request that is not late was sent with the cookie of who is signed in,*)
(* and is answered with a token of the same user.                          *)
RequestOK(s) ==
  asking[s] # None =>
    /\ ~ asking[s].late => Own(asking[s].sent) /\ Own(asking[s].token)
    /\ asking[s].at = "issued" =>
         /\ asking[s].sent # None /\ asking[s].token \in CookieToken
         /\ asking[s].token.user = asking[s].sent.user
    /\ AnswerOK(asking[s])

SessionPart ==
  /\ SessionTypes
  /\ ~ late => Own(cookie)
  /\ \A s \in Slots : RequestOK(s)
  /\ HandedTokensWork

(* What a tab holds that was not handed to another user is its user's: the *)
(* data, the read and the mutation in progress, and the last own change;   *)
(* and a read that no invalidation would cancel is marked.                 *)
Recent(answer, t) == key = "apiKeys" /\ ~ answer.kept => answer.seen >= done[t]

TabOK(t) ==
  /\ data[t] # None =>
       /\ page[t] # None /\ data[t].user = page[t].user
       /\ data[t].fresh => Recent(data[t], t)
  /\ query[t] # None =>
       /\ page[t] # None /\ query[t].user = page[t].user
       /\ query[t].seen # None => Recent(query[t], t)
       /\ data[t] = None \/ t \in away => query[t].kept
       /\ data[t] # None => ~ data[t].fresh
  /\ mutation[t] # None => page[t] # None /\ mutation[t] = page[t].user
  /\ done[t] <= IF page[t] = None THEN 0 ELSE server[page[t].user]

CachePart == CacheTypes /\ \A t \in Readers \ handed : TabOK(t)

WebIInv == SessionPart /\ CachePart

(* Nothing is there at first.                                              *)
LEMMA WebStarts == WebInit => WebIInv
<1> SUFFICES ASSUME WebInit PROVE WebIInv
  OBVIOUS
<1>1. SessionTypes
  BY DEF WebInit, SessionTypes, Unloaded
<1>2. CacheTypes
  BY DEF WebInit, CacheTypes, Unloaded
<1>3. ASSUME NEW s \in Slots PROVE RequestOK(s)
  BY DEF WebInit, RequestOK
<1>4. Own(cookie) /\ HandedTokensWork
  BY DEF WebInit, Own, HandedTokensWork, Unloaded
<1>5. ASSUME NEW t \in Readers PROVE TabOK(t)
  <2>1. t \in Tabs
    BY WebAssumption
  <2>2. data[t] = None /\ query[t] = None /\ mutation[t] = None /\ page[t] = None /\ done[t] = 0
    BY <2>1 DEF WebInit, Unloaded
  <2> QED
    BY <2>2 DEF TabOK
<1> QED
  BY <1>1, <1>2, <1>3, <1>4, <1>5 DEF WebIInv, SessionPart, CachePart

(* What the API issues is the user's, and works for longer than until it   *)
(* is due, from when that is computed.                                     *)
LEMMA NewToken ==
  ASSUME now \in Nat, NEW u \in Users
  PROVE  Issued(u) \in CookieToken /\ Issued(u).user = u
<1>1. AccessLife \in Nat /\ RefreshLife \in Nat
  BY WebAssumption
<1> QED
  BY <1>1 DEF Issued, CookieToken

LEMMA TimedToken ==
  ASSUME now \in Nat, NEW token \in CookieToken
  PROVE  /\ Timed(token) \in CookieToken /\ Timed(token).user = token.user
         /\ now < Timed(token).due
<1>1. EarlyLife \in Nat /\ 0 < EarlyLife
  BY WebAssumption
<1>2. Timed(token).due = now + EarlyLife
  BY DEF Timed, CookieToken
<1> QED
  BY <1>1, <1>2 DEF Timed, CookieToken

LEMMA FailedToken ==
  ASSUME NEW token \in CookieToken
  PROVE  /\ Failed(token) \in CookieToken /\ Failed(token).user = token.user
         /\ Failed(token).failed
BY DEF Failed, CookieToken

(* What an answer hands over works, or its refresh has failed, or it was   *)
(* slow.                                                                   *)
LEMMA SessionWorks ==
  ASSUME now \in Nat, NEW answer \in Request, AnswerOK(answer), answer.at = "answered",
         answer.token # None
  PROVE  Session(answer) \in PageSession /\ Session(answer).token # "expired"
<1> DEFINE token == answer.token
           slow  == token.due + now > token.access + answer.since
<1>1. /\ token \in CookieToken /\ token.user \in Users /\ token.due \in Nat /\ token.access \in Nat
      /\ answer.since \in Nat
  BY DEF Request, CookieToken
<1>2. Session(answer) =
        [user |-> token.user,
         token |-> IF token.failed THEN "failed"
                   ELSE IF now < token.access THEN "usable"
                   ELSE IF slow THEN "slow" ELSE "expired"]
  BY DEF Session
<1>3. token.failed \/ answer.since < token.due
  BY DEF AnswerOK
<1>4. token.failed \/ now < token.access \/ slow
  BY <1>1, <1>3
<1> QED
  BY <1>1, <1>2, <1>4 DEF PageSession

(***************************************************************************)
(* What steps of the session leave of a tab's cache.                       *)
(***************************************************************************)

(* Without another page, everything.                                       *)
LEMMA CacheStays ==
  ASSUME CachePart, UNCHANGED <<page, handed, caching>>
  PROVE  CachePart'
BY DEF CachePart, CacheTypes, TabOK, Recent, caching

(* A tab that is loaded anew holds nothing.                                *)
LEMMA ReloadedTabs ==
  ASSUME SessionTypes, CachePart, NEW t \in Tabs, Reloaded(t), UNCHANGED <<away, key, server>>
  PROVE  CachePart'
<1>1. CacheTypes'
  BY DEF CachePart, CacheTypes, Reloaded
<1>2. ASSUME NEW s \in Readers \ handed' PROVE TabOK(s)'
  <2>1. s \in Tabs
    BY WebAssumption
  <2>2. CASE s = t
    BY <2>1, <2>2 DEF CachePart, CacheTypes, SessionTypes, Reloaded, TabOK
  <2>3. CASE s # t
    <3>1. TabOK(s)
      BY <2>3 DEF CachePart, Reloaded
    <3>2. /\ page'[s] = page[s] /\ data'[s] = data[s] /\ query'[s] = query[s]
          /\ mutation'[s] = mutation[s] /\ done'[s] = done[s]
          /\ server' = server /\ away' = away /\ key' = key
      BY <2>1, <2>3 DEF CachePart, CacheTypes, SessionTypes, Reloaded
    <3> QED
      BY <3>1, <3>2 DEF TabOK, Recent
  <2> QED
    BY <2>2, <2>3
<1> QED
  BY <1>1, <1>2 DEF CachePart

(* A tab that takes over a session keeps what it holds, or its user has    *)
(* changed.                                                                *)
LEMMA ShowsKeeps ==
  ASSUME SessionTypes, CachePart, NEW t \in Tabs, NEW session \in PageSession \cup {None},
         Shows(t, session), UNCHANGED caching
  PROVE  CachePart'
<1>1. page \in [Tabs -> PageSession \cup {None}] /\ page' = [page EXCEPT ![t] = session]
  BY DEF SessionTypes, Shows
<1>2. CacheTypes'
  BY DEF CachePart, CacheTypes, caching
<1>3. ASSUME NEW s \in Readers \ handed' PROVE TabOK(s)'
  <2>1. s \notin handed /\ TabOK(s) /\ s \in Tabs
    BY WebAssumption DEF Shows, CachePart
  <2>2. UNCHANGED <<away, key, data, query, mutation, server, done>>
    BY DEF caching
  <2>3. CASE s # t \/ page[t] = session
    <3>1. page'[s] = page[s]
      BY <1>1, <2>1, <2>3
    <3> QED
      BY <2>1, <2>2, <3>1 DEF TabOK, Recent
  <2>4. CASE s = t /\ page[t] = None
    <3>1. data[s] = None /\ query[s] = None /\ mutation[s] = None /\ done[s] <= 0 /\ done[s] \in Nat
      BY <2>1, <2>4 DEF TabOK, CachePart, CacheTypes
    <3>2. page'[s] # None => server[page'[s].user] \in Nat
      BY <1>1, <2>1 DEF PageSession, CachePart, CacheTypes
    <3> QED
      BY <2>2, <3>1, <3>2 DEF TabOK
  <2>5. CASE s = t /\ page[t] # None
    <3>1. session # None /\ session.user = page[t].user
      BY <2>5 DEF Shows
    <3>2. page'[s] = session
      BY <1>1, <2>5
    <3> QED
      BY <2>1, <2>2, <2>5, <3>1, <3>2 DEF TabOK, Recent
  <2> QED
    BY <2>3, <2>4, <2>5
<1> QED
  BY <1>2, <1>3 DEF CachePart

(***************************************************************************)
(* What they make of cookie, requests and pages.                           *)
(***************************************************************************)

(* Whatever is on its way when the user changes is late.                   *)
LEMMA OwnedKeeps ==
  ASSUME SessionPart, NEW u, Owned(u), UNCHANGED <<now, page>>,
         cookie' \in CookieToken \cup {None}, cookie' # None => cookie'.user = u,
         signing' # None => signing'.token \in CookieToken
  PROVE  SessionPart'
<1>1. asking' = [s \in Slots |->
        IF asking[s] = None THEN None ELSE [asking[s] EXCEPT !.late = TRUE]]
  BY DEF Owned
<1>2. ASSUME NEW s \in Slots
      PROVE  /\ asking'[s] \in Request \cup {None}
             /\ RequestOK(s)'
  <2>1. CASE asking[s] = None
    BY <1>1, <2>1 DEF RequestOK
  <2>2. CASE asking[s] # None
    <3>1. asking[s] \in Request
      BY <2>2 DEF SessionPart, SessionTypes
    <3>2. asking'[s] = [asking[s] EXCEPT !.late = TRUE]
      BY <1>1, <2>2
    <3>3. /\ asking'[s] \in Request /\ asking'[s].late
          /\ asking'[s].sent = asking[s].sent /\ asking'[s].token = asking[s].token
          /\ asking'[s].at = asking[s].at /\ asking'[s].since = asking[s].since
      BY <3>1, <3>2 DEF Request
    <3>4. RequestOK(s)
      BY DEF SessionPart
    <3>5. RequestOK(s)'
      BY <2>2, <3>3, <3>4 DEF RequestOK, AnswerOK
    <3> QED
      BY <3>3, <3>5
  <2> QED
    BY <2>1, <2>2
<1>3. SessionTypes'
  <2>1. asking' \in [Slots -> Request \cup {None}]
    BY <1>1, <1>2
  <2> QED
    BY <2>1 DEF SessionPart, SessionTypes, Owned
<1>4. Own(cookie)'
  BY DEF Own, Owned
<1>5. HandedTokensWork'
  BY DEF SessionPart, HandedTokensWork
<1> QED
  BY <1>2, <1>3, <1>4, <1>5 DEF SessionPart

(* One request moves on, the others stay.                                  *)
LEMMA RequestMoves ==
  ASSUME SessionPart, NEW s \in Slots, NEW r \in Request,
         asking' = [asking EXCEPT ![s] = r],
         UNCHANGED <<now, cookie, signing, page, late, owner>>,
         ~ r.late => Own(r.sent) /\ Own(r.token),
         r.at = "issued" => /\ r.sent # None /\ r.token \in CookieToken
                            /\ r.token.user = r.sent.user,
         AnswerOK(r)
  PROVE  SessionPart'
<1>1. asking \in [Slots -> Request \cup {None}]
  BY DEF SessionPart, SessionTypes
<1>2. SessionTypes'
  BY <1>1 DEF SessionPart, SessionTypes
<1>3. ASSUME NEW q \in Slots PROVE RequestOK(q)'
  <2>1. CASE q = s
    <3>1. asking'[q] = r
      BY <1>1, <2>1
    <3> QED
      BY <3>1 DEF RequestOK, Own, AnswerOK
  <2>2. CASE q # s
    <3>1. asking'[q] = asking[q] /\ RequestOK(q)
      BY <1>1, <2>2 DEF SessionPart
    <3> QED
      BY <3>1 DEF RequestOK, Own, AnswerOK
  <2> QED
    BY <2>1, <2>2
<1>4. (~ late => Own(cookie))' /\ HandedTokensWork'
  BY DEF SessionPart, Own, HandedTokensWork
<1> QED
  BY <1>2, <1>3, <1>4 DEF SessionPart

(* An answer has reached the browser: the cookie, and perhaps a page, are  *)
(* what it says.                                                           *)
LEMMA ArrivalKeeps ==
  ASSUME SessionPart, UNCHANGED <<now, signing, owner>>,
         cookie' \in CookieToken \cup {None}, late' \in BOOLEAN,
         ~ late' => Own(cookie'),
         page' \in [Tabs -> PageSession \cup {None}], HandedTokensWork',
         asking' \in [Slots -> Request \cup {None}],
         \A s \in Slots : asking'[s] = asking[s] \/ asking'[s] = None
  PROVE  SessionPart'
<1>1. SessionTypes'
  BY DEF SessionPart, SessionTypes
<1>2. ASSUME NEW s \in Slots PROVE RequestOK(s)'
  <2>1. RequestOK(s) /\ (asking'[s] = asking[s] \/ asking'[s] = None)
    BY DEF SessionPart
  <2> QED
    BY <2>1 DEF RequestOK, Own, AnswerOK
<1>3. (~ late => Own(cookie))'
  BY DEF Own
<1> QED
  BY <1>1, <1>2, <1>3 DEF SessionPart

(* The cookie that an answer sets is its token, as late as it is.          *)
LEMMA CookieSetKeeps ==
  ASSUME SessionPart, NEW s \in Slots, Asked(s, "answered"), CookieSet(asking[s]),
         UNCHANGED owner
  PROVE  /\ asking[s] \in Request
         /\ cookie' \in CookieToken \cup {None} /\ late' \in BOOLEAN
         /\ ~ late' => Own(cookie')
<1>1. asking[s] # None /\ RequestOK(s)
  BY DEF Asked, SessionPart
<1>2. asking[s] \in Request
  BY <1>1 DEF SessionPart, SessionTypes
<1>3. CASE asking[s].token = None
  BY <1>2, <1>3 DEF CookieSet, SessionPart, SessionTypes
<1>4. CASE asking[s].token # None
  <2>1. cookie' = asking[s].token /\ late' = asking[s].late
    BY <1>4 DEF CookieSet
  <2>2. cookie' \in CookieToken \cup {None} /\ late' \in BOOLEAN
    BY <1>2, <2>1 DEF Request
  <2>3. ~ late' => Own(cookie')
    BY <1>1, <2>1 DEF RequestOK
  <2> QED
    BY <1>2, <2>2, <2>3
<1> QED
  BY <1>3, <1>4

(* Requests at the web server.                                             *)
LEMMA RequestSteps ==
  ASSUME WebIInv, NEW s \in Slots,
         Ask(s) \/ Kept(s) \/ RefreshIssued(s) \/ Refreshed(s) \/ RefreshFails(s)
  PROVE  WebIInv'
<1>1. UNCHANGED <<now, cookie, signing, page, owner, late, handed, caching>>
  BY DEF Ask, Kept, RefreshIssued, Refreshed, RefreshFails, Answer
<1>2. CachePart'
  BY <1>1, CacheStays DEF WebIInv
<1>3. SessionPart /\ now \in Nat /\ cookie \in CookieToken \cup {None} /\ late \in BOOLEAN
  BY DEF WebIInv, SessionPart, SessionTypes
<1>4. asking[s] # None => asking[s] \in Request /\ RequestOK(s)
  BY <1>3 DEF SessionPart, SessionTypes
<1>5. CASE Ask(s)
  <2> DEFINE r == [sent |-> cookie, at |-> "sent", token |-> None, late |-> late, since |-> 0]
  <2>1. r \in Request /\ r.at = "sent" /\ r.late = late /\ r.sent = cookie /\ r.token = None
    BY <1>3 DEF Request
  <2>2. asking' = [asking EXCEPT ![s] = r]
    BY <1>5 DEF Ask
  <2>3. ~ r.late => Own(r.sent) /\ Own(r.token)
    BY <1>3, <2>1 DEF SessionPart, Own
  <2>4. AnswerOK(r)
    BY <2>1 DEF AnswerOK
  <2> HIDE DEF r
  <2>5. SessionPart'
    BY <1>1, <1>3, <2>1, <2>2, <2>3, <2>4, RequestMoves
  <2> QED
    BY <1>2, <2>5 DEF WebIInv
<1>6. ASSUME NEW token \in CookieToken \cup {None}, asking[s] # None, Answer(s, token),
             ~ asking[s].late => Own(token),
             token # None => token.failed \/ now < token.due
      PROVE  WebIInv'
  <2> DEFINE r == [sent |-> None, at |-> "answered", token |-> token,
                   late |-> asking[s].late, since |-> now]
  <2>1. asking[s].late \in BOOLEAN
    BY <1>4, <1>6 DEF Request
  <2>2. /\ r \in Request /\ r.at = "answered" /\ r.late = asking[s].late /\ r.sent = None
        /\ r.token = token /\ r.since = now
    BY <1>3, <2>1 DEF Request
  <2>3. asking' = [asking EXCEPT ![s] = r]
    BY <1>3, <1>6 DEF Answer, SessionPart, SessionTypes
  <2>4. ~ r.late => Own(r.sent) /\ Own(r.token)
    BY <1>6, <2>2 DEF Own
  <2>5. AnswerOK(r)
    BY <1>6, <2>2 DEF AnswerOK
  <2> HIDE DEF r
  <2>6. SessionPart'
    BY <1>1, <1>3, <2>2, <2>3, <2>4, <2>5, RequestMoves
  <2> QED
    BY <1>2, <2>6 DEF WebIInv
<1>7. CASE Kept(s)
  <2>1. asking[s] # None /\ Answer(s, asking[s].sent) /\ ~ Due(s)
    BY <1>7 DEF Kept, Asked
  <2>2. asking[s] \in Request /\ RequestOK(s)
    BY <1>4, <2>1
  <2>3. asking[s].sent \in CookieToken \cup {None} /\ (~ asking[s].late => Own(asking[s].sent))
    BY <2>1, <2>2 DEF Request, RequestOK
  <2>4. asking[s].sent # None => now < asking[s].sent.due
    BY <1>3, <2>1, <2>3 DEF Due, CookieToken
  <2> QED
    BY <1>6, <2>1, <2>3, <2>4
<1>8. CASE RefreshIssued(s)
  <2> DEFINE u == asking[s].sent.user
             r == [asking[s] EXCEPT !.at = "issued", !.token = Issued(u)]
  <2>1. asking[s] # None /\ asking[s].sent # None /\ asking' = [asking EXCEPT ![s] = r]
    BY <1>8 DEF RefreshIssued, Asked, Due, SessionPart, SessionTypes
  <2>2. asking[s] \in Request /\ RequestOK(s)
    BY <1>4, <2>1
  <2>3. asking[s].sent \in CookieToken /\ u \in Users
    BY <2>1, <2>2 DEF Request, CookieToken
  <2>4. Issued(u) \in CookieToken /\ Issued(u).user = u
    BY <1>3, <2>3, NewToken
  <2>5. /\ r \in Request /\ r.at = "issued" /\ r.token = Issued(u) /\ r.sent = asking[s].sent
        /\ r.late = asking[s].late
    BY <2>2, <2>4 DEF Request
  <2>6. ~ r.late => Own(r.sent) /\ Own(r.token)
    BY <2>1, <2>2, <2>4, <2>5 DEF RequestOK, Own
  <2>7. AnswerOK(r)
    BY <2>5 DEF AnswerOK
  <2>8. r.sent # None /\ r.token \in CookieToken /\ r.token.user = r.sent.user
    BY <2>1, <2>4, <2>5
  <2> HIDE DEF r
  <2>9. SessionPart'
    BY <1>1, <1>3, <2>1, <2>5, <2>6, <2>7, <2>8, RequestMoves
  <2> QED
    BY <1>2, <2>9 DEF WebIInv
<1>9. CASE Refreshed(s)
  <2>1. asking[s] # None /\ asking[s].at = "issued" /\ Answer(s, Timed(asking[s].token))
    BY <1>9 DEF Refreshed, Asked
  <2>2. /\ asking[s].token \in CookieToken
        /\ ~ asking[s].late => Own(asking[s].token)
    BY <1>4, <2>1 DEF RequestOK
  <2>3. /\ Timed(asking[s].token) \in CookieToken
        /\ Timed(asking[s].token).user = asking[s].token.user
        /\ now < Timed(asking[s].token).due
    BY <1>3, <2>2, TimedToken
  <2>4. ~ asking[s].late => asking[s].token.user = owner \/ asking[s].token = None
    BY <2>2 DEF Own
  <2>5. CASE asking[s].late \/ asking[s].token # None
    BY <1>6, <2>1, <2>3, <2>4, <2>5 DEF Own
  <2>6. CASE ~ asking[s].late /\ asking[s].token = None
    <3>1. asking[s].sent.user = owner /\ asking[s].token.user = asking[s].sent.user
      BY <1>4, <2>1, <2>6 DEF RequestOK, Own
    <3> QED
      BY <1>6, <2>1, <2>3, <3>1 DEF Own
  <2> QED
    BY <2>5, <2>6
<1>10. CASE RefreshFails(s)
  <2>1. asking[s] # None /\ asking[s].sent # None /\ Answer(s, Failed(asking[s].sent))
    BY <1>10 DEF RefreshFails, Asked, Due
  <2>2. asking[s].sent \in CookieToken /\ (~ asking[s].late => Own(asking[s].sent))
    BY <1>4, <2>1 DEF RequestOK, Request
  <2>3. /\ Failed(asking[s].sent) \in CookieToken /\ Failed(asking[s].sent).failed
        /\ Failed(asking[s].sent).user = asking[s].sent.user
    BY <2>2, FailedToken
  <2> QED
    BY <1>6, <2>1, <2>2, <2>3 DEF Own
<1> QED
  BY <1>5, <1>7, <1>8, <1>9, <1>10

(* Signing in, and time.                                                   *)
LEMMA SignInSteps ==
  ASSUME WebIInv, Tick \/ SignInTimed \/ SignedIn \/ \E u \in Users : SignIn(u)
  PROVE  WebIInv'
<1>1. UNCHANGED <<page, handed, caching>>
  BY DEF Tick, SignInTimed, SignedIn, SignIn
<1>2. CachePart' /\ SessionPart /\ now \in Nat
  BY <1>1, CacheStays DEF WebIInv, SessionPart, SessionTypes
<1>3. ASSUME UNCHANGED <<cookie, asking, owner, late>>, now' \in Nat,
             signing' # None => signing'.token \in CookieToken
      PROVE  SessionPart'
  <2>1. SessionTypes'
    BY <1>1, <1>2, <1>3 DEF SessionPart, SessionTypes
  <2>2. \A s \in Slots : RequestOK(s)'
    BY <1>2, <1>3 DEF SessionPart, RequestOK, Own, AnswerOK
  <2> QED
    BY <1>1, <1>2, <1>3, <2>1, <2>2 DEF SessionPart, Own, HandedTokensWork
<1>4. CASE Tick
  <2>1. now' \in Nat /\ UNCHANGED <<cookie, asking, owner, late, signing>>
    BY <1>2, <1>4 DEF Tick
  <2>2. signing' # None => signing'.token \in CookieToken
    BY <1>2, <2>1 DEF SessionPart, SessionTypes
  <2> QED
    BY <1>2, <1>3, <2>1, <2>2 DEF WebIInv
<1>5. ASSUME NEW u \in Users, SignIn(u) PROVE WebIInv'
  <2>1. signing'.token \in CookieToken /\ now' \in Nat /\ UNCHANGED <<cookie, asking, owner, late>>
    BY <1>2, <1>5, NewToken DEF SignIn
  <2> QED
    BY <1>2, <1>3, <2>1 DEF WebIInv
<1>6. CASE SignInTimed
  <2>1. signing # None /\ signing.token \in CookieToken
    BY <1>2, <1>6 DEF SignInTimed, SessionPart, SessionTypes
  <2>2. signing'.token \in CookieToken /\ now' \in Nat /\ UNCHANGED <<cookie, asking, owner, late>>
    BY <1>2, <1>6, <2>1, TimedToken DEF SignInTimed
  <2> QED
    BY <1>2, <1>3, <2>2 DEF WebIInv
<1>7. CASE SignedIn
  <2>1. signing # None /\ signing.token \in CookieToken
    BY <1>2, <1>7 DEF SignedIn, SessionPart, SessionTypes
  <2>2. /\ Owned(signing.token.user) /\ UNCHANGED <<now, page>>
        /\ cookie' = signing.token /\ signing' = None
    BY <1>7 DEF SignedIn
  <2>3. SessionPart'
    BY <1>2, <2>1, <2>2, OwnedKeeps
  <2> QED
    BY <1>2, <2>3 DEF WebIInv
<1> QED
  BY <1>4, <1>5, <1>6, <1>7

(* Signing out, and what reaches a tab.                                    *)
LEMMA TabSteps ==
  ASSUME WebIInv, NEW t \in Tabs,
         SignOut(t) \/ Left(t) \/ SessionArrives(t) \/ SessionLost(t) \/ PageArrives(t)
  PROVE  WebIInv'
<1> DEFINE ss == <<t, "session">>
           sp == <<t, "page">>
<1>1. ss \in Slots /\ sp \in Slots
  BY DEF Slots
<1>2. SessionPart /\ CachePart /\ SessionTypes
  BY DEF WebIInv, SessionPart
<1>3. ASSUME Reloaded(t)
      PROVE  /\ page' \in [Tabs -> PageSession \cup {None}] /\ HandedTokensWork'
             /\ asking' \in [Slots -> Request \cup {None}]
             /\ \A s \in Slots : asking'[s] = asking[s] \/ asking'[s] = None
  <2>1. page' \in [Tabs -> PageSession \cup {None}] /\ HandedTokensWork'
    BY <1>2, <1>3 DEF SessionPart, SessionTypes, Reloaded, HandedTokensWork
  <2>2. /\ asking' \in [Slots -> Request \cup {None}]
        /\ \A s \in Slots : asking'[s] = asking[s] \/ asking'[s] = None
    BY <1>1, <1>2, <1>3 DEF SessionTypes, Reloaded
  <2> QED
    BY <2>1, <2>2
<1>4. ASSUME NEW s \in Slots, asking' = [asking EXCEPT ![s] = None]
      PROVE  /\ asking' \in [Slots -> Request \cup {None}]
             /\ \A q \in Slots : asking'[q] = asking[q] \/ asking'[q] = None
  BY <1>2, <1>4 DEF SessionTypes
<1>5. ASSUME NEW session \in PageSession \cup {None}, Shows(t, session),
             session # None => session.token # "expired"
      PROVE  page' \in [Tabs -> PageSession \cup {None}] /\ HandedTokensWork'
  BY <1>2, <1>5 DEF SessionPart, SessionTypes, Shows, HandedTokensWork
<1>6. CASE SignOut(t)
  <2>1. Owned(None) /\ UNCHANGED <<now, signing, page, handed, caching>> /\ cookie' = None
    BY <1>6 DEF SignOut
  <2>2. SessionPart'
    BY <1>2, <2>1, OwnedKeeps DEF SessionTypes
  <2>3. CachePart'
    BY <1>2, <2>1, CacheStays
  <2> QED
    BY <2>2, <2>3 DEF WebIInv
<1>7. CASE Left(t)
  <2>1. Reloaded(t) /\ UNCHANGED <<now, cookie, signing, away, key, server, owner, late>>
    BY <1>7 DEF Left
  <2>2. cookie' \in CookieToken \cup {None} /\ late' \in BOOLEAN /\ (~ late' => Own(cookie'))
    BY <1>2, <2>1 DEF SessionPart, SessionTypes
  <2>3. SessionPart'
    BY <1>2, <1>3, <2>1, <2>2, ArrivalKeeps
  <2>4. CachePart'
    BY <1>2, <2>1, ReloadedTabs
  <2> QED
    BY <2>3, <2>4 DEF WebIInv
<1>8. CASE SessionArrives(t)
  <2>1. /\ Asked(ss, "answered") /\ CookieSet(asking[ss]) /\ Shows(t, Session(asking[ss]))
        /\ asking' = [asking EXCEPT ![ss] = None]
        /\ UNCHANGED <<now, signing, owner, caching>>
    BY <1>8 DEF SessionArrives
  <2>2. /\ asking[ss] \in Request /\ cookie' \in CookieToken \cup {None} /\ late' \in BOOLEAN
        /\ ~ late' => Own(cookie')
    BY <1>1, <1>2, <2>1, CookieSetKeeps
  <2>3. asking[ss].at = "answered" /\ AnswerOK(asking[ss]) /\ now \in Nat
    BY <1>1, <1>2, <2>1 DEF Asked, SessionPart, SessionTypes, RequestOK
  <2>4. PICK session : session = Session(asking[ss])
    OBVIOUS
  <2>5. session \in PageSession \cup {None} /\ (session # None => session.token # "expired")
    <3>1. CASE asking[ss].token = None
      BY <2>4, <3>1 DEF Session
    <3>2. CASE asking[ss].token # None
      BY <2>2, <2>3, <2>4, <3>2, SessionWorks
    <3> QED
      BY <3>1, <3>2
  <2>6. SessionPart'
    BY <1>1, <1>2, <1>4, <1>5, <2>1, <2>2, <2>4, <2>5, ArrivalKeeps
  <2>7. CachePart'
    BY <1>2, <2>1, <2>4, <2>5, ShowsKeeps
  <2> QED
    BY <2>6, <2>7 DEF WebIInv
<1>9. CASE SessionLost(t)
  <2>1. /\ Shows(t, None) /\ asking' = [asking EXCEPT ![ss] = None]
        /\ UNCHANGED <<now, cookie, signing, owner, late, caching>>
    BY <1>9 DEF SessionLost
  <2>2. cookie' \in CookieToken \cup {None} /\ late' \in BOOLEAN /\ (~ late' => Own(cookie'))
    BY <1>2, <2>1 DEF SessionPart, SessionTypes
  <2>3. SessionPart'
    BY <1>1, <1>2, <1>4, <1>5, <2>1, <2>2, ArrivalKeeps
  <2>4. CachePart'
    BY <1>2, <2>1, ShowsKeeps
  <2> QED
    BY <2>3, <2>4 DEF WebIInv
<1>10. CASE PageArrives(t)
  <2>1. /\ Asked(sp, "answered") /\ CookieSet(asking[sp]) /\ UNCHANGED <<now, signing, owner>>
        /\ \/ Reloaded(t) /\ UNCHANGED <<away, key, server>>
           \/ asking' = [asking EXCEPT ![sp] = None] /\ UNCHANGED <<page, handed, caching>>
    BY <1>10 DEF PageArrives
  <2>2. /\ cookie' \in CookieToken \cup {None} /\ late' \in BOOLEAN
        /\ ~ late' => Own(cookie')
    BY <1>1, <1>2, <2>1, CookieSetKeeps
  <2>3. CASE Reloaded(t) /\ UNCHANGED <<away, key, server>>
    <3>1. SessionPart'
      BY <1>2, <1>3, <2>1, <2>2, <2>3, ArrivalKeeps
    <3>2. CachePart'
      BY <1>2, <2>3, ReloadedTabs
    <3> QED
      BY <3>1, <3>2 DEF WebIInv
  <2>4. CASE asking' = [asking EXCEPT ![sp] = None] /\ UNCHANGED <<page, handed, caching>>
    <3>1. page' \in [Tabs -> PageSession \cup {None}] /\ HandedTokensWork'
      BY <1>2, <2>4 DEF SessionPart, SessionTypes, HandedTokensWork
    <3>2. SessionPart'
      BY <1>1, <1>2, <1>4, <2>1, <2>2, <2>4, <3>1, ArrivalKeeps
    <3>3. CachePart'
      BY <1>2, <2>4, CacheStays
    <3> QED
      BY <3>2, <3>3 DEF WebIInv
  <2> QED
    BY <2>1, <2>3, <2>4
<1> QED
  BY <1>6, <1>7, <1>8, <1>9, <1>10

(***************************************************************************)
(* Reading and changing data.                                              *)
(***************************************************************************)
LEMMA DataSteps ==
  ASSUME WebIInv, NEW t \in Readers,
         \/ Query(t) \/ ServerReads(t) \/ ReadFails(t) \/ QueryDone(t) \/ GoesStale(t)
         \/ LeavePage(t) \/ ReturnToPage(t)
         \/ Mutate(t) \/ MutationDone(t) \/ MutationFails(t)
  PROVE  WebIInv'
<1> DEFINE Data  == [user : Users, seen : Nat, fresh : BOOLEAN, kept : BOOLEAN]
           Reads == [user : Users, seen : Nat \cup {None}, kept : BOOLEAN]
<1> USE DEF Act
<1>0. /\ t \in Tabs /\ key' = key
      /\ UNCHANGED <<now, cookie, signing, asking, leaving, page, owner, late, handed>>
  BY WebAssumption DEF Query, ServerReads, ReadFails, QueryDone, GoesStale, LeavePage,
     ReturnToPage, Mutate, MutationDone, MutationFails, requesting
<1>1. SessionPart'
  <2>1. SessionTypes'
    BY <1>0 DEF WebIInv, SessionPart, SessionTypes
  <2>2. \A s \in Slots : RequestOK(s)'
    BY <1>0 DEF WebIInv, SessionPart, RequestOK, Own, AnswerOK
  <2> QED
    BY <1>0, <2>1, <2>2 DEF WebIInv, SessionPart, Own, HandedTokensWork
<1>2. \A s \in Tabs : page[s] # None => page[s] \in PageSession /\ page[s].user \in Users
  BY DEF WebIInv, SessionPart, SessionTypes, PageSession
<1>3. /\ data \in [Tabs -> Data \cup {None}] /\ query \in [Tabs -> Reads \cup {None}]
      /\ mutation \in [Tabs -> Users \cup {None}] /\ server \in [Users -> Nat]
      /\ done \in [Tabs -> Nat] /\ CacheTypes
  BY DEF WebIInv, CachePart, CacheTypes
<1>4. CacheTypes'
  <2>1. CASE Query(t)
    <3>1. [user |-> page[t].user, seen |-> None, kept |-> data[t] = None] \in Reads
      BY <1>0, <1>2, <2>1 DEF Query
    <3> QED
      BY <1>3, <2>1, <3>1 DEF Query, CacheTypes
  <2>2. CASE ServerReads(t)
    <3>1. query[t] \in Reads /\ server[query[t].user] \in Nat
      BY <1>0, <1>3, <2>2 DEF ServerReads
    <3>2. [query[t] EXCEPT !.seen = server[query[t].user]] \in Reads
      BY <3>1
    <3>3. query' = [query EXCEPT ![t] = [query[t] EXCEPT !.seen = server[query[t].user]]]
      BY <1>0, <1>3, <2>2 DEF ServerReads
    <3> QED
      BY <1>3, <2>2, <3>2, <3>3 DEF ServerReads, CacheTypes
  <2>3. CASE ReadFails(t)
    BY <1>3, <2>3 DEF ReadFails, CacheTypes
  <2>4. CASE QueryDone(t)
    <3>1. query[t] \in Reads /\ query[t].seen \in Nat
      BY <1>0, <1>3, <2>4 DEF QueryDone
    <3>2. [user |-> query[t].user, seen |-> query[t].seen, fresh |-> TRUE, kept |-> query[t].kept] \in Data
      BY <3>1
    <3> QED
      BY <1>3, <2>4, <3>2 DEF QueryDone, CacheTypes
  <2>5. CASE GoesStale(t)
    <3>1. data[t] \in Data
      BY <1>0, <1>3, <2>5 DEF GoesStale
    <3>2. [data[t] EXCEPT !.fresh = FALSE] \in Data
      BY <3>1
    <3>3. data' = [data EXCEPT ![t] = [data[t] EXCEPT !.fresh = FALSE]]
      BY <1>0, <1>3, <2>5 DEF GoesStale
    <3> QED
      BY <1>3, <2>5, <3>2, <3>3 DEF GoesStale, CacheTypes
  <2>6. CASE LeavePage(t)
    <3>1. query[t] = None \/ [query[t] EXCEPT !.kept = TRUE] \in Reads
      BY <1>0, <1>3
    <3>2. query' = [query EXCEPT ![t] =
            IF query[t] = None THEN None ELSE [query[t] EXCEPT !.kept = TRUE]]
      BY <1>0, <1>3, <2>6 DEF LeavePage
    <3> QED
      BY <1>3, <2>6, <3>1, <3>2 DEF LeavePage, CacheTypes
  <2>7. CASE ReturnToPage(t)
    BY <1>3, <2>7 DEF ReturnToPage, CacheTypes
  <2>8. CASE Mutate(t)
    <3>1. page[t].user \in Users /\ server[page[t].user] \in Nat
      BY <1>0, <1>2, <1>3, <2>8 DEF Mutate
    <3>2. PICK u \in Users : u = page[t].user
      BY <3>1
    <3>3. server' = [server EXCEPT ![u] = server[u] + 1] /\ mutation' = [mutation EXCEPT ![t] = u]
      BY <1>3, <2>8, <3>2 DEF Mutate
    <3>4. server[u] + 1 \in Nat
      BY <1>3
    <3>5. server' \in [Users -> Nat] /\ mutation' \in [Tabs -> Users \cup {None}]
      BY <1>0, <1>3, <3>3, <3>4
    <3> QED
      BY <1>3, <2>8, <3>5 DEF Mutate, CacheTypes
  <2>9. CASE MutationDone(t)
    <3>1. server[mutation[t]] \in Nat
      BY <1>0, <1>3, <2>9 DEF MutationDone
    <3>2. data[t] = None \/ Stale(data[t]) \in Data
      <4> SUFFICES ASSUME data[t] # None PROVE Stale(data[t]) \in Data
        OBVIOUS
      <4>1. data[t] \in Data
        BY <1>0, <1>3
      <4>2. [data[t] EXCEPT !.fresh = FALSE] \in Data
        BY <4>1
      <4> QED
        BY <4>2 DEF Stale
    <3>3. data' = data \/ data' = [data EXCEPT ![t] = Stale(data[t])]
      BY <1>0, <1>3, <2>9 DEF MutationDone, Invalidated
    <3>4. Stale(None) = None
      BY DEF Stale
    <3>5. data' \in [Tabs -> Data \cup {None}] /\ query' \in [Tabs -> Reads \cup {None}]
      BY <1>0, <1>3, <2>9, <3>2, <3>3, <3>4 DEF MutationDone, Invalidated
    <3> QED
      BY <1>3, <2>9, <3>1, <3>5 DEF MutationDone, CacheTypes
  <2>10. CASE MutationFails(t)
    BY <1>3, <2>10 DEF MutationFails, CacheTypes
  <2> QED
    BY <2>1, <2>2, <2>3, <2>4, <2>5, <2>6, <2>7, <2>8, <2>9, <2>10
<1>5. \A u \in Users : server[u] \in Nat /\ server'[u] \in Nat /\ server[u] <= server'[u]
  BY <1>0, <1>2, <1>3, <1>4 DEF Query, ServerReads, ReadFails, QueryDone, GoesStale, LeavePage,
     ReturnToPage, Mutate, MutationDone, MutationFails, CacheTypes
<1>6. ASSUME NEW s \in Readers \ handed', s # t PROVE TabOK(s)'
  <2>1. TabOK(s) /\ s \in Tabs /\ done[s] \in Nat
    BY <1>0, <1>3, WebAssumption DEF WebIInv, CachePart
  <2>2. /\ data'[s] = data[s] /\ query'[s] = query[s] /\ mutation'[s] = mutation[s]
        /\ done'[s] = done[s] /\ page'[s] = page[s] /\ (s \in away' <=> s \in away)
    BY <1>0, <1>3, <1>6, <2>1 DEF Query, ServerReads, ReadFails, QueryDone, GoesStale, LeavePage,
       ReturnToPage, Mutate, MutationDone, MutationFails, Invalidated
  <2> QED
    BY <1>0, <1>2, <1>5, <2>1, <2>2 DEF TabOK, Recent
<1>7. ASSUME t \notin handed PROVE TabOK(t)'
  <2>1. TabOK(t) /\ done[t] \in Nat
    BY <1>0, <1>3, <1>7 DEF WebIInv, CachePart
  <2>2. page'[t] = page[t] /\ (page[t] # None => page[t].user \in Users)
    BY <1>0, <1>2
  <2>3. CASE Query(t)
    <3>1. /\ query'[t] = [user |-> page[t].user, seen |-> None, kept |-> data[t] = None]
          /\ page[t] # None /\ t \notin away
          /\ UNCHANGED <<away, data, mutation, server, done>>
          /\ data[t] # None => ~ data[t].fresh
      BY <1>0, <1>3, <2>3 DEF Query
    <3>2. /\ query'[t].user = page[t].user /\ query'[t].seen = None
          /\ query'[t].kept = (data[t] = None)
      BY <3>1
    <3>3. data[t] = None \/ t \in away => query'[t].kept
      BY <3>1, <3>2
    <3>4. page[t] # None /\ UNCHANGED <<away, data, mutation, server, done>>
          /\ (data[t] # None => ~ data[t].fresh)
      BY <3>1
    <3> QED
      BY <1>0, <2>1, <2>2, <3>2, <3>3, <3>4 DEF TabOK, Recent
  <2>4. CASE ServerReads(t)
    <3>1. /\ page[t] # None /\ query[t].user = page[t].user /\ done[t] <= server[page[t].user]
          /\ query[t] \in Reads /\ query[t] # None
      BY <1>0, <1>3, <2>1, <2>4 DEF ServerReads, TabOK
    <3>2. /\ query'[t].user = query[t].user /\ query'[t].seen = server[query[t].user]
          /\ query'[t].kept = query[t].kept
          /\ UNCHANGED <<away, data, mutation, server, done>>
      BY <1>0, <1>3, <2>4, <3>1 DEF ServerReads
    <3>3. server[query[t].user] >= done[t]
      BY <1>5, <2>1, <2>2, <3>1
    <3> QED
      BY <1>0, <2>1, <2>2, <3>1, <3>2, <3>3 DEF TabOK, Recent
  <2>5. CASE ReadFails(t)
    <3>1. query'[t] = None /\ UNCHANGED <<away, data, mutation, server, done>>
      BY <1>0, <1>3, <2>5 DEF ReadFails
    <3> QED
      BY <1>0, <2>1, <2>2, <3>1 DEF TabOK, Recent
  <2>6. CASE QueryDone(t)
    <3>1. /\ data'[t] = [user |-> query[t].user, seen |-> query[t].seen, fresh |-> TRUE,
                         kept |-> query[t].kept]
          /\ query'[t] = None /\ query[t] # None /\ query[t].seen # None
          /\ UNCHANGED <<away, mutation, server, done>>
      BY <1>0, <1>3, <2>6 DEF QueryDone
    <3>2. /\ data'[t].user = query[t].user /\ data'[t].seen = query[t].seen
          /\ data'[t].kept = query[t].kept
      BY <3>1
    <3> QED
      BY <1>0, <2>1, <2>2, <3>1, <3>2 DEF TabOK, Recent
  <2>7. CASE GoesStale(t)
    <3>1. data[t] \in Data /\ data[t] # None
      BY <1>0, <1>3, <2>7 DEF GoesStale
    <3>2. /\ data'[t].user = data[t].user /\ data'[t].fresh = FALSE
          /\ UNCHANGED <<away, query, mutation, server, done>>
      BY <1>0, <1>3, <2>7, <3>1 DEF GoesStale
    <3>3. query[t] = None
      BY <2>1, <2>7 DEF GoesStale, TabOK
    <3> QED
      BY <1>0, <2>1, <2>2, <3>1, <3>2, <3>3 DEF TabOK, Recent
  <2>8. CASE LeavePage(t)
    <3>1. /\ query'[t] = IF query[t] = None THEN None ELSE [query[t] EXCEPT !.kept = TRUE]
          /\ UNCHANGED <<data, mutation, server, done>>
      BY <1>0, <1>3, <2>8 DEF LeavePage
    <3>2. query[t] # None => query[t] \in Reads
      BY <1>0, <1>3
    <3>3. query'[t] # None => query[t] # None /\ query'[t].user = query[t].user /\ query'[t].kept
      BY <3>1, <3>2
    <3> QED
      BY <1>0, <2>1, <2>2, <3>1, <3>3 DEF TabOK, Recent
  <2>9. CASE ReturnToPage(t)
    <3>1. away' = away \ {t} /\ UNCHANGED <<data, query, mutation, server, done>>
      BY <2>9 DEF ReturnToPage
    <3> QED
      BY <1>0, <2>1, <2>2, <3>1 DEF TabOK, Recent
  <2>10. CASE Mutate(t)
    <3>1. page[t] # None /\ mutation'[t] = page[t].user /\ UNCHANGED <<away, data, query, done>>
      BY <1>0, <1>3, <2>10 DEF Mutate
    <3>2. done[t] <= server'[page[t].user]
      BY <1>5, <2>1, <2>2, <3>1 DEF TabOK
    <3> QED
      BY <1>0, <2>1, <2>2, <3>1, <3>2 DEF TabOK, Recent
  <2>11. CASE MutationDone(t)
    <3>1. page[t] # None /\ mutation[t] = page[t].user
      BY <2>1, <2>11 DEF MutationDone, TabOK
    <3>2. /\ done'[t] = server[page[t].user] /\ mutation'[t] = None
          /\ UNCHANGED <<away, server>>
      BY <1>0, <1>3, <2>11, <3>1 DEF MutationDone
    <3>3. server[page[t].user] \in Nat
      BY <1>5, <2>2, <3>1
    <3>4. CASE key # "apiKeys"
      <4>1. UNCHANGED <<data, query>>
        BY <2>11, <3>4 DEF MutationDone, Invalidated
      <4> QED
        BY <1>0, <2>1, <2>2, <3>1, <3>2, <3>3, <3>4, <4>1 DEF TabOK, Recent
    <3>5. CASE key = "apiKeys"
      <4>1. data'[t] = Stale(data[t])
        BY <1>0, <1>3, <2>11, <3>5 DEF MutationDone, Invalidated
      <4>2. data[t] # None => data[t] \in Data
        BY <1>0, <1>3
      <4>3. /\ data[t] = None => data'[t] = None
            /\ data[t] # None => data'[t].user = data[t].user /\ data'[t].fresh = FALSE
        BY <4>1, <4>2 DEF Stale
      <4>4. query'[t] = None \/ (query'[t] = query[t] /\ (data[t] = None \/ t \in away))
        BY <1>0, <1>3, <2>11, <3>5 DEF MutationDone, Invalidated
      <4>5. query'[t] # None => query'[t] = query[t] /\ query[t].kept
        BY <2>1, <4>4 DEF TabOK
      <4> QED
        BY <1>0, <2>1, <2>2, <3>1, <3>2, <3>3, <4>3, <4>5 DEF TabOK, Recent
    <3> QED
      BY <3>4, <3>5
  <2>12. CASE MutationFails(t)
    <3>1. mutation'[t] = None /\ UNCHANGED <<away, data, query, server, done>>
      BY <1>0, <1>3, <2>12 DEF MutationFails
    <3> QED
      BY <1>0, <2>1, <2>2, <3>1 DEF TabOK, Recent
  <2> QED
    BY <2>3, <2>4, <2>5, <2>6, <2>7, <2>8, <2>9, <2>10, <2>11, <2>12
<1>8. CachePart'
  BY <1>0, <1>4, <1>6, <1>7 DEF CachePart
<1> QED
  BY <1>1, <1>8 DEF WebIInv

(* The invariant is inductive.                                             *)
LEMMA WebSteps == WebIInv /\ [WebNext]_browsing => WebIInv'
<1> SUFFICES ASSUME WebIInv, [WebNext]_browsing PROVE WebIInv'
  OBVIOUS
<1>1. CASE UNCHANGED browsing
  <2>1. UNCHANGED <<now, cookie, signing, asking, page, owner, late, handed, caching>>
    BY <1>1 DEF browsing, requesting
  <2>2. CachePart'
    BY <2>1, CacheStays DEF WebIInv
  <2>3. SessionTypes'
    BY <2>1 DEF WebIInv, SessionPart, SessionTypes
  <2>4. \A s \in Slots : RequestOK(s)'
    BY <2>1 DEF WebIInv, SessionPart, RequestOK, Own, AnswerOK
  <2> QED
    BY <2>1, <2>2, <2>3, <2>4 DEF WebIInv, SessionPart, Own, HandedTokensWork
<1>2. CASE Tick \/ SignInTimed \/ SignedIn \/ \E u \in Users : SignIn(u)
  BY <1>2, SignInSteps
<1>3. ASSUME NEW t \in Tabs,
             SignOut(t) \/ Left(t) \/ SessionArrives(t) \/ SessionLost(t) \/ PageArrives(t)
      PROVE  WebIInv'
  BY <1>3, TabSteps
<1>4. ASSUME NEW s \in Slots,
             Ask(s) \/ Kept(s) \/ RefreshIssued(s) \/ Refreshed(s) \/ RefreshFails(s)
      PROVE  WebIInv'
  BY <1>4, RequestSteps
<1>5. ASSUME NEW t \in Readers,
             \/ Query(t) \/ ServerReads(t) \/ ReadFails(t) \/ QueryDone(t) \/ GoesStale(t)
             \/ LeavePage(t) \/ ReturnToPage(t)
             \/ Mutate(t) \/ MutationDone(t) \/ MutationFails(t)
      PROVE  WebIInv'
  BY <1>5, DataSteps
<1> QED
  BY <1>1, <1>2, <1>3, <1>4, <1>5 DEF WebNext

LEMMA WebInvHolds == WebSpec => []WebIInv
BY WebStarts, WebSteps, PTL DEF WebSpec

(* The session that a page is handed works, unless answers were slow, and  *)
(* the cookie is of who signed in, unless it was sent before that, however *)
(* many tabs ask, refresh, fail and overwrite each other's cookie          *)
(* (lib/auth.ts).                                                          *)
THEOREM SessionSoundHolds == WebSpec => []SessionSound
<1>1. WebIInv => SessionSound
  BY DEF WebIInv, SessionPart, SessionSound, CookieIsOwners, Own
<1> QED
  BY <1>1, WebInvHolds, PTL

(* A tab shows the data of its user, and no older than the user's changes, *)
(* for any number of tabs and users (hooks/useApi.ts).                     *)
THEOREM TabShowsOwnHolds == WebSpec => []TabShowsOwn
<1>1. WebIInv => TabShowsOwn
  BY DEF WebIInv, CachePart, TabShowsOwn, OwnData, ReadsOwnWrites, TabOK, Recent
<1> QED
  BY <1>1, WebInvHolds, PTL

==================================================================================
