--------------------------- MODULE WorkerPoolProofs ---------------------------
(***************************************************************************)
(* The slots, the queue and the probes of WorkerPool, for every number of  *)
(* jobs, threads and retries and every mode of execution.                  *)
(***************************************************************************)
EXTENDS WorkerPool, BreakerLemmas, FiniteSetTheorems, SequenceTheorems, TLAPS

Running == {"worker", "attempt", "fallback", "unspawned"}

(* How many jobs are in one of these phases.                               *)
Count(f, phases) == Cardinality({j \in Jobs : f[j] \in phases})

PoolRecord == [mode : Modes, phase : [Jobs -> Phase], queue : Seq(Jobs), active : Nat]

QueueOK(p) ==
  /\ {p.queue[i] : i \in 1 .. Len(p.queue)} = {j \in Jobs : p.phase[j] = "queued"}
  /\ \A i, k \in 1 .. Len(p.queue) : p.queue[i] = p.queue[k] => i = k

(* The accounts of a pool in which `leaked' slots will not be given back.  *)
PoolOK(p, leaked) ==
  /\ p \in PoolRecord
  /\ p.active = Count(p.phase, Running) + leaked
  /\ Count(p.phase, {"worker"}) <= Size
  /\ QueueOK(p)

Conserving(p) == p.queue # <<>> => p.active >= Size

(***************************************************************************)
(* Counting.                                                               *)
(***************************************************************************)

(* Jobs are finitely many, so those in any set of phases can be counted.   *)
LEMMA CountIsNat ==
  ASSUME NEW f, NEW P
  PROVE  IsFiniteSet({j \in Jobs : f[j] \in P}) /\ Count(f, P) \in Nat
<1>1. {j \in Jobs : f[j] \in P} \subseteq Jobs /\ IsFiniteSet(Jobs)
  BY WorkerPoolAssumption
<1> HIDE DEF Count
<1>2. IsFiniteSet({j \in Jobs : f[j] \in P})
  BY <1>1, FS_Subset
<1> QED
  BY <1>2, FS_CardinalityType DEF Count

(* More phases, at least as many jobs.                                     *)
LEMMA CountMonotone ==
  ASSUME NEW f, NEW P, NEW Q, P \subseteq Q
  PROVE  Count(f, P) <= Count(f, Q)
<1> DEFINE F == {j \in Jobs : f[j] \in P}
           G == {j \in Jobs : f[j] \in Q}
<1>1. F \subseteq G
  OBVIOUS
<1>2. IsFiniteSet(G)
  BY CountIsNat
<1>3. Count(f, P) = Cardinality(F) /\ Count(f, Q) = Cardinality(G)
  BY DEF Count
<1> HIDE DEF F, G
<1> QED
  BY <1>1, <1>2, <1>3, FS_Subset

(* One job changes its phase.                                              *)
LEMMA CountStep ==
  ASSUME NEW P, NEW f \in [Jobs -> Phase], NEW j \in Jobs, NEW x,
         NEW g, g = [f EXCEPT ![j] = x]
  PROVE  /\ (f[j] \in P <=> x \in P) => Count(g, P) = Count(f, P)
         /\ f[j] \notin P /\ x \in P => Count(g, P) = Count(f, P) + 1
         /\ f[j] \in P /\ x \notin P => Count(f, P) = Count(g, P) + 1
<1> DEFINE F == {k \in Jobs : f[k] \in P}
           G == {k \in Jobs : g[k] \in P}
<1>1. \A k \in Jobs : g[k] = IF k = j THEN x ELSE f[k]
  OBVIOUS
<1>2. IsFiniteSet(F) /\ IsFiniteSet(G)
  BY CountIsNat
<1>3. Count(f, P) = Cardinality(F) /\ Count(g, P) = Cardinality(G)
  BY DEF Count
<1>4. ASSUME f[j] \in P <=> x \in P PROVE G = F
  BY <1>1, <1>4
<1>5. ASSUME f[j] \notin P, x \in P PROVE G = F \cup {j} /\ j \notin F
  BY <1>1, <1>5
<1>6. ASSUME f[j] \in P, x \notin P PROVE F = G \cup {j} /\ j \notin G
  BY <1>1, <1>6
<1> HIDE DEF F, G
<1>7. f[j] \notin P /\ x \in P => Cardinality(G) = Cardinality(F) + 1
  BY <1>2, <1>5, FS_AddElement
<1>8. f[j] \in P /\ x \notin P => Cardinality(F) = Cardinality(G) + 1
  BY <1>2, <1>6, FS_AddElement
<1> QED
  BY <1>3, <1>4, <1>7, <1>8

(* Jobs that move between two phases of one kind do not change the count.  *)
LEMMA CountSame ==
  ASSUME NEW f, NEW g, NEW P, \A k \in Jobs : f[k] \in P <=> g[k] \in P
  PROVE  Count(f, P) = Count(g, P)
<1>1. {k \in Jobs : f[k] \in P} = {k \in Jobs : g[k] \in P}
  OBVIOUS
<1> QED
  BY <1>1 DEF Count

(***************************************************************************)
(* The methods of the pool.                                                *)
(***************************************************************************)

(* Job j, which does not wait in the queue, goes to a phase x outside it:  *)
(* the accounts balance if the slots taken and leaked do.                  *)
LEMMA Rephase ==
  ASSUME NEW p, NEW d \in Nat, PoolOK(p, d), NEW j \in Jobs,
         NEW x \in Phase \ {"queued"}, p.phase[j] # "queued",
         NEW a \in Nat, NEW e \in Nat,
         p.phase[j] \in Running /\ x \in Running => a = p.active - d + e,
         p.phase[j] \notin Running /\ x \notin Running => a = p.active - d + e,
         p.phase[j] \in Running /\ x \notin Running => a = p.active - d + e - 1,
         p.phase[j] \notin Running /\ x \in Running => a = p.active - d + e + 1,
         x = "worker" => p.phase[j] = "worker" \/ Count(p.phase, {"worker"}) < Size,
         NEW q, q = [p EXCEPT !.phase[j] = x, !.active = a]
  PROVE  PoolOK(q, e)
<1> DEFINE g == [p.phase EXCEPT ![j] = x]
<1>1. p \in PoolRecord /\ p.phase \in [Jobs -> Phase] /\ p.active \in Nat
  BY DEF PoolOK, PoolRecord
<1>2. q = [p EXCEPT !.phase = g, !.active = a]
  BY <1>1 DEF PoolRecord
<1>3. q \in PoolRecord /\ q.phase = g /\ q.active = a /\ q.queue = p.queue
  BY ZenonT(60), <1>1, <1>2 DEF PoolRecord
<1>4. \A P : Count(g, P) \in Nat /\ Count(p.phase, P) \in Nat
  BY CountIsNat
<1>g. g = [p.phase EXCEPT ![j] = x]
  OBVIOUS
<1> HIDE DEF g, Count, Running
<1>5. ASSUME NEW P
      PROVE  /\ (p.phase[j] \in P <=> x \in P) => Count(g, P) = Count(p.phase, P)
             /\ p.phase[j] \notin P /\ x \in P => Count(g, P) = Count(p.phase, P) + 1
             /\ p.phase[j] \in P /\ x \notin P => Count(p.phase, P) = Count(g, P) + 1
  BY <1>1, <1>g, CountStep
<1>6. q.active = Count(q.phase, Running) + e /\ Count(q.phase, {"worker"}) <= Size
  <2>1. p.active = Count(p.phase, Running) + d /\ Count(p.phase, {"worker"}) <= Size
    BY DEF PoolOK
  <2>2. x = "worker" => p.phase[j] = "worker" \/ Count(p.phase, {"worker"}) + 1 <= Size
    BY <1>4, WorkerPoolAssumption
  <2>3. Count(g, Running) + e = a
    BY <1>1, <1>4, <1>5, <2>1
  <2>4. Count(g, {"worker"}) <= Size
    BY <1>4, <1>5, <2>1, <2>2, WorkerPoolAssumption
  <2> QED
    BY <1>3, <2>3, <2>4
<1>7. {k \in Jobs : q.phase[k] = "queued"} = {k \in Jobs : p.phase[k] = "queued"}
  BY <1>1, <1>3, <1>g
<1> QED
  BY <1>3, <1>6, <1>7 DEF PoolOK, QueueOK

(* A job leaves the front of the queue for a phase x.                      *)
LEMMA LeavesQueue ==
  ASSUME NEW p \in PoolRecord, QueueOK(p), p.queue # <<>>,
         NEW x \in Phase \ {"queued"},
         NEW q \in PoolRecord, q.queue = Tail(p.queue),
         q.phase = [p.phase EXCEPT ![Head(p.queue)] = x]
  PROVE  /\ Head(p.queue) \in Jobs
         /\ p.phase[Head(p.queue)] = "queued"
         /\ QueueOK(q)
<1> DEFINE s == p.queue
           n == Len(p.queue)
           h == Head(p.queue)
<1>1. /\ s \in Seq(Jobs) /\ n \in Nat /\ n >= 1 /\ h = s[1] /\ h \in Jobs
      /\ Len(Tail(s)) = n - 1
      /\ \A i \in 1 .. n - 1 : Tail(s)[i] = s[i + 1]
  BY HeadTailProperties, EmptySeq DEF PoolRecord
<1>2. p.phase \in [Jobs -> Phase]
  BY DEF PoolRecord
<1>3. p.phase[h] = "queued"
  BY <1>1 DEF QueueOK
<1>4. \A k \in Jobs : q.phase[k] = IF k = h THEN x ELSE p.phase[k]
  BY <1>1, <1>2
<1>5. \A i, k \in 1 .. n - 1 : Tail(s)[i] = Tail(s)[k] => i = k
  <2> SUFFICES ASSUME NEW i \in 1 .. n - 1, NEW k \in 1 .. n - 1,
                      Tail(s)[i] = Tail(s)[k]
               PROVE  i = k
    OBVIOUS
  <2>1. i + 1 \in 1 .. n /\ k + 1 \in 1 .. n /\ s[i + 1] = s[k + 1]
    BY <1>1
  <2> QED
    BY <2>1 DEF QueueOK
<1>6. ASSUME NEW i \in 1 .. n - 1
      PROVE  Tail(s)[i] \in Jobs /\ q.phase[Tail(s)[i]] = "queued"
  <2>1. i + 1 \in 1 .. n /\ 1 \in 1 .. n /\ i + 1 # 1
    BY <1>1
  <2>2. s[i + 1] # h /\ s[i + 1] \in Jobs /\ p.phase[s[i + 1]] = "queued"
    BY <1>1, <2>1 DEF QueueOK
  <2> QED
    BY <1>1, <1>4, <2>2
<1>7. ASSUME NEW k \in Jobs, q.phase[k] = "queued"
      PROVE  \E i \in 1 .. n - 1 : k = Tail(s)[i]
  <2>1. k # h /\ p.phase[k] = "queued"
    BY <1>4, <1>7
  <2>2. PICK m \in 1 .. n : k = s[m]
    BY <2>1 DEF QueueOK
  <2>3. m # 1 /\ m - 1 \in 1 .. n - 1
    BY <1>1, <2>1, <2>2
  <2>4. k = Tail(s)[m - 1]
    BY <1>1, <2>2, <2>3
  <2> QED
    BY <2>3, <2>4
<1>8. {q.queue[i] : i \in 1 .. Len(q.queue)} = {k \in Jobs : q.phase[k] = "queued"}
  BY <1>1, <1>6, <1>7
<1> QED
  BY <1>1, <1>3, <1>5, <1>8 DEF QueueOK

(* A job joins the end of the queue.                                       *)
LEMMA JoinsQueue ==
  ASSUME NEW p \in PoolRecord, QueueOK(p), NEW j \in Jobs, p.phase[j] # "queued",
         NEW q \in PoolRecord, q.queue = Append(p.queue, j),
         q.phase = [p.phase EXCEPT ![j] = "queued"]
  PROVE  QueueOK(q)
<1> DEFINE s == p.queue
           n == Len(p.queue)
<1>1. /\ n \in Nat /\ Len(q.queue) = n + 1 /\ q.queue[n + 1] = j
      /\ \A i \in 1 .. n : q.queue[i] = s[i]
  BY AppendProperties DEF PoolRecord
<1>2. \A k \in Jobs : q.phase[k] = IF k = j THEN "queued" ELSE p.phase[k]
  BY DEF PoolRecord
<1>3. \A i \in 1 .. n : s[i] \in Jobs /\ p.phase[s[i]] = "queued" /\ s[i] # j
  BY DEF QueueOK
<1>4. \A i, k \in 1 .. n + 1 : q.queue[i] = q.queue[k] => i = k
  <2> SUFFICES ASSUME NEW i \in 1 .. n + 1, NEW k \in 1 .. n + 1,
                      q.queue[i] = q.queue[k]
               PROVE  i = k
    OBVIOUS
  <2>1. (i \in 1 .. n \/ i = n + 1) /\ (k \in 1 .. n \/ k = n + 1)
    BY <1>1
  <2> QED
    BY <1>1, <1>3, <2>1 DEF QueueOK
<1>5. ASSUME NEW k \in Jobs, q.phase[k] = "queued"
      PROVE  \E i \in 1 .. n + 1 : k = q.queue[i]
  <2>1. CASE k = j
    BY <1>1, <2>1
  <2>2. CASE k # j
    <3>1. PICK m \in 1 .. n : k = s[m]
      BY <1>2, <1>5, <2>2 DEF QueueOK
    <3> QED
      BY <1>1, <3>1
  <2> QED
    BY <2>1, <2>2
<1>6. ASSUME NEW i \in 1 .. n + 1
      PROVE  q.queue[i] \in Jobs /\ q.phase[q.queue[i]] = "queued"
  <2>1. i \in 1 .. n \/ i = n + 1
    BY <1>1
  <2> QED
    BY <1>1, <1>2, <1>3, <2>1
<1>7. {q.queue[i] : i \in 1 .. Len(q.queue)} = {k \in Jobs : q.phase[k] = "queued"}
  BY <1>1, <1>5, <1>6
<1> QED
  BY <1>1, <1>4, <1>7 DEF QueueOK

(* From p to q every job but j stays, or leaves the queue for a slot.      *)
OthersStay(p, q, j) ==
  \A k \in Jobs \ {j} :
    \/ q.phase[k] = p.phase[k]
    \/ p.phase[k] = "queued" /\ q.phase[k] \in {"worker", "unspawned"}

(* processQueue keeps the accounts and fills the slot just given back.     *)
LEMMA ProcessQueueFields ==
  ASSUME NEW p, NEW d \in Nat, PoolOK(p, d), p.queue # <<>> => p.active + 1 >= Size,
         NEW j \in Jobs, p.phase[j] # "queued"
  PROVE  /\ PoolOK(ProcessQueue(p), d)
         /\ Conserving(ProcessQueue(p))
         /\ ProcessQueue(p).phase[j] = p.phase[j]
         /\ ProcessQueue(p).mode = p.mode
         /\ OthersStay(p, ProcessQueue(p), j)
<1>1. p \in PoolRecord
  BY DEF PoolOK
<1>2. CASE p.queue = <<>> \/ p.active >= Size
  <2>1. ProcessQueue(p) = p
    BY <1>1, <1>2, WorkerPoolAssumption DEF ProcessQueue, PoolRecord
  <2> QED
    BY <1>1, <1>2, <2>1 DEF Conserving, OthersStay
<1>3. CASE p.queue # <<>> /\ p.active < Size
  <2> DEFINE h == Head(p.queue)
             x == IF h \in Unspawnable THEN "unspawned" ELSE "worker"
             q == ProcessQueue(p)
  <2>1. h \in Jobs /\ Tail(p.queue) \in Seq(Jobs)
    BY <1>1, <1>3, HeadTailProperties DEF PoolRecord
  <2>2. q = [p EXCEPT !.queue = Tail(p.queue), !.active = p.active + 1,
                      !.phase = [p.phase EXCEPT ![h] = x]]
    BY <1>1, <1>3 DEF ProcessQueue, Spawn, PoolRecord
  <2>3. x \in Phase \ {"queued"} /\ x \in Running /\ x \in {"worker", "unspawned"}
    BY DEF Phase, InCall, Running
  <2> HIDE DEF x, q, h
  <2>4. /\ q \in PoolRecord /\ q.queue = Tail(p.queue) /\ q.active = p.active + 1
        /\ q.phase = [p.phase EXCEPT ![h] = x] /\ q.mode = p.mode
    <3> DEFINE f == [p.phase EXCEPT ![h] = x]
    <3>1. p.phase \in [Jobs -> Phase] /\ p.active + 1 \in Nat /\ x \in Phase
      BY <1>1, <2>3 DEF PoolRecord
    <3>2. f \in [Jobs -> Phase]
      BY <3>1
    <3>3. q = [p EXCEPT !.queue = Tail(p.queue), !.active = p.active + 1, !.phase = f]
      BY <2>2
    <3> HIDE DEF f
    <3>4. /\ q \in PoolRecord /\ q.queue = Tail(p.queue)
          /\ q.active = p.active + 1 /\ q.phase = f /\ q.mode = p.mode
      BY <1>1, <2>1, <3>1, <3>2, <3>3 DEF PoolRecord
    <3> QED
      BY <3>4 DEF f
  <2>5. QueueOK(p)
    BY DEF PoolOK
  <2>6. h \in Jobs /\ p.phase[h] = "queued" /\ QueueOK(q)
    BY <1>1, <1>3, <2>1, <2>3, <2>4, <2>5, LeavesQueue DEF h
  <2>7. p.phase \in [Jobs -> Phase]
    BY <1>1 DEF PoolRecord
  <2>8. /\ Count(q.phase, Running) = Count(p.phase, Running) + 1
        /\ \/ Count(q.phase, {"worker"}) = Count(p.phase, {"worker"})
           \/ Count(q.phase, {"worker"}) = Count(p.phase, {"worker"}) + 1
    <3>1. p.phase[h] \notin Running /\ p.phase[h] \notin {"worker"}
      BY <2>6 DEF Running
    <3> QED
      BY <2>3, <2>4, <2>6, <2>7, <3>1, CountStep
  <2>9. Count(p.phase, {"worker"}) <= Count(p.phase, Running)
    BY CountMonotone DEF Running
  <2>10. \A P : Count(p.phase, P) \in Nat /\ Count(q.phase, P) \in Nat
    BY CountIsNat
  <2>11. p.active = Count(p.phase, Running) + d
    BY DEF PoolOK
  <2>12. q.active = Count(q.phase, Running) + d
    BY <2>4, <2>8, <2>10, <2>11
  <2>13. Count(q.phase, {"worker"}) <= Size
    BY <1>3, <2>8, <2>9, <2>10, <2>11, WorkerPoolAssumption
  <2>14. PoolOK(q, d)
    BY <2>4, <2>6, <2>12, <2>13 DEF PoolOK
  <2>15. Conserving(q)
    BY <1>3, <2>4 DEF Conserving
  <2>16. q.phase[j] = p.phase[j] /\ OthersStay(p, q, j)
    BY <2>3, <2>4, <2>6, <2>7 DEF OthersStay
  <2> QED
    BY <2>4, <2>14, <2>15, <2>16 DEF q
<1> QED
  BY <1>1, <1>2, <1>3, WorkerPoolAssumption DEF PoolRecord

(* A job that runs ends in phase x and gives its slot back.                *)
LEMMA ReleaseFields ==
  ASSUME NEW p, NEW d \in Nat, PoolOK(p, d), Conserving(p),
         NEW j \in Jobs, p.phase[j] \in Running,
         NEW x \in Phase \ ({"queued"} \cup Running),
         NEW q, q = Release([p EXCEPT !.phase[j] = x])
  PROVE  /\ PoolOK(q, d)
         /\ Conserving(q)
         /\ q.phase[j] = x
         /\ q.mode = p.mode
         /\ OthersStay(p, q, j)
<1> DEFINE r == [p EXCEPT !.phase[j] = x, !.active = p.active - 1]
<1>1. p \in PoolRecord /\ p.phase \in [Jobs -> Phase] /\ p.active \in Nat
  BY DEF PoolOK, PoolRecord
<1>2. q = ProcessQueue(r)
  <2>1. [[p EXCEPT !.phase[j] = x] EXCEPT !.active = @ - 1] = r
    BY <1>1 DEF PoolRecord
  <2> QED
    BY <2>1 DEF Release
<1>3. p.active - 1 \in Nat
  <2>1. Count([p.phase EXCEPT ![j] = x], Running) + 1 = Count(p.phase, Running)
    BY <1>1, CountStep
  <2>2. Count([p.phase EXCEPT ![j] = x], Running) \in Nat
    BY CountIsNat
  <2> QED
    BY <1>1, <2>1, <2>2 DEF PoolOK
<1>4. p.phase[j] # "queued" /\ x # "worker"
  BY DEF Running
<1>r. r = [p EXCEPT !.phase[j] = x, !.active = p.active - 1]
  OBVIOUS
<1>5. PoolOK(r, d)
  <2>1. p.active - 1 = p.active - d + d - 1
    BY <1>1
  <2> HIDE DEF r
  <2> QED
    BY <1>3, <1>4, <1>r, <2>1, Rephase
<1>6. /\ r.queue = p.queue /\ r.active = p.active - 1 /\ r.mode = p.mode
      /\ r.phase = [p.phase EXCEPT ![j] = x]
  BY <1>1 DEF PoolRecord
<1>7. r.queue # <<>> => r.active + 1 >= Size
  BY <1>1, <1>6 DEF Conserving
<1>8. r.phase[j] = x /\ r.phase[j] # "queued" /\ \A k \in Jobs \ {j} : r.phase[k] = p.phase[k]
  BY <1>1, <1>6
<1> HIDE DEF r
<1>9. /\ PoolOK(q, d) /\ Conserving(q) /\ q.phase[j] = r.phase[j]
      /\ q.mode = r.mode /\ OthersStay(r, q, j)
  BY <1>2, <1>5, <1>7, <1>8, ProcessQueueFields
<1> QED
  BY <1>6, <1>8, <1>9 DEF OthersStay

(* From p to q job j goes to phase x, and activeCount becomes a.           *)
Becomes(p, q, j, x, a) == q = [p EXCEPT !.phase[j] = x, !.active = a]

(* A job idle in p goes to phase x, and takes a slot if x runs.            *)
LEMMA Places ==
  ASSUME NEW p, NEW d \in Nat, PoolOK(p, d), Conserving(p),
         NEW j \in Jobs, p.phase[j] # "queued", p.phase[j] \notin Running,
         NEW x \in Phase, x # "queued", x = "worker" => p.active < Size,
         NEW a, x \in Running => a = p.active + 1, x \notin Running => a = p.active,
         NEW q, Becomes(p, q, j, x, a)
  PROVE  PoolOK(q, d) /\ Conserving(q) /\ q.mode = p.mode
         /\ q.phase = [p.phase EXCEPT ![j] = x]
<1>1. /\ p \in PoolRecord /\ p.phase \in [Jobs -> Phase] /\ p.active \in Nat
      /\ p.active = Count(p.phase, Running) + d
  BY DEF PoolOK, PoolRecord
<1>2. x \in Phase \ {"queued"}
  OBVIOUS
<1>3. /\ a \in Nat
      /\ x \in Running => a = p.active - d + d + 1
      /\ x \notin Running => a = p.active - d + d
  BY <1>1
<1>4. /\ q.queue = p.queue /\ q.active = a /\ q.mode = p.mode
      /\ q.phase = [p.phase EXCEPT ![j] = x]
  BY <1>1 DEF PoolRecord, Becomes
<1>5. x = "worker" => Count(p.phase, {"worker"}) < Size
  <2>1. Count(p.phase, {"worker"}) <= Count(p.phase, Running)
    BY CountMonotone DEF Running
  <2>2. Count(p.phase, {"worker"}) \in Nat /\ Count(p.phase, Running) \in Nat
    BY CountIsNat
  <2> QED
    BY <1>1, <2>1, <2>2, WorkerPoolAssumption
<1>6. PoolOK(q, d)
  BY <1>1, <1>2, <1>3, <1>5, Rephase DEF Becomes
<1>7. Conserving(q)
  BY <1>1, <1>3, <1>4, WorkerPoolAssumption DEF Conserving
<1> QED
  BY <1>4, <1>6, <1>7

(* executeJob starts the job, or queues it when no thread is free.         *)
LEMMA ExecuteJobFields ==
  ASSUME NEW p, NEW d \in Nat, PoolOK(p, d), Conserving(p),
         NEW j \in Jobs, p.phase[j] # "queued", p.phase[j] \notin Running,
         NEW q, q = ExecuteJob(p, j)
  PROVE  /\ PoolOK(q, d) /\ Conserving(q) /\ q.mode = p.mode
         /\ \E x \in {"queued", "worker", "unspawned", "attempt"} :
              q.phase = [p.phase EXCEPT ![j] = x]
<1>1. /\ p \in PoolRecord /\ p.phase \in [Jobs -> Phase] /\ p.active \in Nat
      /\ p.queue \in Seq(Jobs) /\ Size \in Nat
  BY WorkerPoolAssumption DEF PoolOK, PoolRecord
<1>2. CASE p.mode = "threads" /\ ~ (p.active < Size)
  <2>1. q = [p EXCEPT !.queue = Append(@, j), !.phase[j] = "queued"]
    BY <1>2 DEF ExecuteJob
  <2>2. /\ q.queue = Append(p.queue, j) /\ q.active = p.active /\ q.mode = p.mode
        /\ q.phase = [p.phase EXCEPT ![j] = "queued"]
    BY <1>1, <2>1 DEF PoolRecord
  <2>3. q \in PoolRecord
    <3>1. Append(p.queue, j) \in Seq(Jobs)
      BY <1>1, AppendProperties
    <3>2. q.phase \in [Jobs -> Phase]
      BY <1>1, <2>2 DEF Phase, InCall
    <3>3. q = [p EXCEPT !.queue = Append(p.queue, j), !.phase = q.phase]
      BY <1>1, <2>1 DEF PoolRecord
    <3> QED
      BY <1>1, <3>1, <3>2, <3>3 DEF PoolRecord
  <2>4. QueueOK(q)
    BY <1>1, <2>2, <2>3, JoinsQueue DEF PoolOK
  <2>5. /\ Count(q.phase, Running) = Count(p.phase, Running)
        /\ Count(q.phase, {"worker"}) = Count(p.phase, {"worker"})
    <3>1. "queued" \notin Running /\ p.phase[j] # "worker"
      BY DEF Running
    <3>2. ASSUME NEW P, "queued" \notin P, p.phase[j] \notin P
          PROVE  Count(q.phase, P) = Count(p.phase, P)
      BY <1>1, <2>2, <3>2, CountStep
    <3> QED
      BY <3>1, <3>2
  <2>6. PoolOK(q, d)
    BY <2>2, <2>3, <2>4, <2>5 DEF PoolOK
  <2>7. Conserving(q)
    BY <1>1, <1>2, <2>2 DEF Conserving
  <2> QED
    BY <2>2, <2>6, <2>7
<1>3. CASE ~ (p.mode = "threads" /\ ~ (p.active < Size))
  <2>1. PICK x \in {"worker", "unspawned", "attempt"} :
          /\ Becomes(p, q, j, x, p.active + 1)
          /\ x = "worker" => p.active < Size
    BY <1>1, <1>3 DEF ExecuteJob, Spawn, PoolRecord, Becomes
  <2>2. x \in Phase /\ x # "queued" /\ x \in Running
    BY DEF Phase, InCall, Running
  <2>3. /\ PoolOK(q, d) /\ Conserving(q) /\ q.mode = p.mode
        /\ q.phase = [p.phase EXCEPT ![j] = x]
    BY <2>1, <2>2, Places
  <2> QED
    BY <2>1, <2>3
<1> QED
  BY <1>2, <1>3

(* The catch block runs for attempt a of job j.                            *)
FailsTo(p, q, j, a) ==
  \/ \E error \in Settled : q = AfterFailure(p, j, a, TRUE, error)
  \/ \E error \in Settled : q = AfterFailure(p, j, a, FALSE, error)

(* Where the job goes then.                                                *)
Failed(p, q, j, a) ==
  /\ q.phase = [p.phase EXCEPT ![j] = q.phase[j]]
  /\ q.phase[j] \in {"backoff", "fallback"} \cup Settled
  /\ q.phase[j] = "backoff" => a < MaxRetries

(* After a failed attempt the job waits for its next one, which is within  *)
(* MaxRetries, runs inline or is settled.                                  *)
LEMMA AfterFailureFields ==
  ASSUME NEW p, NEW d \in Nat, PoolOK(p, d), Conserving(p),
         NEW j \in Jobs, p.phase[j] # "queued", p.phase[j] \notin Running,
         NEW a \in 0 .. MaxRetries, NEW q, FailsTo(p, q, j, a)
  PROVE  PoolOK(q, d) /\ Conserving(q) /\ Failed(p, q, j, a)
<1>1. PICK x \in {"backoff", "fallback"} \cup Settled, a1 \in {p.active, p.active + 1} :
        /\ Becomes(p, q, j, x, a1)
        /\ a1 = p.active + 1 <=> x = "fallback"
        /\ x = "backoff" => a < MaxRetries
  <2>1. p \in PoolRecord /\ p.active # p.active + 1
    BY DEF PoolOK, PoolRecord
  <2>2. \A y : [p EXCEPT !.phase[j] = y] = [p EXCEPT !.phase[j] = y, !.active = p.active]
    BY <2>1 DEF PoolRecord
  <2>3. PICK error \in Settled :
          \/ q = [p EXCEPT !.phase[j] = "backoff"] /\ a < MaxRetries
          \/ q = RunInline(p, j)
          \/ q = [p EXCEPT !.phase[j] = error]
    BY DEF FailsTo, AfterFailure
  <2>4. CASE q = [p EXCEPT !.phase[j] = "backoff"] /\ a < MaxRetries
    <3>1. Becomes(p, q, j, "backoff", p.active)
      BY <2>2, <2>4 DEF Becomes
    <3> QED
      BY <2>1, <2>4, <3>1
  <2>5. CASE q = RunInline(p, j)
    <3>1. Becomes(p, q, j, "fallback", p.active + 1)
      BY <2>1, <2>5 DEF RunInline, PoolRecord, Becomes
    <3> QED
      BY <3>1
  <2>6. CASE q = [p EXCEPT !.phase[j] = error]
    <3>1. Becomes(p, q, j, error, p.active)
      BY <2>2, <2>6 DEF Becomes
    <3>2. error # "fallback" /\ error # "backoff"
      BY DEF Settled
    <3> QED
      BY <2>1, <3>1, <3>2
  <2> QED
    BY <2>3, <2>4, <2>5, <2>6
<1>2. /\ x \in Phase /\ x # "queued" /\ x # "worker"
      /\ x \in Running <=> x = "fallback"
  BY DEF Phase, Settled, Running
<1>3. /\ x \in Running => a1 = p.active + 1
      /\ x \notin Running => a1 = p.active
  BY <1>1, <1>2
<1>4. x = "worker" => p.active < Size
  BY <1>2
<1>5. /\ PoolOK(q, d) /\ Conserving(q) /\ q.mode = p.mode
      /\ q.phase = [p.phase EXCEPT ![j] = x]
  BY <1>1, <1>2, <1>3, <1>4, Places
<1>6. q.phase[j] = x
  BY <1>5 DEF PoolOK, PoolRecord
<1> QED
  BY <1>1, <1>5, <1>6 DEF Failed

(***************************************************************************)
(* The inductive invariant.  A slot is leaked once only because the job    *)
(* that leaked it never runs on a thread again (LostIsOver), and attempt   *)
(* stays in range because a job only waits for an attempt it has left.     *)
(***************************************************************************)

LostIsOver ==
  \A t \in lost : pool.phase[t[1]] \in {"stuck", "fallback"} \cup Settled

BackoffLeft == \A j \in Jobs : pool.phase[j] = "backoff" => attempt[j] < MaxRetries

IInv ==
  /\ TypeOK
  /\ IsFiniteSet(lost)
  /\ PoolOK(pool, Cardinality(lost))
  /\ Conserving(pool)
  /\ LostIsOver
  /\ BackoffLeft
  /\ ProbesAreHeld

(* A new pool is idle and its breaker has counted nothing.                 *)
LEMMA InitIInv == Init => IInv
<1> SUFFICES ASSUME Init PROVE IInv
  OBVIOUS
<1>1. PICK mode \in Modes :
        pool = [mode |-> mode, phase |-> [j \in Jobs |-> "new"],
                queue |-> <<>>, active |-> 0]
  BY DEF Init
<1>2. /\ pool \in PoolRecord /\ pool.active = 0 /\ pool.queue = <<>>
      /\ Len(pool.queue) = 0 /\ \A j \in Jobs : pool.phase[j] = "new"
  <2>1. <<>> \in Seq(Jobs) /\ Len(<<>>) = 0
    BY EmptySeq
  <2>2. "new" \in Phase
    BY DEF Phase
  <2> QED
    BY <1>1, <2>1, <2>2 DEF PoolRecord
<1>3. IsFiniteSet(lost) /\ Cardinality(lost) = 0
  BY FS_EmptySet DEF Init
<1>4. Count(pool.phase, Running) = 0 /\ Count(pool.phase, {"worker"}) = 0
  <2>1. /\ {j \in Jobs : pool.phase[j] \in Running} = {}
        /\ {j \in Jobs : pool.phase[j] \in {"worker"}} = {}
    BY <1>2 DEF Running
  <2> QED
    BY <2>1, FS_EmptySet DEF Count
<1>5. QueueOK(pool)
  BY <1>2 DEF QueueOK
<1>6. PoolOK(pool, Cardinality(lost)) /\ Conserving(pool)
  BY <1>2, <1>3, <1>4, <1>5, WorkerPoolAssumption DEF PoolOK, Conserving
<1>7. TypeOK
  <2>1. cb \in BreakerRecord /\ cb.state = "CLOSED"
    BY DEF Init, ResetBreaker, BreakerRecord, CircuitState, Null
  <2>2. attempt \in [Jobs -> 0 .. MaxRetries]
    BY WorkerPoolAssumption DEF Init
  <2> QED
    BY <1>2, <2>1, <2>2 DEF Init, TypeOK, PoolRecord
<1>8. LostIsOver /\ BackoffLeft /\ ProbesAreHeld
  BY <1>2 DEF Init, LostIsOver, BackoffLeft, ProbesAreHeld, ResetBreaker
<1> QED
  BY <1>3, <1>6, <1>7, <1>8 DEF IInv

(* Where the attempt of job j goes that the breaker admits or refuses.     *)
Calls(j) ==
  /\ OthersStay(pool, pool', j)
  /\ pool'.phase[j] # "new"
  /\ pool'.phase[j] \in InCall <=> Admits(GetState(cb, now))

(* Where job j goes when its attempt, or its fallback, is over.            *)
Leaves(j) ==
  /\ OthersStay(pool, pool', j)
  /\ pool'.phase[j] \in {"backoff", "fallback"} \cup Settled

(* One call through the breaker, for a new job or one in backoff.          *)
LEMMA RunWithRetryStep ==
  ASSUME IInv, NEW j \in Jobs, NEW a \in 0 .. MaxRetries,
         pool.phase[j] = "new" \/ pool.phase[j] = "backoff",
         RunWithRetry(j, a)
  PROVE  IInv' /\ Calls(j)
<1> DEFINE g == GetState(cb, now)
           d == Cardinality(lost)
<1>1. /\ cb \in BreakerRecord /\ now \in Nat /\ pool.phase \in [Jobs -> Phase]
      /\ attempt \in [Jobs -> 0 .. MaxRetries] /\ <<j, a>> \in Tries
  BY DEF IInv, TypeOK, Tries
<1>2. d \in Nat /\ PoolOK(pool, d) /\ Conserving(pool)
  BY FS_CardinalityType DEF IInv
<1>3. /\ pool.phase[j] # "queued" /\ pool.phase[j] \notin Running
      /\ pool.phase[j] \notin InCall
      /\ pool.phase[j] \notin {"stuck", "fallback"} \cup Settled
  BY DEF Running, InCall, Settled
<1>4. g \in BreakerRecord
  BY <1>1, GetStateFields
<1>5. /\ attempt' = [attempt EXCEPT ![j] = a]
      /\ now' = now /\ late' = late /\ lost' = lost
      /\ attempt' \in [Jobs -> 0 .. MaxRetries]
  BY <1>1 DEF RunWithRetry
<1>6. ASSUME g.state = "HALF_OPEN"
      PROVE  g.halfOpenAttempts <= Count(pool.phase, InCall)
  <2>1. Count(pool.phase, InCall) \in Nat
    BY CountIsNat
  <2>2. CASE TimeoutElapsed(cb, now)
    <3>1. g.halfOpenAttempts = 0
      BY <1>1, <2>2, GetStateFields
    <3> HIDE DEF g
    <3> QED
      BY <2>1, <3>1
  <2>3. CASE ~ TimeoutElapsed(cb, now)
    BY <1>1, <1>6, <2>3, GetStateFields DEF IInv, ProbesAreHeld, Count
  <2> QED
    BY <2>2, <2>3
<1>7. PICK x \in Phase :
        /\ PoolOK(pool', d) /\ Conserving(pool')
        /\ pool'.phase = [pool.phase EXCEPT ![j] = x]
        /\ x = "backoff" => a < MaxRetries
        /\ x # "new"
        /\ IF x \in InCall THEN Admits(g) /\ cb' = Admit(g) ELSE ~ Admits(g) /\ cb' = g
  <2>1. CASE Admits(g)
    <3>1. cb' = Admit(g) /\ pool' = ExecuteJob(pool, j)
      BY <2>1 DEF RunWithRetry
    <3>2. PICK x \in {"queued", "worker", "unspawned", "attempt"} :
            /\ PoolOK(pool', d) /\ Conserving(pool')
            /\ pool'.phase = [pool.phase EXCEPT ![j] = x]
      BY <1>2, <1>3, <3>1, ExecuteJobFields
    <3>3. x \in Phase /\ x \in InCall /\ x # "backoff" /\ x # "new"
      BY DEF Phase, InCall
    <3> QED
      BY <2>1, <3>1, <3>2, <3>3
  <2>2. CASE ~ Admits(g)
    <3>1. cb' = g /\ pool' = AfterFailure(pool, j, a, FALSE, "circuit_open")
      BY <2>2 DEF RunWithRetry
    <3>2. FailsTo(pool, pool', j, a)
      BY <3>1 DEF FailsTo, Settled
    <3> DEFINE x == pool'.phase[j]
    <3>3. PoolOK(pool', d) /\ Conserving(pool') /\ Failed(pool, pool', j, a)
      BY <1>2, <1>3, <3>1, <3>2, AfterFailureFields
    <3>4. x \in Phase /\ x \notin InCall /\ x # "new"
      BY <3>3 DEF Failed, Phase, InCall, Settled
    <3> QED
      BY <2>2, <3>1, <3>3, <3>4 DEF Failed
  <2> QED
    BY <2>1, <2>2
<1>8. \A k \in Jobs : pool'.phase[k] = IF k = j THEN x ELSE pool.phase[k]
  BY <1>1, <1>7
<1>9. ASSUME cb'.state = "HALF_OPEN"
      PROVE  cb'.halfOpenAttempts <= Count(pool'.phase, InCall)
  <2>1. CASE x \in InCall
    <3>1. Count(pool'.phase, InCall) = Count(pool.phase, InCall) + 1
      BY <1>1, <1>3, <1>7, <2>1, CountStep
    <3>2. cb' = Admit(g) /\ g.state = "HALF_OPEN"
          /\ cb'.halfOpenAttempts = g.halfOpenAttempts + 1
      BY <1>4, <1>7, <1>9, <2>1, AdmitFields
    <3>3. g.halfOpenAttempts \in Nat /\ Count(pool.phase, InCall) \in Nat
      BY <1>4, CountIsNat DEF BreakerRecord
    <3> HIDE DEF g
    <3> QED
      BY <1>6, <3>1, <3>2, <3>3
  <2>2. CASE x \notin InCall
    <3>1. Count(pool'.phase, InCall) = Count(pool.phase, InCall)
      BY <1>1, <1>3, <1>7, <2>2, CountStep
    <3> QED
      BY <1>6, <1>7, <1>9, <2>2, <3>1
  <2> QED
    BY <2>1, <2>2
<1>10. TypeOK'
  <2>1. cb' \in BreakerRecord
    BY <1>4, <1>7, AdmitFields
  <2>2. tries' \in [Tries -> {"idle", "running", "ok", "failed", "refused"}]
    BY <1>1 DEF RunWithRetry, IInv, TypeOK
  <2> QED
    BY <1>5, <1>7, <2>1, <2>2 DEF IInv, TypeOK, PoolOK, PoolRecord
<1>11. LostIsOver'
  BY <1>3, <1>5, <1>8 DEF IInv, TypeOK, LostIsOver, Tries
<1>12. BackoffLeft'
  BY <1>1, <1>5, <1>7, <1>8 DEF IInv, BackoffLeft
<1>13. Calls(j)
  BY <1>7, <1>8 DEF Calls, OthersStay
<1> QED
  BY <1>5, <1>7, <1>9, <1>10, <1>11, <1>12, <1>13 DEF IInv, ProbesAreHeld, Count

(* The execution of job j ends and nobody else's does.                     *)
LEMMA EndStep ==
  ASSUME IInv, NEW j \in Jobs, pool.phase[j] \in Running,
         IsFiniteSet(lost'), PoolOK(pool', Cardinality(lost')), Conserving(pool'),
         OthersStay(pool, pool', j),
         pool'.phase[j] \in {"backoff", "fallback", "stuck"} \cup Settled,
         pool'.phase[j] = "backoff" =>
           attempt[j] < MaxRetries /\ lost' = lost /\ pool.phase[j] # "fallback",
         lost' \subseteq lost \cup {Try(j)}, late' \subseteq late \cup {Try(j)},
         cb' \in BreakerRecord, now' = now, attempt' = attempt,
         tries' \in [Tries -> {"idle", "running", "ok", "failed", "refused"}],
         \/ cb'.state # "HALF_OPEN"
         \/ cb' = cb /\ (pool'.phase[j] \in InCall <=> pool.phase[j] \in InCall)
  PROVE  IInv'
<1>1. /\ pool.phase \in [Jobs -> Phase] /\ attempt \in [Jobs -> 0 .. MaxRetries]
      /\ lost \subseteq Tries /\ late \subseteq Tries /\ Try(j) \in Tries
      /\ Try(j)[1] = j
  BY DEF IInv, TypeOK, Tries, Try
<1>2. TypeOK'
  <2>1. lost' \subseteq Tries /\ late' \subseteq Tries
    BY <1>1
  <2> QED
    BY <2>1 DEF IInv, TypeOK, PoolOK, PoolRecord
<1>3. LostIsOver'
  <2> SUFFICES ASSUME NEW t \in lost'
               PROVE  pool'.phase[t[1]] \in {"stuck", "fallback"} \cup Settled
    BY DEF LostIsOver
  <2>1. t[1] \in Jobs /\ (t \in lost \/ t[1] = j)
    BY <1>1 DEF Tries
  <2>2. CASE t[1] = j
    <3>1. t \in lost => pool.phase[j] = "fallback"
      BY <2>2 DEF IInv, LostIsOver, Running, Settled
    <3> QED
      BY <2>2, <3>1
  <2>3. CASE t[1] # j
    BY <2>1, <2>3 DEF IInv, LostIsOver, OthersStay, Settled
  <2> QED
    BY <2>2, <2>3
<1>4. BackoffLeft'
  BY DEF IInv, BackoffLeft, OthersStay
<1>5. ProbesAreHeld'
  <2>1. CASE cb'.state # "HALF_OPEN"
    BY <2>1 DEF ProbesAreHeld
  <2>2. CASE cb' = cb /\ (pool'.phase[j] \in InCall <=> pool.phase[j] \in InCall)
    <3>1. \A k \in Jobs : pool.phase[k] \in InCall <=> pool'.phase[k] \in InCall
      BY <2>2 DEF OthersStay, InCall
    <3>2. Count(pool.phase, InCall) = Count(pool'.phase, InCall)
      BY <3>1, CountSame
    <3> QED
      BY <2>2, <3>2 DEF IInv, ProbesAreHeld, Count
  <2> QED
    BY <2>1, <2>2
<1> QED
  BY <1>2, <1>3, <1>4, <1>5 DEF IInv

(* What an attempt that ends does to the breaker and to its history.       *)
LEMMA SettleFields ==
  ASSUME IInv, NEW j \in Jobs, Succeed(j) \/ Fail(j)
  PROVE  /\ cb' \in BreakerRecord /\ cb'.state # "HALF_OPEN"
         /\ tries' \in [Tries -> {"idle", "running", "ok", "failed", "refused"}]
<1>1. cb \in BreakerRecord /\ now \in Nat /\ cb.state \in CircuitState
  BY DEF IInv, TypeOK, BreakerRecord
<1>2. ASSUME Succeed(j) PROVE cb' \in BreakerRecord /\ cb'.state # "HALF_OPEN"
  BY <1>1, <1>2, OnSuccessFields DEF Succeed, ResetBreaker
<1>3. ASSUME Fail(j) PROVE cb' \in BreakerRecord /\ cb'.state # "HALF_OPEN"
  <2>1. cb' \in BreakerRecord
    BY <1>1, <1>3, OnFailureFields DEF Fail
  <2>2. cb'.state # "HALF_OPEN"
    BY <1>1, <1>3, BreakerAssumption DEF Fail, OnFailure, Opened, BreakerRecord, CircuitState
  <2> QED
    BY <2>1, <2>2
<1>4. tries' \in [Tries -> {"idle", "running", "ok", "failed", "refused"}]
  BY DEF IInv, TypeOK, Succeed, Fail
<1> QED
  BY <1>2, <1>3, <1>4

(* A slot leaks with a job that was not over yet.                          *)
LEMMA LeakFields ==
  ASSUME IInv, NEW j \in Jobs, pool.phase[j] \in {"worker", "unspawned"},
         lost' = lost \cup {Try(j)}
  PROVE  IsFiniteSet(lost') /\ Cardinality(lost') = Cardinality(lost) + 1
<1>1. Try(j) \notin lost
  BY DEF IInv, LostIsOver, Try, Settled
<1> QED
  BY <1>1, FS_AddElement DEF IInv

(* Job j is settled and its slot goes to the queue.                        *)
LEMMA SettledStep ==
  ASSUME IInv, NEW j \in Jobs, pool.phase[j] \in Running,
         NEW x \in Settled, pool' = Release([pool EXCEPT !.phase[j] = x]),
         \/ Succeed(j)
         \/ pool.phase[j] = "fallback" /\ UNCHANGED <<cb, tries>>,
         now' = now, attempt' = attempt, lost' = lost,
         late' \subseteq late \cup {Try(j)}
  PROVE  IInv' /\ Leaves(j)
<1> DEFINE d == Cardinality(lost)
<1>1. d \in Nat /\ PoolOK(pool, d) /\ Conserving(pool) /\ IsFiniteSet(lost)
  BY FS_CardinalityType DEF IInv
<1>2. x \in Phase \ ({"queued"} \cup Running) /\ x \notin InCall
  BY DEF Phase, InCall, Running, Settled
<1>3. /\ PoolOK(pool', d) /\ Conserving(pool') /\ pool'.phase[j] = x
      /\ OthersStay(pool, pool', j)
  BY <1>1, <1>2, ReleaseFields
<1>4. /\ pool'.phase[j] \in {"backoff", "fallback", "stuck"} \cup Settled
      /\ pool'.phase[j] # "backoff" /\ Leaves(j)
  BY <1>3 DEF Settled, Leaves
<1>5. CASE Succeed(j)
  BY <1>1, <1>3, <1>4, <1>5, SettleFields, EndStep
<1>6. CASE pool.phase[j] = "fallback" /\ UNCHANGED <<cb, tries>>
  <2>1. pool.phase[j] \notin InCall
    BY <1>6 DEF InCall
  <2>2. /\ cb' \in BreakerRecord /\ cb' = cb
        /\ tries' \in [Tries -> {"idle", "running", "ok", "failed", "refused"}]
    BY <1>6 DEF IInv, TypeOK
  <2> QED
    BY <1>1, <1>2, <1>3, <1>4, <2>1, <2>2, EndStep
<1> QED
  BY <1>5, <1>6

(* The promise of job j's attempt is rejected once its slot is given back, *)
(* or has leaked.                                                          *)
LEMMA RejectedStep ==
  ASSUME IInv, NEW j \in Jobs, pool.phase[j] \in Running, pool.phase[j] # "fallback",
         NEW r, PoolOK(r, Cardinality(lost')), Conserving(r),
         r.phase[j] = "caught", OthersStay(pool, r, j),
         FailsTo(r, pool', j, attempt[j]), Fail(j),
         pool'.phase[j] = "backoff" => lost' = lost,
         IsFiniteSet(lost'), lost' \subseteq lost \cup {Try(j)},
         now' = now, attempt' = attempt, late' \subseteq late \cup {Try(j)}
  PROVE  IInv' /\ Leaves(j)
<1> DEFINE d == Cardinality(lost')
<1>1. d \in Nat /\ attempt[j] \in 0 .. MaxRetries
  BY FS_CardinalityType DEF IInv, TypeOK
<1>2. r.phase[j] # "queued" /\ r.phase[j] \notin Running
  BY DEF Running
<1> HIDE DEF d
<1>3. PoolOK(pool', d) /\ Conserving(pool') /\ Failed(r, pool', j, attempt[j])
  <2>1. PoolOK(r, d)
    BY DEF d
  <2> QED
    BY <1>1, <1>2, <2>1, AfterFailureFields
<1>4. r.phase \in [Jobs -> Phase]
  BY DEF PoolOK, PoolRecord
<1>5. OthersStay(pool, pool', j)
  BY <1>3, <1>4 DEF OthersStay, Failed
<1>6. /\ pool'.phase[j] \in {"backoff", "fallback", "stuck"} \cup Settled
      /\ pool'.phase[j] = "backoff" => attempt[j] < MaxRetries
      /\ Leaves(j)
  BY <1>3, <1>5 DEF Failed, Leaves
<1> QED
  BY <1>3, <1>5, <1>6, SettleFields, EndStep DEF d

(* The attempt failed and gave its slot back.                              *)
LEMMA ReleasedStep ==
  ASSUME IInv, NEW j \in Jobs, pool.phase[j] \in {"worker", "attempt"},
         FailsTo(Release(Caught(pool, j)), pool', j, attempt[j]), Fail(j),
         lost' = lost, now' = now, attempt' = attempt,
         late' \subseteq late \cup {Try(j)}
  PROVE  IInv' /\ Leaves(j)
<1> DEFINE d == Cardinality(lost)
           r == Release(Caught(pool, j))
<1>1. /\ d \in Nat /\ PoolOK(pool, d) /\ Conserving(pool) /\ IsFiniteSet(lost)
      /\ pool.phase[j] \in Running /\ pool.phase[j] # "fallback"
  BY FS_CardinalityType DEF IInv, Running
<1>2. "caught" \in Phase \ ({"queued"} \cup Running)
  BY DEF Phase, InCall, Running, Settled
<1>3. r = Release([pool EXCEPT !.phase[j] = "caught"])
  BY DEF Caught
<1> HIDE DEF r
<1>4. /\ PoolOK(r, d) /\ Conserving(r) /\ r.phase[j] = "caught"
      /\ OthersStay(pool, r, j)
  BY <1>1, <1>2, <1>3, ReleaseFields
<1>5. FailsTo(r, pool', j, attempt[j])
  BY DEF r
<1> QED
  BY <1>1, <1>4, <1>5, RejectedStep

(* The constructor threw: the slot has leaked.                             *)
LEMMA SpawnFailsStep ==
  ASSUME IInv, NEW j \in Jobs, SpawnFails(j)
  PROVE  IInv' /\ Leaves(j)
<1> DEFINE d == Cardinality(lost)
           r == Caught(pool, j)
<1>1. /\ d \in Nat /\ PoolOK(pool, d) /\ Conserving(pool) /\ pool \in PoolRecord
      /\ pool.phase[j] = "unspawned" /\ pool.phase[j] \in Running
  BY FS_CardinalityType DEF IInv, PoolOK, Running, SpawnFails
<1>2. IsFiniteSet(lost') /\ Cardinality(lost') = d + 1
  BY <1>1, LeakFields DEF SpawnFails
<1>3. "caught" \in Phase \ {"queued"} /\ "caught" \notin Running
  BY DEF Phase, InCall, Running, Settled
<1>4. r = [pool EXCEPT !.phase[j] = "caught", !.active = pool.active]
  BY <1>1 DEF Caught, PoolRecord
<1>5. /\ r.phase = [pool.phase EXCEPT ![j] = "caught"]
      /\ r.queue = pool.queue /\ r.active = pool.active
  BY <1>1 DEF Caught, PoolRecord
<1>6. r.phase[j] = "caught" /\ OthersStay(pool, r, j)
  BY <1>1, <1>5 DEF OthersStay, PoolRecord
<1>7. Conserving(r)
  BY <1>1, <1>5 DEF Conserving
<1> HIDE DEF r, d
<1>8. PoolOK(r, d + 1)
  <2>1. pool.active \in Nat /\ d + 1 \in Nat /\ pool.active = pool.active - d + (d + 1) - 1
    BY <1>1 DEF PoolRecord
  <2> QED
    BY <1>1, <1>3, <1>4, <2>1, Rephase
<1>9. FailsTo(r, pool', j, attempt[j]) /\ pool'.phase[j] # "backoff"
  <2>1. pool' = AfterFailure(r, j, attempt[j], FALSE, "job_error")
    BY DEF SpawnFails, r
  <2>2. FailsTo(r, pool', j, attempt[j])
    BY <2>1 DEF FailsTo, Settled
  <2>3. r \in PoolRecord
    BY <1>8 DEF PoolOK
  <2>4. pool'.phase[j] # "backoff"
    BY <2>1, <2>3 DEF AfterFailure, RunInline, PoolRecord
  <2> QED
    BY <2>2, <2>4
<1> QED
  BY <1>1, <1>2, <1>6, <1>7, <1>8, <1>9, RejectedStep DEF SpawnFails

(* The worker exited without a message: its slot leaks with the job.       *)
LEMMA WorkerSilentExitStep ==
  ASSUME IInv, NEW j \in Jobs, WorkerSilentExit(j)
  PROVE  IInv'
<1> DEFINE d == Cardinality(lost)
<1>1. /\ d \in Nat /\ PoolOK(pool, d) /\ Conserving(pool) /\ pool \in PoolRecord
      /\ pool.phase[j] = "worker" /\ pool.phase[j] \in Running
  BY FS_CardinalityType DEF IInv, PoolOK, Running, WorkerSilentExit
<1>2. IsFiniteSet(lost') /\ Cardinality(lost') = d + 1
  BY <1>1, LeakFields DEF WorkerSilentExit
<1>3. "stuck" \in Phase \ {"queued"} /\ "stuck" \notin Running
  BY DEF Phase, InCall, Running, Settled
<1>4. pool' = [pool EXCEPT !.phase[j] = "stuck", !.active = pool.active]
  BY <1>1 DEF WorkerSilentExit, PoolRecord
<1>5. /\ pool'.phase = [pool.phase EXCEPT ![j] = "stuck"]
      /\ pool'.queue = pool.queue /\ pool'.active = pool.active
  BY <1>1 DEF WorkerSilentExit, PoolRecord
<1>6. pool'.phase[j] = "stuck" /\ OthersStay(pool, pool', j)
  BY <1>1, <1>5 DEF OthersStay, PoolRecord
<1>7. Conserving(pool')
  BY <1>1, <1>5 DEF Conserving
<1> HIDE DEF d
<1>8. PoolOK(pool', d + 1)
  <2>1. pool.active \in Nat /\ d + 1 \in Nat /\ pool.active = pool.active - d + (d + 1) - 1
    BY <1>1 DEF PoolRecord
  <2> QED
    BY <1>1, <1>3, <1>4, <2>1, Rephase
<1>9. /\ pool'.phase[j] \in {"backoff", "fallback", "stuck"} \cup Settled
      /\ pool'.phase[j] # "backoff"
      /\ pool'.phase[j] \in InCall /\ pool.phase[j] \in InCall
  BY <1>1, <1>6 DEF InCall
<1>10. /\ cb' = cb /\ cb' \in BreakerRecord
       /\ tries' \in [Tries -> {"idle", "running", "ok", "failed", "refused"}]
  BY DEF WorkerSilentExit, IInv, TypeOK
<1> QED
  BY <1>1, <1>2, <1>6, <1>7, <1>8, <1>9, <1>10, EndStep DEF WorkerSilentExit

(* The queue is full: run() rejects at once.                               *)
LEMMA ExhaustedStep ==
  ASSUME IInv, NEW j \in Jobs, Run(j), Len(pool.queue) >= MaxQueueSize
  PROVE  IInv'
<1> DEFINE d == Cardinality(lost)
<1>1. /\ d \in Nat /\ PoolOK(pool, d) /\ Conserving(pool) /\ pool \in PoolRecord
      /\ pool.phase[j] # "queued" /\ pool.phase[j] \notin Running
      /\ pool.phase[j] \notin InCall /\ pool.phase[j] \notin {"stuck", "fallback"} \cup Settled
  BY FS_CardinalityType DEF IInv, PoolOK, Running, Run, InCall, Settled
<1>2. /\ pool' = [pool EXCEPT !.phase[j] = "exhausted"]
      /\ UNCHANGED <<cb, now, attempt, late, tries, lost>>
  BY DEF Run
<1>3. /\ "exhausted" \in Phase \ {"queued"} /\ "exhausted" \notin Running
      /\ "exhausted" \notin InCall
  BY DEF Phase, InCall, Running, Settled
<1>4. pool' = [pool EXCEPT !.phase[j] = "exhausted", !.active = pool.active]
  BY <1>1, <1>2 DEF PoolRecord
<1>5. /\ pool'.phase = [pool.phase EXCEPT ![j] = "exhausted"]
      /\ pool'.queue = pool.queue /\ pool'.active = pool.active
  BY <1>1, <1>2 DEF PoolRecord
<1>6. \A k \in Jobs : pool'.phase[k] = IF k = j THEN "exhausted" ELSE pool.phase[k]
  BY <1>1, <1>5 DEF PoolRecord
<1>7. Conserving(pool')
  BY <1>1, <1>5 DEF Conserving
<1> HIDE DEF d
<1>8. PoolOK(pool', d)
  <2>1. pool.active \in Nat /\ pool.active = pool.active - d + d
    BY <1>1 DEF PoolRecord
  <2> QED
    BY <1>1, <1>3, <1>4, <2>1, Rephase
<1>9. TypeOK'
  BY <1>2, <1>8 DEF IInv, TypeOK, PoolOK, PoolRecord
<1>10. LostIsOver' /\ BackoffLeft'
  BY <1>1, <1>2, <1>6 DEF IInv, TypeOK, LostIsOver, BackoffLeft, Tries
<1>11. ProbesAreHeld'
  <2>1. Count(pool.phase, InCall) = Count(pool'.phase, InCall)
    BY <1>1, <1>3, <1>6, CountSame
  <2> QED
    BY <1>2, <2>1 DEF IInv, ProbesAreHeld, Count
<1> QED
  BY <1>2, <1>7, <1>8, <1>9, <1>10, <1>11 DEF IInv, d

(***************************************************************************)
(* What a step of the pool can be, for the calls it makes to its breaker:  *)
(* attempt a of job j is called, the attempt of job j is over, job j moves *)
(* outside the breaker, or no job moves.                                   *)
(***************************************************************************)

Called(j, a) ==
  /\ RunWithRetry(j, a)
  /\ Calls(j)
  /\ \/ pool.phase[j] = "new" /\ a = 0 /\ Len(pool.queue) < MaxQueueSize
     \/ pool.phase[j] = "backoff" /\ a = attempt[j] + 1

Ended(j) ==
  /\ pool.phase[j] \in {"worker", "attempt", "unspawned"}
  /\ Succeed(j) \/ Fail(j)
  /\ Leaves(j)
  /\ UNCHANGED <<now, attempt>>

Moves(j) ==
  /\ pool.phase[j] \notin {"queued", "backoff"}
  /\ OthersStay(pool, pool', j)
  /\ pool'.phase[j] \notin {"new", "queued"}
  /\ pool'.phase[j] \in InCall => pool.phase[j] \in InCall
  /\ UNCHANGED <<cb, now, attempt, tries>>

Still ==
  /\ now' = now \/ now' > now
  /\ UNCHANGED <<cb, pool, attempt, tries>>

(* Every step preserves IInv and is one of the four.                       *)
LEMMA NextCases ==
  ASSUME IInv, [Next]_vars
  PROVE  /\ IInv'
         /\ \/ \E j \in Jobs, a \in 0 .. MaxRetries : Called(j, a)
            \/ \E j \in Jobs : Ended(j) \/ Moves(j)
            \/ Still
<1>1. CASE Tick
  <2>1. IInv'
    BY <1>1 DEF Tick, IInv, TypeOK, PoolOK, PoolRecord, QueueOK, Conserving,
       LostIsOver, BackoffLeft, ProbesAreHeld, Count
  <2>2. Still
    BY <1>1 DEF Tick, Still, IInv, TypeOK
  <2> QED
    BY <2>1, <2>2
<1>2. ASSUME NEW j \in Jobs, Run(j)
      PROVE  IInv' /\ (Moves(j) \/ Called(j, 0)) /\ 0 \in 0 .. MaxRetries
  <2>1. 0 \in 0 .. MaxRetries
    BY WorkerPoolAssumption
  <2>2. CASE Len(pool.queue) >= MaxQueueSize
    <3>1. pool.phase \in [Jobs -> Phase] /\ pool \in PoolRecord
      BY DEF IInv, PoolOK, PoolRecord
    <3>2. Moves(j)
      BY <1>2, <2>2, <3>1 DEF Run, Moves, OthersStay, InCall, PoolRecord
    <3> QED
      BY <1>2, <2>1, <2>2, <3>2, ExhaustedStep
  <2>3. CASE ~ (Len(pool.queue) >= MaxQueueSize)
    <3>1. pool.phase[j] = "new" /\ RunWithRetry(j, 0) /\ Len(pool.queue) < MaxQueueSize
      <4>1. Len(pool.queue) \in Nat /\ MaxQueueSize \in Nat
        BY WorkerPoolAssumption DEF IInv, PoolOK, PoolRecord
      <4> QED
        BY <1>2, <2>3, <4>1 DEF Run
    <3> QED
      BY <2>1, <3>1, RunWithRetryStep DEF Called
  <2> QED
    BY <2>2, <2>3
<1>3. ASSUME NEW j \in Jobs, BackoffFires(j)
      PROVE  IInv' /\ \E a \in 0 .. MaxRetries : Called(j, a)
  <2>1. attempt[j] + 1 \in 0 .. MaxRetries
    BY <1>3, WorkerPoolAssumption DEF BackoffFires, IInv, TypeOK, BackoffLeft
  <2>2. pool.phase[j] = "backoff" /\ RunWithRetry(j, attempt[j] + 1)
    BY <1>3 DEF BackoffFires
  <2> QED
    BY <2>1, <2>2, RunWithRetryStep DEF Called
<1>4. ASSUME NEW j \in Jobs, WorkerMessage(j) PROVE IInv' /\ Ended(j)
  <2>1. pool.phase[j] \in Running /\ "ok" \in Settled
    BY <1>4 DEF WorkerMessage, Running, Settled
  <2> QED
    BY <1>4, <2>1, SettledStep DEF WorkerMessage, Ended
<1>5. ASSUME NEW j \in Jobs, WorkerLost(j) PROVE IInv' /\ Ended(j)
  <2>1. /\ FailsTo(Release(Caught(pool, j)), pool', j, attempt[j])
        /\ pool.phase[j] \in {"worker", "attempt"}
        /\ late' \subseteq late \cup {Try(j)}
    BY <1>5 DEF WorkerLost, FailsTo, Settled
  <2> QED
    BY <1>5, <2>1, ReleasedStep DEF WorkerLost, Ended
<1>6. ASSUME NEW j \in Jobs, WorkerSilentExit(j) PROVE IInv' /\ Moves(j)
  <2>1. pool.phase \in [Jobs -> Phase] /\ pool \in PoolRecord
    BY DEF IInv, PoolOK, PoolRecord
  <2>2. Moves(j)
    BY <1>6, <2>1 DEF WorkerSilentExit, Moves, OthersStay, InCall, PoolRecord
  <2> QED
    BY <1>6, <2>2, WorkerSilentExitStep
<1>7. ASSUME NEW j \in Jobs, SpawnFails(j) PROVE IInv' /\ Ended(j)
  BY <1>7, SpawnFailsStep DEF SpawnFails, Ended
<1>8. ASSUME NEW j \in Jobs, AttemptEnds(j) PROVE IInv' /\ Ended(j)
  <2>1. CASE pool' = Release([pool EXCEPT !.phase[j] = "ok"]) /\ Succeed(j)
    <3>1. pool.phase[j] \in Running /\ "ok" \in Settled
      BY <1>8 DEF AttemptEnds, Running, Settled
    <3> QED
      BY <1>8, <2>1, <3>1, SettledStep DEF AttemptEnds, Ended
  <2>2. CASE ~ (pool' = Release([pool EXCEPT !.phase[j] = "ok"]) /\ Succeed(j))
    <3>1. /\ pool' = AfterFailure(Release(Caught(pool, j)), j, attempt[j],
                                  pool.mode = "isolated", "job_error")
          /\ Fail(j) /\ pool.phase[j] \in {"worker", "attempt"}
      BY <1>8, <2>2 DEF AttemptEnds
    <3>2. FailsTo(Release(Caught(pool, j)), pool', j, attempt[j])
      BY <3>1 DEF FailsTo, AfterFailure, Settled
    <3> QED
      BY <1>8, <3>1, <3>2, ReleasedStep DEF AttemptEnds, Ended
  <2> QED
    BY <2>1, <2>2
<1>9. ASSUME NEW j \in Jobs, FallbackEnds(j) PROVE IInv' /\ Moves(j)
  <2>1. PICK x \in {"ok", "worker_failed"} :
          pool' = Release([pool EXCEPT !.phase[j] = x])
    BY <1>9 DEF FallbackEnds
  <2>2. /\ x \in Settled /\ pool.phase[j] \in Running
        /\ pool.phase[j] = "fallback" /\ UNCHANGED <<cb, tries>>
    BY <1>9 DEF FallbackEnds, Settled, Running
  <2>3. IInv' /\ Leaves(j)
    BY <1>9, <2>1, <2>2, SettledStep DEF FallbackEnds
  <2>4. Moves(j)
    BY <1>9, <2>2, <2>3 DEF FallbackEnds, Leaves, Moves, InCall, Settled
  <2> QED
    BY <2>3, <2>4
<1>10. ASSUME NEW t \in late, LateEvent(t) PROVE IInv' /\ Still
  BY <1>10 DEF LateEvent, Still, IInv, TypeOK, PoolOK, PoolRecord, QueueOK, Conserving,
     LostIsOver, BackoffLeft, ProbesAreHeld, Count
<1>11. CASE UNCHANGED vars
  BY <1>11 DEF vars, Still, IInv, TypeOK, PoolOK, PoolRecord, QueueOK, Conserving,
     LostIsOver, BackoffLeft, ProbesAreHeld, Count
<1> QED
  BY <1>1, <1>2, <1>3, <1>4, <1>5, <1>6, <1>7, <1>8, <1>9, <1>10, <1>11 DEF Next, Ends

(* IInv holds in every reachable state.                                    *)
THEOREM Inductive == Spec => []IInv
<1>1. IInv /\ [Next]_vars => IInv'
  BY NextCases
<1> QED
  BY <1>1, InitIInv, PTL DEF Spec

(* Every reachable pool is well typed.                                     *)
THEOREM TypeCorrect == Spec => []TypeOK
<1>1. IInv => TypeOK
  BY DEF IInv
<1> QED
  BY <1>1, Inductive, PTL

(* Each slot taken belongs to one execution or to one attempt that leaked  *)
(* it: nothing is given back twice (lines 227-289 of worker.ts).           *)
THEOREM SlotAccountingHolds == Spec => []SlotAccounting
<1>1. IInv => SlotAccounting
  BY DEF IInv, PoolOK, SlotAccounting, Executing, Count, Running
<1> QED
  BY <1>1, Inductive, PTL

(* No slot stays free while a job waits.                                   *)
THEOREM WorkConservingHolds == Spec => []WorkConserving
<1>1. IInv => WorkConserving
  BY DEF IInv, Conserving, WorkConserving
<1> QED
  BY <1>1, Inductive, PTL

(* At most Size worker threads run at a time.                              *)
THEOREM ThreadsBoundedHolds == Spec => []ThreadsBounded
<1>1. IInv => ThreadsBounded
  <2>1. {j \in Jobs : pool.phase[j] \in {"worker"}} = {j \in Jobs : pool.phase[j] = "worker"}
    OBVIOUS
  <2> QED
    BY <2>1 DEF IInv, PoolOK, ThreadsBounded, Count
<1> QED
  BY <1>1, Inductive, PTL

(* The queue holds each waiting job once, and no other.                    *)
THEOREM QueueHoldsWaitingHolds == Spec => []QueueHoldsWaiting
<1>1. IInv => QueueHoldsWaiting
  BY DEF IInv, PoolOK, QueueOK, QueueHoldsWaiting
<1> QED
  BY <1>1, Inductive, PTL

(* Every probe of a HALF_OPEN circuit is held by a job in the call.        *)
THEOREM ProbesAreHeldHolds == Spec => []ProbesAreHeld
<1>1. IInv => ProbesAreHeld
  BY DEF IInv
<1> QED
  BY <1>1, Inductive, PTL

(* Slots, threads and probes are each held by a job, or are lost, for any  *)
(* number of jobs, threads and retries.                                    *)
THEOREM HoldingsAccountedHolds == Spec => []HoldingsAccounted
BY SlotAccountingHolds, ThreadsBoundedHolds, ProbesAreHeldHolds, PTL DEF HoldingsAccounted

(* Exactly the waiting jobs are queued, and only while all slots are taken.*)
THEOREM QueueServedHolds == Spec => []QueueServed
BY QueueHoldsWaitingHolds, WorkConservingHolds, PTL DEF QueueServed

(***************************************************************************)
(* The history of the calls to the breaker: the attempt of a job that      *)
(* waits or runs is under way, and none is made before its turn.           *)
(***************************************************************************)

TriesKept ==
  /\ \A j \in Jobs : pool.phase[j] \in InCall => tries[Try(j)] = "running"
  /\ \A t \in Tries :
       pool.phase[t[1]] = "new" \/ t[2] > attempt[t[1]] => tries[t] = "idle"

(* One job moves, to attempt a; what its other attempts came to stays.     *)
LEMMA TriesStep ==
  ASSUME IInv, IInv', TriesKept, NEW j \in Jobs, NEW a \in 0 .. MaxRetries,
         OthersStay(pool, pool', j), pool'.phase[j] # "new",
         attempt' = [attempt EXCEPT ![j] = a],
         \A t \in Tries : t # <<j, a>> => tries'[t] = tries[t],
         pool'.phase[j] \in InCall => tries'[<<j, a>>] = "running",
         pool.phase[j] = "new" \/ attempt[j] <= a
  PROVE  TriesKept'
<1>1. /\ attempt \in [Jobs -> 0 .. MaxRetries]
      /\ \A k \in Jobs : attempt'[k] = IF k = j THEN a ELSE attempt[k]
      /\ \A t \in Tries : t = <<t[1], t[2]>> /\ t[1] \in Jobs /\ t[2] \in 0 .. MaxRetries
  BY DEF IInv, TypeOK, Tries
<1>2. ASSUME NEW k \in Jobs, pool'.phase[k] \in InCall
      PROVE  tries'[<<k, attempt'[k]>>] = "running"
  <2>1. CASE k = j
    BY <1>1, <1>2, <2>1
  <2>2. CASE k # j
    <3>1. pool.phase[k] \in InCall
      BY <1>2, <2>2 DEF OthersStay, InCall
    <3>2. <<k, attempt[k]>> \in Tries /\ <<k, attempt[k]>> # <<j, a>>
      BY <1>1, <2>2 DEF Tries
    <3> QED
      BY <1>1, <2>2, <3>1, <3>2 DEF TriesKept, Try
  <2> QED
    BY <2>1, <2>2
<1>3. ASSUME NEW t \in Tries, pool'.phase[t[1]] = "new" \/ t[2] > attempt'[t[1]]
      PROVE  tries'[t] = "idle"
  <2>1. CASE t[1] = j
    <3>1. t[2] > a /\ t # <<j, a>>
      BY <1>1, <1>3, <2>1
    <3>2. pool.phase[j] = "new" \/ t[2] > attempt[j]
      BY <1>1, <3>1
    <3> QED
      BY <2>1, <3>1, <3>2 DEF TriesKept
  <2>2. CASE t[1] # j
    <3>1. t # <<j, a>>
      BY <2>2
    <3>2. pool.phase[t[1]] = "new" \/ t[2] > attempt[t[1]]
      BY <1>1, <1>3, <2>2 DEF OthersStay
    <3> QED
      BY <3>1, <3>2 DEF TriesKept
  <2> QED
    BY <2>1, <2>2
<1> QED
  BY <1>2, <1>3 DEF TriesKept, Try

(* The jobs that wait for their first attempt.                             *)
FirstWaiting == {j \in Jobs : pool.phase[j] = "queued" /\ attempt[j] = 0}

(* They are in the queue, each at one place.                               *)
LEMMA FirstWaitingQueued ==
  ASSUME IInv
  PROVE  /\ IsFiniteSet(FirstWaiting)
         /\ Cardinality(FirstWaiting) <= Len(pool.queue)
         /\ Cardinality({i \in DOMAIN pool.queue : attempt[pool.queue[i]] = 0})
              = Cardinality(FirstWaiting)
<1> DEFINE I == {i \in DOMAIN pool.queue : attempt[pool.queue[i]] = 0}
           f == [i \in I |-> pool.queue[i]]
<1>1. /\ pool.queue \in Seq(Jobs) /\ DOMAIN pool.queue = 1 .. Len(pool.queue)
      /\ Len(pool.queue) \in Nat /\ QueueOK(pool)
  BY DEF IInv, PoolOK, PoolRecord
<1>2. IsFiniteSet(I) /\ Cardinality(I) <= Len(pool.queue)
  <2>1. I \in SUBSET (1 .. Len(pool.queue))
    BY <1>1
  <2>2. /\ IsFiniteSet(1 .. Len(pool.queue))
        /\ Cardinality(1 .. Len(pool.queue)) = Len(pool.queue)
    BY <1>1, FS_Interval
  <2> HIDE DEF I
  <2> QED
    BY <2>1, <2>2, FS_Subset
<1>3. \A i \in I : pool.queue[i] \in FirstWaiting
  BY <1>1 DEF QueueOK, FirstWaiting
<1>4. \A k \in FirstWaiting : \E i \in I : pool.queue[i] = k
  BY <1>1 DEF QueueOK, FirstWaiting
<1>5. \A i, k \in I : pool.queue[i] = pool.queue[k] => i = k
  BY <1>1 DEF QueueOK
<1>6. f \in Surjection(I, FirstWaiting) /\ f \in Injection(I, FirstWaiting)
  BY <1>3, <1>4, <1>5 DEF Surjection, Injection, IsInjective
<1>7. IsFiniteSet(FirstWaiting) /\ Cardinality(FirstWaiting) = Cardinality(I)
  <2> HIDE DEF I, f
  <2> QED
    BY <1>2, <1>6, FS_Surjection
<1> QED
  BY <1>2, <1>7

(* With the history, and as many first attempts in the queue as may be.    *)
CallsInv ==
  /\ IInv
  /\ TriesKept
  /\ Cardinality(FirstWaiting) <= MaxQueueSize

(* A step that sends nobody to wait for a first attempt.                   *)
LEMMA FewerWait ==
  ASSUME CallsInv, IInv', FirstWaiting' \subseteq FirstWaiting
  PROVE  Cardinality(FirstWaiting') <= MaxQueueSize
<1>1. IsFiniteSet(FirstWaiting) /\ Cardinality(FirstWaiting) <= MaxQueueSize
  BY FirstWaitingQueued DEF CallsInv
<1>2. /\ IsFiniteSet(FirstWaiting')
      /\ Cardinality(FirstWaiting') <= Cardinality(FirstWaiting)
  BY <1>1, FS_Subset
<1>3. Cardinality(FirstWaiting) \in Nat /\ Cardinality(FirstWaiting') \in Nat
  BY <1>1, <1>2, FS_CardinalityType
<1> QED
  BY <1>1, <1>2, <1>3, WorkerPoolAssumption

(* A first attempt is called while the queue has room; a retry is no first *)
(* attempt, however many of them wait.                                     *)
LEMMA CalledStep ==
  ASSUME CallsInv, IInv', NEW j \in Jobs, NEW a \in 0 .. MaxRetries, Called(j, a)
  PROVE  CallsInv'
<1>1. /\ attempt \in [Jobs -> 0 .. MaxRetries] /\ <<j, a>> \in Tries
      /\ tries \in [Tries -> {"idle", "running", "ok", "failed", "refused"}]
      /\ IInv /\ TriesKept
  BY DEF CallsInv, IInv, TypeOK, Tries
<1>2. /\ attempt' = [attempt EXCEPT ![j] = a]
      /\ tries' = [tries EXCEPT ![<<j, a>>] =
                     IF Admits(GetState(cb, now)) THEN "running" ELSE "refused"]
      /\ OthersStay(pool, pool', j) /\ pool'.phase[j] # "new"
      /\ pool'.phase[j] \in InCall <=> Admits(GetState(cb, now))
  BY DEF Called, RunWithRetry, Calls
<1>3. TriesKept'
  <2>1. pool.phase[j] = "new" \/ attempt[j] <= a
    BY <1>1 DEF Called
  <2>2. /\ \A t \in Tries : t # <<j, a>> => tries'[t] = tries[t]
        /\ pool'.phase[j] \in InCall => tries'[<<j, a>>] = "running"
    BY <1>1, <1>2
  <2> QED
    BY <1>1, <1>2, <2>1, <2>2, TriesStep
<1>4. \A k \in Jobs \ {j} : k \in FirstWaiting' => k \in FirstWaiting
  BY <1>1, <1>2 DEF FirstWaiting, OthersStay
<1>5. Cardinality(FirstWaiting') <= MaxQueueSize
  <2>1. CASE j \in FirstWaiting'
    <3>1. attempt[j] \in Nat /\ a = 0
      BY <1>1, <1>2, <2>1 DEF FirstWaiting
    <3>2. Len(pool.queue) < MaxQueueSize
      BY <3>1 DEF Called
    <3>3. /\ IsFiniteSet(FirstWaiting) /\ Len(pool.queue) \in Nat
          /\ Cardinality(FirstWaiting) <= Len(pool.queue)
      BY <1>1, FirstWaitingQueued DEF IInv, PoolOK, PoolRecord
    <3>4. FirstWaiting' \subseteq FirstWaiting \cup {j}
      BY <1>4 DEF FirstWaiting
    <3>5. /\ IsFiniteSet(FirstWaiting \cup {j})
          /\ Cardinality(FirstWaiting \cup {j}) <= Cardinality(FirstWaiting) + 1
          /\ Cardinality(FirstWaiting) \in Nat
      <4>1. Cardinality(FirstWaiting) \in Nat
        BY <3>3, FS_CardinalityType
      <4>2. /\ IsFiniteSet(FirstWaiting \cup {j})
            /\ \/ Cardinality(FirstWaiting \cup {j}) = Cardinality(FirstWaiting)
               \/ Cardinality(FirstWaiting \cup {j}) = Cardinality(FirstWaiting) + 1
        BY <3>3, FS_AddElement
      <4> QED
        BY <4>1, <4>2
    <3>6. Cardinality(FirstWaiting') <= Cardinality(FirstWaiting \cup {j})
      BY <3>4, <3>5, FS_Subset
    <3>7. IsFiniteSet(FirstWaiting') /\ Cardinality(FirstWaiting') \in Nat
          /\ Cardinality(FirstWaiting \cup {j}) \in Nat
      BY <3>4, <3>5, FS_Subset, FS_CardinalityType
    <3> QED
      BY <3>2, <3>3, <3>5, <3>6, <3>7, WorkerPoolAssumption
  <2>2. CASE j \notin FirstWaiting'
    <3>1. FirstWaiting' \subseteq FirstWaiting
      BY <1>4, <2>2 DEF FirstWaiting
    <3> QED
      BY <3>1, FewerWait
  <2> QED
    BY <2>1, <2>2
<1> QED
  BY <1>3, <1>5 DEF CallsInv

(* Nobody is called: job j leaves the breaker, or moves outside it.        *)
LEMMA UncalledStep ==
  ASSUME CallsInv, IInv', NEW j \in Jobs, Ended(j) \/ Moves(j)
  PROVE  CallsInv'
<1>1. /\ attempt \in [Jobs -> 0 .. MaxRetries] /\ Try(j) \in Tries
      /\ tries \in [Tries -> {"idle", "running", "ok", "failed", "refused"}]
      /\ IInv /\ TriesKept /\ attempt[j] \in 0 .. MaxRetries
  BY DEF CallsInv, IInv, TypeOK, Tries, Try
<1>2. /\ attempt' = attempt /\ attempt' = [attempt EXCEPT ![j] = attempt[j]]
      /\ attempt[j] <= attempt[j]
  BY <1>1 DEF Ended, Moves
<1>3. OthersStay(pool, pool', j) /\ pool'.phase[j] \notin {"new", "queued"}
  BY DEF Ended, Leaves, Moves, Settled
<1>4. \A t \in Tries : t # <<j, attempt[j]>> => tries'[t] = tries[t]
  BY <1>1 DEF Ended, Moves, Succeed, Fail, Try
<1>5. pool'.phase[j] \in InCall => tries'[<<j, attempt[j]>>] = "running"
  BY <1>1 DEF Ended, Leaves, Moves, Settled, InCall, TriesKept, Try
<1>6. TriesKept'
  BY <1>1, <1>2, <1>3, <1>4, <1>5, TriesStep
<1>7. FirstWaiting' \subseteq FirstWaiting
  BY <1>2, <1>3 DEF FirstWaiting, OthersStay
<1> QED
  BY <1>6, <1>7, FewerWait DEF CallsInv

(* CallsInv holds in every reachable state.                                *)
THEOREM CallsInductive == Spec => []CallsInv
<1>1. Init => CallsInv
  <2> SUFFICES ASSUME Init PROVE CallsInv
    OBVIOUS
  <2>1. IInv /\ \A j \in Jobs : pool.phase[j] = "new"
    BY InitIInv DEF Init
  <2>2. FirstWaiting = {} /\ Cardinality(FirstWaiting) = 0
    BY <2>1, FS_EmptySet DEF FirstWaiting
  <2>3. TriesKept
    BY <2>1 DEF Init, TriesKept, InCall
  <2> QED
    BY <2>1, <2>2, <2>3, WorkerPoolAssumption DEF CallsInv
<1>2. CallsInv /\ [Next]_vars => CallsInv'
  <2> SUFFICES ASSUME CallsInv, [Next]_vars PROVE CallsInv'
    OBVIOUS
  <2>1. /\ IInv'
        /\ \/ \E j \in Jobs, a \in 0 .. MaxRetries : Called(j, a)
           \/ \E j \in Jobs : Ended(j) \/ Moves(j)
           \/ Still
    BY NextCases DEF CallsInv
  <2>2. CASE Still
    BY <2>1, <2>2 DEF Still, CallsInv, TriesKept, FirstWaiting, Try
  <2> QED
    BY <2>1, <2>2, CalledStep, UncalledStep
<1> QED
  BY <1>1, <1>2, PTL DEF Spec

(* However many retries overfill the queue, at most MaxQueueSize of its    *)
(* jobs have not been attempted before (run() looks, executeJob does not). *)
THEOREM FirstAttemptsBoundedHolds == Spec => []FirstAttemptsBounded
<1>1. CallsInv => FirstAttemptsBounded
  BY FirstWaitingQueued DEF CallsInv, FirstAttemptsBounded
<1> QED
  BY <1>1, CallsInductive, PTL

(***************************************************************************)
(* Refinement: each attempt is a call of BreakerContract.                  *)
(***************************************************************************)

(* What the pool's breaker does to its gate, in the words of the contract. *)
LEMMA GateSteps ==
  /\ SameGate(cb, cb') => Contract!Hold
  /\ Passing(cb') => Contract!Pass
  /\ Blocking(cb', now) => Contract!Block
  /\ \A left : Probing(cb', left) => Contract!Probe(left)
  /\ WaitOver(cb, now) => Contract!Waited
BY DEF SameGate, Passing, Blocking, Probing, WaitOver, Contract!Hold, Contract!Pass,
   Contract!Block, Contract!Probe, Contract!Waited

(* An attempt is a call not made before: it starts or is refused.          *)
LEMMA CalledRefines ==
  ASSUME CallsInv, NEW j \in Jobs, NEW a \in 0 .. MaxRetries, Called(j, a)
  PROVE  Contract!Start(<<j, a>>) \/ Contract!Refuse(<<j, a>>)
<1>1. /\ cb \in BreakerRecord /\ now \in Nat /\ now' = now /\ <<j, a>> \in Tries
      /\ attempt \in [Jobs -> 0 .. MaxRetries]
  BY DEF CallsInv, IInv, TypeOK, Called, RunWithRetry, Tries
<1>2. tries[<<j, a>>] = "idle"
  <2>1. pool.phase[j] = "new" \/ a > attempt[j]
    BY <1>1 DEF Called
  <2> QED
    BY <1>1, <2>1 DEF CallsInv, TriesKept
<1>3. CASE Admits(GetState(cb, now))
  <2>1. /\ cb' = Admit(GetState(cb, now))
        /\ tries' = [tries EXCEPT ![<<j, a>>] = "running"]
    BY <1>3 DEF Called, RunWithRetry
  <2>2. \/ GateMode(cb) = "passing" /\ Contract!Hold
        \/ /\ GateMode(cb) = "probing" /\ GateQuota(cb) > 0
           /\ Contract!Probe(GateQuota(cb) - 1)
        \/ /\ Contract!Waited /\ HalfOpenMaxRequests > 0
           /\ Contract!Probe(HalfOpenMaxRequests - 1)
    BY <1>1, <1>3, <2>1, AdmitGate, GateSteps
  <2> QED
    BY <1>1, <1>2, <2>1, <2>2 DEF Contract!Start
<1>4. CASE ~ Admits(GetState(cb, now))
  <2>1. cb' = GetState(cb, now) /\ tries' = [tries EXCEPT ![<<j, a>>] = "refused"]
    BY <1>4 DEF Called, RunWithRetry
  <2>2. Contract!Hold \/ (Contract!Waited /\ Contract!Probe(HalfOpenMaxRequests))
    BY <1>1, <2>1, GetStateGate, GateSteps
  <2>3. GateMode(cb) # "passing"
    BY <1>1, <1>4, RefuseGate
  <2> QED
    BY <1>1, <1>2, <2>1, <2>2, <2>3 DEF Contract!Refuse
<1> QED
  BY <1>3, <1>4

(* The end of an attempt, timed out, failed or answered, settles its call. *)
LEMMA EndedRefines ==
  ASSUME CallsInv, NEW j \in Jobs, Ended(j)
  PROVE  Contract!Settle(Try(j))
<1>1. /\ cb \in BreakerRecord /\ now \in Nat /\ now' = now
      /\ GateMode(cb) \in {"passing", "probing", "blocking"}
  BY DEF CallsInv, IInv, TypeOK, Ended, GateMode
<1>2. tries[Try(j)] = "running"
  BY DEF CallsInv, TriesKept, Ended, InCall
<1> DEFINE effect ==
             \/ GateMode(cb) = "passing" /\ (Contract!Hold \/ Contract!Block)
             \/ GateMode(cb) = "probing" /\ (Contract!Pass \/ Contract!Block)
             \/ GateMode(cb) = "blocking" /\ Contract!Hold
<1>3. ASSUME Succeed(j) PROVE effect
  <2>1. IF GateMode(cb) = "probing" THEN Passing(cb') ELSE SameGate(cb, cb')
    BY <1>1, <1>3, OnSuccessGate DEF Succeed
  <2> QED
    BY <1>1, <2>1, GateSteps
<1>4. ASSUME Fail(j) PROVE effect
  <2>1. /\ GateMode(cb) = "probing" => Blocking(cb', now)
        /\ GateMode(cb) = "passing" => SameGate(cb, cb') \/ Blocking(cb', now)
        /\ GateMode(cb) = "blocking" => SameGate(cb, cb')
    BY <1>1, <1>4, OnFailureGate DEF Fail
  <2> QED
    BY <1>1, <2>1, GateSteps
<1>5. \E result \in {"ok", "failed"} : tries' = [tries EXCEPT ![Try(j)] = result]
  BY DEF Ended, Succeed, Fail
<1>6. effect
  BY <1>3, <1>4 DEF Ended
<1> QED
  BY <1>1, <1>2, <1>5, <1>6 DEF Contract!Settle

(* The pool drives its breaker as the contract allows: every attempt       *)
(* starts and settles at most once, the time it is queued included.        *)
THEOREM PoolUsesBreaker == Spec => UsesBreaker
<1>1. Init => Contract!Init
  BY DEF Init, ResetBreaker, Contract!Init, GateMode, GateUntil, GateQuota
<1>2. CallsInv /\ [Next]_vars => [Contract!Next]_(Contract!vars)
  <2> SUFFICES ASSUME CallsInv, [Next]_vars
               PROVE  Contract!Next \/ UNCHANGED <<tries, now, GateMode(cb), GateUntil(cb), GateQuota(cb)>>
    BY DEF Contract!vars
  <2>1. \/ \E j \in Jobs, a \in 0 .. MaxRetries : Called(j, a)
        \/ \E j \in Jobs : Ended(j) \/ Moves(j)
        \/ Still
    BY NextCases DEF CallsInv
  <2>2. ASSUME NEW j \in Jobs, NEW a \in 0 .. MaxRetries, Called(j, a)
        PROVE  Contract!Next
    <3>1. <<j, a>> \in Tries
      BY DEF Tries
    <3> QED
      BY <2>2, <3>1, CalledRefines DEF Contract!Next
  <2>3. ASSUME NEW j \in Jobs, Ended(j) PROVE Contract!Next
    <3>1. Try(j) \in Tries
      BY DEF CallsInv, IInv, TypeOK, Try, Tries
    <3> QED
      BY <2>3, <3>1, EndedRefines DEF Contract!Next
  <2>4. ASSUME NEW j \in Jobs, Moves(j)
        PROVE  UNCHANGED <<tries, now, GateMode(cb), GateUntil(cb), GateQuota(cb)>>
    BY <2>4 DEF Moves
  <2>5. ASSUME Still, now' > now PROVE Contract!Next
    BY <2>5 DEF Still, Contract!Next, Contract!Tick
  <2>6. ASSUME Still, now' = now
        PROVE  UNCHANGED <<tries, now, GateMode(cb), GateUntil(cb), GateQuota(cb)>>
    BY <2>6 DEF Still
  <2> QED
    BY <2>1, <2>2, <2>3, <2>4, <2>5, <2>6 DEF Still
<1> QED
  BY <1>1, <1>2, CallsInductive, PTL DEF Spec, UsesBreaker, Contract!Spec

===============================================================================
