------------------------------ MODULE WorkerPool ------------------------------
(***************************************************************************)
(* WorkerPool: jobs run on at most Size worker threads, wait in a queue,   *)
(* are retried after a backoff and finally run inline; every attempt is a  *)
(* call through the pool's circuit breaker.                                *)
(*                                                                         *)
(* JavaScript runs one callback at a time and finishes the promise chain   *)
(* it wakes before the next timer or worker event.  A step that waits on   *)
(* nothing but promises (Micro) therefore excludes those events, but not   *)
(* the caller, whose code may call run() from such a chain.  A checkpoint  *)
(* job for an AWS vault waits for the network when it runs inline: anything *)
(* happens meanwhile, and no timer of the pool ends the wait.              *)
(***************************************************************************)
EXTENDS Breaker, FiniteSets, Sequences

CONSTANTS
  Jobs,
  Size,           (* worker threads                                         *)
  MaxRetries,
  MaxQueueSize,
  Modes,          (* how jobs may be run: "threads"; "inline" when there is *)
                  (* no worker script; "isolated" for isolated-vm           *)
  RemoteJobs,     (* jobs of type 'checkpoint' whose vault is AWS           *)
  SilentJobs,     (* jobs of type 'prune': the worker posts no message      *)
  Unspawnable,    (* jobs whose data cannot be cloned, or any job when      *)
                  (* isolated-vm is missing: the executor's constructor throws *)
  MaxTime         (* bound on the clock                                     *)

ASSUME WorkerPoolAssumption ==
  /\ IsFiniteSet(Jobs)
  /\ Size \in Nat \ {0}
  /\ MaxRetries \in Nat
  /\ MaxQueueSize \in Nat
  /\ Modes \subseteq {"threads", "inline", "isolated"}
  /\ RemoteJobs \subseteq Jobs
  /\ SilentJobs \subseteq Jobs
  /\ Unspawnable \subseteq Jobs
  /\ MaxTime \in Nat

VARIABLES
  cb,       (* the pool's circuit breaker                                   *)
  now,      (* Date.now()                                                   *)
  pool,     (* [mode, phase, queue, active]: see TypeOK                     *)
  attempt,  (* the attempt number of each job                               *)
  late,     (* settled workers that may still emit an event                 *)
  tries,    (* history: what became of each attempt's call to the breaker   *)
  lost      (* history: attempts whose slot no handler will give back       *)

vars == <<cb, now, pool, attempt, late, tries, lost>>

InCall  == {"queued", "worker", "unspawned", "attempt", "stuck"}
Settled == {"ok", "exhausted", "circuit_open", "job_error", "worker_failed"}
Phase   == {"new", "caught", "backoff", "fallback"} \cup InCall \cup Settled
Tries   == Jobs \X (0 .. MaxRetries)

Init ==
  /\ cb = ResetBreaker
  /\ now = 0
  /\ \E mode \in Modes :
       pool = [mode |-> mode, phase |-> [j \in Jobs |-> "new"],
               queue |-> <<>>, active |-> 0]
  /\ attempt = [j \in Jobs |-> 0]
  /\ late = {}
  /\ tries = [t \in Tries |-> "idle"]
  /\ lost = {}

-------------------------------------------------------------------------------
(* The methods, as functions of the pool's fields.                         *)

(* spawnAndRun takes the slot before it constructs the Worker.             *)
Spawn(p, j) ==
  [p EXCEPT !.active = @ + 1,
            !.phase[j] = IF j \in Unspawnable THEN "unspawned" ELSE "worker"]

ProcessQueue_Peek(p) ==
  IF p.queue # <<>> /\ p.active < Size THEN Spawn(p, Head(p.queue)) ELSE p

ProcessQueue(p) ==
  IF p.queue # <<>> /\ p.active < Size
    THEN Spawn([p EXCEPT !.queue = Tail(@)], Head(p.queue))
    ELSE p

(* Every handler that gives a slot back looks at the queue.                *)
Release_Unqueued(p) == [p EXCEPT !.active = @ - 1]

Release(p) == ProcessQueue([p EXCEPT !.active = @ - 1])

ExecuteJob(p, j) ==
  IF p.mode = "threads"
    THEN IF p.active < Size
           THEN Spawn(p, j)
           ELSE [p EXCEPT !.queue = Append(@, j), !.phase[j] = "queued"]
  ELSE IF p.mode = "isolated" /\ j \in Unspawnable
    THEN Spawn(p, j)
  ELSE [p EXCEPT !.active = @ + 1, !.phase[j] = "attempt"]

RunInline(p, j) == [p EXCEPT !.active = @ + 1, !.phase[j] = "fallback"]

(* The promise of job j's attempt is rejected, within the step.            *)
Caught(p, j) == [p EXCEPT !.phase[j] = "caught"]

(* The catch block of runWithRetry for attempt a of job j.                 *)
AfterFailure(p, j, a, retryable, error) ==
  IF retryable /\ a < MaxRetries
    THEN [p EXCEPT !.phase[j] = "backoff"]
  ELSE IF p.mode = "threads" /\ a >= MaxRetries
    THEN RunInline(p, j)
  ELSE [p EXCEPT !.phase[j] = error]

-------------------------------------------------------------------------------
(* The actions.                                                            *)

(* Job j runs inline and waits for its vault, which answers when it does:  *)
(* worker.ts arms a timeout for threads only.  The isolated scan is        *)
(* synchronous.                                                            *)
AwaitsVault(j) ==
  j \in RemoteJobs /\ pool.mode # "isolated" /\ pool.phase[j] \in {"attempt", "fallback"}

Micro ==
  \E j \in Jobs :
    pool.phase[j] \in {"unspawned", "attempt", "fallback"} /\ ~ AwaitsVault(j)

Try(j) == <<j, attempt[j]>>

(* runWithRetry(job, a): one call through the breaker.                     *)
RunWithRetry(j, a) ==
  LET g == GetState(cb, now) IN
  /\ attempt' = [attempt EXCEPT ![j] = a]
  /\ IF Admits(g)
       THEN /\ cb' = Admit(g)
            /\ pool' = ExecuteJob(pool, j)
            /\ tries' = [tries EXCEPT ![<<j, a>>] = "running"]
       ELSE /\ cb' = g
            /\ pool' = AfterFailure(pool, j, a, FALSE, "circuit_open")
            /\ tries' = [tries EXCEPT ![<<j, a>>] = "refused"]
  /\ UNCHANGED <<now, late, lost>>

(* Plausible bug: the queue is full only when it is longer than allowed.   *)
Run_OneOver(j) ==
  /\ pool.phase[j] = "new"
  /\ IF Len(pool.queue) > MaxQueueSize
       THEN /\ pool' = [pool EXCEPT !.phase[j] = "exhausted"]
            /\ UNCHANGED <<cb, now, attempt, late, tries, lost>>
       ELSE RunWithRetry(j, 0)

Run(j) ==
  /\ pool.phase[j] = "new"
  /\ IF Len(pool.queue) >= MaxQueueSize
       THEN /\ pool' = [pool EXCEPT !.phase[j] = "exhausted"]
            /\ UNCHANGED <<cb, now, attempt, late, tries, lost>>
       ELSE RunWithRetry(j, 0)

BackoffFires(j) ==
  /\ ~ Micro
  /\ pool.phase[j] = "backoff"
  /\ RunWithRetry(j, attempt[j] + 1)

Succeed(j) ==
  /\ cb' = OnSuccess(cb)
  /\ tries' = [tries EXCEPT ![Try(j)] = "ok"]

Fail(j) ==
  /\ cb' = OnFailure(cb, now)
  /\ tries' = [tries EXCEPT ![Try(j)] = "failed"]

(* The worker posts its result; its exit is still to come.                 *)
WorkerMessage(j) ==
  /\ ~ Micro
  /\ pool.phase[j] = "worker" /\ j \notin SilentJobs
  /\ pool' = Release([pool EXCEPT !.phase[j] = "ok"])
  /\ Succeed(j)
  /\ late' = late \cup {Try(j)}
  /\ UNCHANGED <<now, attempt, lost>>

(* Timeout, 'error' or a non-zero exit; only the last is not followed by   *)
(* another event.                                                          *)
WorkerLost(j) ==
  /\ ~ Micro
  /\ pool.phase[j] = "worker"
  /\ pool' = AfterFailure(Release(Caught(pool, j)), j, attempt[j], TRUE, "job_error")
  /\ Fail(j)
  /\ late' \in {late, late \cup {Try(j)}}
  /\ UNCHANGED <<now, attempt, lost>>

(* Exit code 0 without a message: the handler clears the timeout, marks    *)
(* the worker terminated and does nothing else.                            *)
WorkerSilentExit(j) ==
  /\ ~ Micro
  /\ pool.phase[j] = "worker" /\ j \in SilentJobs
  /\ pool' = [pool EXCEPT !.phase[j] = "stuck"]
  /\ lost' = lost \cup {Try(j)}
  /\ UNCHANGED <<cb, now, attempt, late, tries>>

(* An event of a worker already settled: every handler returns at once.    *)
LateEvent_Unguarded(t) ==
  /\ ~ Micro
  /\ t \in late
  /\ late' = late \ {t}
  /\ pool' = Release(pool)
  /\ UNCHANGED <<cb, now, attempt, tries, lost>>

LateEvent(t) ==
  /\ ~ Micro
  /\ t \in late
  /\ late' = late \ {t}
  /\ UNCHANGED <<cb, now, pool, attempt, tries, lost>>

(* The constructor threw after the slot was taken: not a WorkerError.      *)
SpawnFails(j) ==
  /\ pool.phase[j] = "unspawned"
  /\ pool' = AfterFailure(Caught(pool, j), j, attempt[j], FALSE, "job_error")
  /\ Fail(j)
  /\ lost' = lost \cup {Try(j)}
  /\ UNCHANGED <<now, attempt, late>>

(* runInline or runIsolated as the attempt itself; only the isolated-vm    *)
(* failure is a retryable WorkerError.                                     *)
AttemptEnds(j) ==
  /\ pool.phase[j] = "attempt"
  /\ \/ /\ pool' = Release([pool EXCEPT !.phase[j] = "ok"])
        /\ Succeed(j)
     \/ /\ pool' = AfterFailure(Release(Caught(pool, j)), j, attempt[j],
                               pool.mode = "isolated", "job_error")
        /\ Fail(j)
  /\ UNCHANGED <<now, attempt, late, lost>>

(* The inline fallback runs outside the breaker.                           *)
FallbackEnds(j) ==
  /\ pool.phase[j] = "fallback"
  /\ \E result \in {"ok", "worker_failed"} :
       pool' = Release([pool EXCEPT !.phase[j] = result])
  /\ UNCHANGED <<cb, now, attempt, late, tries, lost>>

Tick ==
  /\ now < MaxTime
  /\ now' = now + 1
  /\ UNCHANGED <<cb, pool, attempt, late, tries, lost>>

Ends(j) ==
  \/ WorkerMessage(j) \/ WorkerLost(j) \/ WorkerSilentExit(j)
  \/ SpawnFails(j) \/ AttemptEnds(j) \/ FallbackEnds(j)

Next ==
  \/ Tick
  \/ \E j \in Jobs : Run(j) \/ BackoffFires(j) \/ Ends(j)
  \/ \E t \in late : LateEvent(t)

Spec == Init /\ [][Next]_vars

(* A worker that does not answer times out, promise chains run to their    *)
(* end and timers fire.  Nothing makes the caller submit a job, or a vault *)
(* answer.                                                                 *)
FairSpec ==
  Spec /\ \A j \in Jobs : WF_vars(~ AwaitsVault(j) /\ Ends(j)) /\ WF_vars(BackoffFires(j))

-------------------------------------------------------------------------------
TypeOK ==
  /\ cb \in BreakerRecord
  /\ now \in Nat
  /\ pool \in [mode : Modes, phase : [Jobs -> Phase], queue : Seq(Jobs), active : Nat]
  /\ attempt \in [Jobs -> 0 .. MaxRetries]
  /\ late \subseteq Tries
  /\ tries \in [Tries -> {"idle", "running", "ok", "failed", "refused"}]
  /\ lost \subseteq Tries

Executing == {j \in Jobs : pool.phase[j] \in {"worker", "attempt", "fallback", "unspawned"}}

(* activeCount counts the executions in progress and the slots that no     *)
(* handler will ever give back, each once: no late event, retry or         *)
(* fallback gives a slot back twice or forgets one (lines 227-289).        *)
SlotAccounting ==
  pool.active = Cardinality(Executing) + Cardinality(lost)

(* No slot stays free while a job waits (processQueue starts one job only, *)
(* and the fallback overcommits the pool).                                 *)
WorkConserving == pool.queue # <<>> => pool.active >= Size

(* At most Size threads run, however many fallbacks run beside them.       *)
ThreadsBounded == Cardinality({j \in Jobs : pool.phase[j] = "worker"}) <= Size

(* A waiting job is in the queue exactly once, and nothing else is in it.  *)
QueueHoldsWaiting ==
  /\ {pool.queue[i] : i \in 1 .. Len(pool.queue)} = {j \in Jobs : pool.phase[j] = "queued"}
  /\ \A i, k \in 1 .. Len(pool.queue) : pool.queue[i] = pool.queue[k] => i = k

(* While HALF_OPEN, each probe the breaker has counted is held by a job    *)
(* that is queued, running or stuck: a job in backoff, in fallback or      *)
(* settled holds none, so only a stuck job can keep the circuit HALF_OPEN. *)
ProbesAreHeld ==
  cb.state = "HALF_OPEN" =>
    cb.halfOpenAttempts <= Cardinality({j \in Jobs : pool.phase[j] \in InCall})

(* What the pool and its breaker count as held is held by jobs, and by     *)
(* nothing else but the lost slots: slots, threads and probes, whatever    *)
(* order a worker's events come in (lines 227-289).                        *)
HoldingsAccounted == SlotAccounting /\ ThreadsBounded /\ ProbesAreHeld

(* The jobs that wait are exactly those in the queue, and they wait only   *)
(* for slots that are taken.                                               *)
QueueServed == QueueHoldsWaiting /\ WorkConserving

(* The pool drives its breaker as BreakerContract allows: every attempt    *)
(* starts and settles at most once, queued time included.                  *)
Contract ==
  INSTANCE BreakerContract WITH
    Calls <- Tries, pc <- tries, mode <- GateMode(cb),
    until <- GateUntil(cb), quota <- GateQuota(cb)

UsesBreaker == Contract!Spec

(* Only retries overfill the queue: executeJob queues without looking at   *)
(* maxQueueSize, so whatever is there beyond it has failed before.         *)
FirstAttemptsBounded ==
  Cardinality({i \in DOMAIN pool.queue : attempt[pool.queue[i]] = 0}) <= MaxQueueSize

(* Every job handed to run() is settled, but for what a lost slot or a     *)
(* vault that never answers costs: the job itself, and, only when as many  *)
(* slots as the pool has are held that way for good, the jobs behind it in *)
(* the queue.  A pool of two survives the loss of one.                     *)
HeldForGood == Cardinality(lost) + Cardinality({j \in Jobs : AwaitsVault(j)})

EveryJobSettles ==
  \A j \in Jobs :
    pool.phase[j] # "new" ~>
      \/ pool.phase[j] \in Settled \cup {"stuck"}
      \/ [] AwaitsVault(j)
      \/ [] (pool.phase[j] = "queued" /\ HeldForGood >= Size)

===============================================================================
