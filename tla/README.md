# Formal models of KeySpot SDK

TLA+ models of KeySpot (`packages/@keyspot/*`, the Python port, the hosted server
and the dashboard's session), checked with TLC and, where marked, proved with
TLAPS. `PROJECT.json` lists every run, the source lines behind every definition,
the hazards the properties are for, and the disagreements between code and
documentation that a run shows.

## The system

KeySpot stands between an agent and everything that outlives a step of it. At a
boundary the agent calls `checkpoint(state)`: the scanner finds secrets, each one
is written to a vault and replaced by a signed reference, strings derived from
secrets are tracked by a taint engine, and everything is written to a hash-chained
audit log. Wrappers put that call around models, frameworks and vector stores; a
command line runs it over files; a hosted server sells it.

| Component | State | Hard part | Correct when |
|---|---|---|---|
| Circuit breaker (`patterns/circuit-breaker.ts`) | state, failureCount, openedAt, halfOpenAttempts | calls of several periods settle in any order; state changes when somebody looks | counters agree with the calls in flight; an open circuit starts no call for a timeout |
| Worker pool (`core/worker.ts`) | queue, activeCount, its breaker | message, error, exit and timeout in any order; slots taken and given back on many paths; inline checkpoints that await their vault | every slot is accounted for, no job strands, every job settles that no lost slot or silent vault holds up |
| Checkpoint (`core/index.ts`, `core/checkpoint-core.ts`, `python/`) | the clone being cleaned; vault, taint engine, audit log | every match awaits; calls interleave; writes and callbacks fail; a path may lead elsewhere | returns no detected secret or rejects; references lead to the secrets |
| Scanner walk (`core/scanner.ts`) | visited set, depth | objects held twice, or within themselves; limits of depth and size | scans each string once; passes one over only for a reason |
| Stream scan (`core/scanner.ts`) | one window | streams share it across an await | a split secret is found |
| Taint engine (`core/taint.ts`) | a bounded map | eviction, propagation past the limit | exact below the limit; the newest survive |
| Vault and its breaker (`vault/*.ts`) | entries with TTL, references with another, an AWS service | two lifetimes, restarts, answers that are lost | deleted is gone; a reference that verifies resolves or there is a reason |
| Audit log (`core/security.ts`) | entries, lastHash | capacity, wall clock, what of an event is hashed | one chain; edits of what is hashed are noticed |
| Persisted audit log (`core/compliance.ts`) | buffer, file, chainRoot | a crash or a write error between two lines; signing while a block is awaited; files named by the clock | a crash costs a bounded tail; files verify |
| Hosted access (`core/index.ts`) | access token | token replaced across awaits | a valid token is kept, and no token lives too long |
| Registry, keyword search (`patterns/`) | pattern list, trie, failure links | shared array, unordered and malformed updates; links | trie and list current; search exact |
| Prompt shield (`core/security.ts`) | rules with `lastIndex` | shields share rules | nothing passes twice in a row |
| Wrappers (`frameworks/`, `adapters/`, `core/adapters.ts`) | the pieces of a call | checks side by side, one failing | nothing checked goes past |
| Command line (`cli/`) | arguments, files, exit code | other programs write meanwhile | exit 0 means clean |
| Server: accounts (`routes/auth.ts`) | users, reset tokens, JWTs | overlapping requests, failures and crashes between awaits | one account per address; a spent reset changes nothing |
| Server: keys (`services/apiKey.ts`) | key rows | count-then-insert; revocation during a validation | limit exceeded only by overlapping requests |
| Server: subscriptions (`routes/stripe-webhook.ts`) | a row beside Stripe's own | repeated, late, unordered webhooks | the row is what Stripe said |
| Server: bookkeeping (`metrics.ts`, `usageTracker.ts`, `routes/mcp.ts`) | gauge, histogram, usage events, sessions | responses that break off, also while a token is verified; late inserts, staged reports | the books agree with what happened |
| Dashboard session (`apps/web`) | cookie, per-tab session and data | sign-outs, refreshes and reads that overlap and are answered late | tokens work, a tab shows its user's data |

How they interact: a checkpoint calls the scanner (which reads and tags the taint
engine), the caller's hooks, the vault (optionally through a circuit breaker) and
the audit log. The pool runs scans and checkpoints on threads and calls each
attempt through a breaker of its own. On the server, webhooks change the
subscription row that the key checks read. Everything in one process runs on one
JavaScript thread, so a step is atomic up to its next `await`, and every model
splits an operation exactly there; the pool's threads talk to it in events.

## Modules

| Module | Models | State and actions |
|---|---|---|
| `Breaker` | the methods of `CircuitBreaker` as functions of its fields | shared by the next two, `WorkerPool` and `Vault` |
| `CircuitBreaker` | one breaker and its concurrent calls | `pc[c]` is where a call is; `call()` runs to the first await (`CallAdmitted`, `CallRefused`) and from the settlement on (`Succeed`, `Fail`); `getState()` is a step of its own; throwing callbacks are `CallbackThrows`, `SucceedButOnCloseThrows` |
| `BreakerContract` | what any breaker promises: a gate that passes, blocks for a timeout, or probes with a quota | implemented by `CircuitBreaker`, by the pool's and by the vault's calls |
| `WorkerPool` | `run`, retries, threads, queue, isolated and inline execution, fallback | `pool.phase[j]` is where a job is. `WorkerMessage`, `WorkerLost` (timeout, error, non-zero exit), `WorkerSilentExit`; events of a settled worker are `LateEvent`. Promise continuations run before the next timer or worker event (`Micro`), unless the job waits for its vault (`AwaitsVault`): then everything may come in between |
| `Checkpoint` | `_checkpoint`, `handleRawMatch`, `replaceAtPath`, `Scanner.scan` | one action per stretch between awaits: `Begin`, `ScanLeaf`, `Clone`, then for each match `Mask`, or `VaultWrite`/`VaultWriteFails` and `InsertRef`; `End`; `Throws`. `config.addressing` says where the path of a leaf leads, `Landing` which leaves are written, `Stopped` when it ends in a string |
| `CheckpointPorts` | the same for the worker's loop and the Python port, on the same state | `port` chooses; the two scan and clone without giving way |
| `CheckpointContract` | what `checkpoint()` promises: answer with a state free of what was found, or reject | refined by all three ports |
| `AuditChain`, `AuditLog` | entries, hashes, `verifyChain`; `AuditLogger` | `logged` is history: the entries since the last `clear()`. An event has the part its JSON keeps (`json`), its own timestamp and prevHash (`own`), and what no JSON holds (`unseen`); only the first is hashed. SHA-256 is injective: a hash is what was hashed |
| `PersistedAudit` | `PersistedAuditLogger` across crashes and restarts | `files[p]` is the file of process p; `flush()` is split into its writes because the process may die between them; `SnapshotArbitrumBlock` awaits `BlockArrives`/`BlockFails`. `SetClock` sets the clock to any time, and `started[p]` names the file |
| `Vault` | in-memory, native and AWS adapter behind `withCircuitBreaker`, and Python's in-memory one | `store`, `refs` (id, expiry, key), `call[c]` through the breaker, the service and the settlement; `Restart` empties an in-memory store and makes a new random key; `Outage`, and `OrphanActs`: the service acts on a request it never answers |
| `Accounts` | `routes/auth.ts`, `requireAuth.ts` | each handler a chain of awaits in `req[s].at`; any await may reject, the process may end between two |
| `Subscriptions` | checkout, webhook handlers, Stripe (external) | `events` are delivered in any order, again until answered; `hook[h]` is a webhook in progress |
| `ApiKeys` | keys and the gates of guarded routes, composed with `Subscriptions`; `HttpRequests` holds what it shares with `Accounts` | creation counts, then inserts; a validation looks up, checks, marks used |
| `WebSession` | NextAuth's cookie, its refresh, tabs and React Query | a request for the session or a page is asked (`Ask`), issued a token (`RefreshIssued`), answered (`Refreshed`, `Kept`, `RefreshFails`) and stored (`SessionArrives`, `PageArrives`); signing in and signing out are split at their awaits too. The browser, NextAuth and React Query are external and modelled from how `lib/auth.ts` and `hooks/useApi.ts` use them |
| `HostedAccess` | `setAccessToken`, `checkHostedAccess`, `obtainFacilitatorToken` | the facilitator grants a token of any lifetime or refuses |
| `StreamScan` | `scanStream`, `clearStreamBuffer` | call and resumption are two steps; text is a sequence of symbols |
| `TaintEngine` | `tag`, `propagate`, `untaint`, eviction | the map keeps the order of first insertion |
| `PatternRegistry` | `register`, `unregister`, live updates | the list may be an array shared with the host; answers load in any order, and an element that is null or has no name throws where the code first reads it (`Throws`, `Builds`) |
| `AhoCorasick` | the automaton built link by link and run character by character | texts are read by UTF-16 units, keywords split by code points |
| `PromptShield` | `validatePrompt` and rules with `/g` | `lastIndex` per rule object |
| `StateWalk` | `scan` over an object graph, `approxSize` | the calls in progress are a stack of frames; an object is visited, then measured, then its members come one by one |
| `Guard` | the eight modules above that an instance consists of, `AuditLog` included | none reads another's state, so a behaviour moves one of them |
| `Wrappers` | every wrapper as a shape: which pieces it checks before and after, which it passes on unchecked, in what order | `form`, `sent`, `service` |
| `CommandLine` | `scan` of a path or of what is staged, `--prune`, `--json` | reading and writing back are two steps, other programs write between |
| `RequestMetrics` | gauge, histogram, usage events, the usage report, MCP sessions | a request is being authenticated (`checking`) until `LetIn` or `Refuse`; responses finish or break off; inserts return later; the report counts in stages |
| `Edges` | the three above | a behaviour moves one of them |

`MC*` modules give TLC its sets, texts and set-ups. `BreakerLemmas`,
`CircuitBreakerProofs`, `WorkerPoolProofs`, `CheckpointProofs`, `VaultProofs`,
`GuardProofs`, `HostedServerProofs` and `EdgesProofs` hold the proofs.

Definitions whose name has an underscore and a suffix (`OnFailure_StrictThreshold`)
are plausible slips; `PROJECT.json` says which property catches which. A property
that is a conjunction of others (`RecordsAgree`, `RootsVerify`, …) is built from
named parts, each with its own comment; the parts are what the proofs speak of.

## Runs

Every passing run checks what its properties name for every interleaving within
the bounds.

| Run | Properties | Bounds and why they are enough |
|---|---|---|
| `breaker` | `ProbeAccounting`, `TripsRightly`, `ImplementsContract`, `NoWedge` | threshold 2, quota 2, five calls, time 5: two HALF_OPEN periods with calls left over from CLOSED and from the first, and a spent quota with late settlements on both sides |
| `pool` | `HoldingsAccounted`, `QueueServed`, `FirstAttemptsBounded`, `UsesBreaker`, `EveryJobSettles` | two threads, four jobs (one silent, one whose executor cannot be made, one whose vault is remote), queue of 1, one retry, all three modes: running, queued, backing off, falling back and awaiting a vault at once, and one slot lost while the other still serves the queue |
| `checkpoint` | `RecordsAgree`, `TaintsHold`, `OnlyUnreachableSurvive`, `PortsKeepContract` | two calls, two leaves, two secrets in one string, a call on another's result, three ports: two writers, several matches per leaf and per state, a path onto the leaf before or after, over the object it is in, or to a place that holds none |
| `persisted` | `LossBounded`, `RootsVerify` | flush at 2, three entries and three processes, one write error or unsigned entry, one snapshot, a clock of three times set at will: full, partial and empty files named in any order, and entries signed while the block is awaited |
| `accounts` | `AccountsSound`, `NoStaleReset`, `PasswordProved` | three requests, two at once, one await that rejects, a crash, a clock past every lifetime; two addresses and passwords, which are interchangeable |
| `api_keys` | `KeysSound`, `RowTrue`, `KeyAdmission` | limits 1 and 2 in place of 3, 25 and 100, two requests and two webhooks at once, two of Stripe's subscriptions, three changes, one lost acknowledgement |
| `vault` | `RefsExplained`, `DeleteIsFinal`, `GuardsItsVault` | threshold, quota and timeout 1, four calls on one id, lifetimes on both sides of each other, one restart, outages |
| `web` | `SessionSound`, `TabShowsOwn` | two users, two tabs that read nothing and one that reads and changes; two sign-ins or sign-outs, two requests at once and a clock past the end of an access token (a refresh the API refuses is an action of its own): a request overtaken by a sign-out of its own or of the other tab, and an answer slower than the minute to spare; or three sign-ins, sign-outs or mutations, one request at once, and a key that mutations invalidate or one they leave alone: reads before, during and after a mutation, with and without data, on the page or off it |
| `guard` | `LogSound`, `TamperEvident`; `TokenKept`; `NothingMissed`; `ExactWithinLimit`, `NewestSurvive`; `RegistryCurrent`; `MatchingExact`; `PassesOnlyAfterFound`; `WalkSound` | log: capacity 3, five entries of three events, two of them with one JSON text; three checks and a clock of 8; window 3 over a secret of 2 and five chunks; four values over a map of 3; two registries, four operations, and updates with a null or a nameless element; five dictionaries of overlapping keywords over all texts of up to six units; two shields; all states of three objects in a chain with one or two members each, depth 2 and size 3 |
| `edges` | `WrapsTight`; `ExitMeansClean`; `BooksKept` | every wrapper's shape with every content; two files, secrets inside one another, one foreign write; three requests and one report |

*Why no more.* `persisted`, `web`, `edges`, `guard`, `api_keys` and `vault`
are the large ones (up to some four million states): a second snapshot, or a second id of the vault, add
histories that are the same up to names. The bounds that cap counters
(`MaxTime`, `MaxLogged`, `MaxActs`, `MaxCalls`, `MaxRegistryOps`, …) are
constants, guard the actions they cap and are named in each module.

*Set-ups.* `WorkerPool` chooses its execution mode in `Init` (`Modes`),
`CheckpointPorts` a port and a record of `PortConfigs`, `Vault` its adapter, and
`MCWebSession` a `part`: a behaviour follows the session in the tabs that read nothing,
or the data in the one that does, since the two meet only in the session that a tab
is handed. The
records of `MCCheckpoint` are: the default instance, one with a rotation hook, one
that masks, one whose caller writes to the state it passed in, one with a dotted
key that leads nowhere and without the pattern for hex digits, four with a key that
leads to another place, and, for the worker and Python, a leaf
reached in every way there is and a state that is a string. What the caller writes
during the call is of another kind (`Late`), so that the contract speaks of what was
passed in.

*Conditions in properties.* Where the code gives a guarantee only in the absence of
something, a history variable names that something, and the property is claimed
for the histories without it: `disturbances` (an append that failed, an unsigned
entry), `lossy` (the taint map evicted), `met` (a stream whose window another step
changed), `outdated` and `halted` (a registry behind whose back the shared array
changed, or whose own last change threw half-way),
`disorder` (webhooks handled out of order), `late` and `handed` (a refresh that was
overtaken, a tab whose user changed in place), `kept` (a read that no invalidation
cancels), `lost` (a pool slot lost for good). The same is done with state that says
it itself: `StartedInOrder` (no process started at an earlier time than one before),
the "slow" tokens of `Session` (answers slower than the minute to spare) and the
connections that were "gone" before they were let in.
In every one of these runs both kinds of histories occur.

*Symmetry* is used where the members of a set are interchangeable, in `Init`, in
the actions and in the properties: never with a liveness property.

*Deadlock.* `CHECK_DEADLOCK FALSE` stands where the system may stop: all jobs
settled, all calls answered, all processes used, the bound of a history reached.

### Fairness

`CircuitBreaker!FairSpec` assumes only that a call that runs settles (a downstream
that answers or times out); callers, polls and resets owe nothing.
`WorkerPool!FairSpec` assumes that what a job waits for ends (a worker answers or
its timeout fires, which `worker.ts` arms for every attempt on a thread) and that
timers fire; for queued jobs nothing is assumed, so that they start is shown. Nothing
is assumed of an inline job that waits for its vault (`AwaitsVault`), for which
`worker.ts` arms no timeout: `EveryJobSettles` says what such a job may cost.
The other specifications are safety only: what they promise does not depend on
anything happening.

### Disagreements between code and documentation

Two runs violate what a text of the repository says, and are listed as findings:

| Run | What happens |
|---|---|
| `checkpoint_shared` (`NoSecretReturned`) | the second path to an object already visited, and what lies below `maxScanDepth`, is not scanned but is cloned, and returned with its secret (`DOCUMENTATION.md:8`) |
| `wrappers_remove` (`NoSecretForwarded`) | with `pruneStrategy: 'remove'`, wrappers that put a string into an object and take it out again send the string they were given, secret and all (`frameworks/src/openai.ts:22`) |

The models show more of the kind, without a run of their own:

- a key with a dot, a bracket or nothing in it may lead `replaceAtPath` to another place
  that exists: the reference is written there and logged as vaulted, and the secret
  is returned under its own key (`index.ts:372-383`, `core.py:133`,
  `DOCUMENTATION.md:8`);
- what `JSON.stringify({...event, timestamp, prevHash})` drops or replaces of an event
  is not hashed and can be changed in an entry that verifies (`security.ts:84`; the
  class comment at 64 has "any modification is detectable");
- a stale failure clears `halfOpenAttempts` while a probe runs, so more probes than
  the quota are in flight (`circuit-breaker.ts:101`, `DOCUMENTATION.md:1005`), and a
  call from before the outage closes a HALF_OPEN circuit (`DOCUMENTATION.md:993`);
- a retry that finds the breaker open ends the job early, without the fallback
  (`worker.ts:156`, `DOCUMENTATION.md:1053`), and retries are queued beyond
  `maxQueueSize`;
- a worker that cannot be constructed, or exits with 0 and no message, keeps its
  slot for ever (`lost`), and an inline checkpoint keeps its slot as long as its vault
  does not answer (`worker.ts:206`);
- checkpointing a result again replaces a reference by one to its own HMAC
  (`built-in.ts:6`, `DOCUMENTATION.md:188`); of two secrets in one string only the
  last has a reference; a secret under a key that `replaceAtPath` refuses is logged
  as vaulted and returned in clear; what the caller writes between scan and clone
  is returned unscanned;
- over capacity an untouched audit log no longer verifies (`security.ts:90`,
  `DOCUMENTATION.md:724`), and after a restart neither does the new file
  (`compliance.ts:140`, `security.ts:65`); entries with equal timestamps verify
  (`CHANGELOG.md:22`: "strictly"); an append that fails inside a flush doubles
  lines;
- the AWS adapter answers errors of `read` and `delete` with `null` and `false`, which
  the breaker takes for successes: an outage does not open it by these
  (`docs/ops/alert-runbook.md:55`);
- the installed hook runs `keyspot scan --git`, whose first argument is taken for
  a path, so nothing staged is scanned (`cli/src/index.ts:151` against 107,
  `DOCUMENTATION.md:911`); `--json --prune` prunes nothing and exits with 0;
- `keyspot_active_requests` counts all requests, although its help text says
  "Currently in-flight checkpoint/scan operations", and never hears of those that
  break off (`metrics.ts:148`); the session of an event stream whose connection closed
  during authentication is never deleted (`routes/mcp.ts:31`); a usage
  report may show more errors than requests, since it counts one after the other;
- an update with a null or nameless element changes a registry's list and leaves its
  trie, silently when the timer asked for it (`registry.ts:53-71`);
- after the clock was set back, a restart continues the chain roots of the wrong file
  (`compliance.ts:90`);
- a slow answer to a refresh makes a token count as valid past its end (`auth.ts:19`),
  a session request that overlaps a sign-out sets the cookie back, and a mutation of
  keys leaves their count under `['quotas']` as it was (`useApi.ts:34`);
- a facilitator's token whose lifetime is not positive admits the call it was
  fetched for, and replaces a longer one set meanwhile;
- a webhook that comes late overwrites a newer state; two requests with one reset
  token may both change the password; two creations at the limit both pass.

## Proofs

TLAPS checks the theorems below for every value of the constants that the modules'
assumptions allow. `PROJECT.json` lists those a reader should know of.

| Module | For any | Proved |
|---|---|---|
| `CircuitBreakerProofs` | threshold, timeout, quota, finite set of calls | `TypeOK`, `ProbeAccounting`, `TripsRightly`, `ImplementsContract` |
| `WorkerPoolProofs` | finite set of jobs, threads, retries, queue limit, mode | `TypeOK`, `HoldingsAccounted`, `QueueServed`, `FirstAttemptsBounded`, `UsesBreaker` |
| `CheckpointProofs` | calls at once, leaves, secrets, configurations, port | `RecordsAgree`, `TaintsHold`, `OnlyUnreachableSurvive`, `PortsKeepContract` |
| `VaultProofs` | ids, calls, lifetimes, restarts, adapter | `DeleteIsFinal`, `RefsExplained`, `GuardsItsVault` |
| `GuardProofs` | capacity, limits, values, streams, checks, dictionaries, shields, states | `LogSound` and `TamperEvident`, of the log and of an instance; `TokenKept`, `ExactWithinLimit`, `NewestSurvive`, `PassesOnlyAfterFound`, `NothingMissed`, `RegistryCurrent`, `MatchingExact`, `WalkSound` |
| `HostedServerProofs` | addresses, passwords, requests at once, faults, lifetimes | `AccountsSound`, `NoStaleReset`, `PasswordProved` |
| | users, subscriptions, webhooks and requests at once, keys, limits | `RowTrue`, `KeysSound`, `KeyAdmission` |
| `EdgesProofs` | flush threshold, processes, crashes, write errors | `LossBounded`, `RootsVerify` |
| | strategies and contents of a wrapped call; files, secrets and orders of matches; requests, callers, endpoints and reports | `WrapsTight`; `ExitMeansClean`; `BooksKept` |
| | users, tabs, lifetimes of tokens | `SessionSound`, `TabShowsOwn` |

None of the invariants is inductive as the runs check it. Each module has an
`IInv`; what it adds is the reason why the property holds.

**Breaker.** `IInv` adds: `openedAt` is a time not in the future whenever the circuit
is not CLOSED, no call was admitted in a period later than the present one, and the
counted failures are bounded by the failed calls. The calls are finitely many
because counting them needs it. The gate lemmas of `BreakerLemmas` say what each
method of the breaker is to `BreakerContract`: a look is a stutter or opens the
gate for probes (`GetStateGate`), an admitted call passes (`AdmitGate`), a refused
one is blocked (`RefuseGate`), a settlement reports (`OnSuccessGate`,
`OnFailureGate`). All three refinements rest on them: the breaker alone, the pool's
and the vault's.

**Worker pool.** The first lemmas count jobs by phase; the second group says what each
method of the pool (`ProcessQueue`, `Release`, `ExecuteJob`, `AfterFailure`) does to a
pool whose accounts balance; the third has one lemma per kind of step. `IInv` needs
two facts besides the properties: a job that leaked a slot is stuck, falling back
or settled (`LostIsOver`), so that no attempt leaks twice and the leaks number the
cardinality of `lost`; and a job in backoff has an attempt left (`BackoffLeft`), so that
`attempt` stays within `MaxRetries`. `Micro` is not used anywhere: the invariants hold
also if every event may come at any time. `ProcessQueue` starts only one job; that is
enough because a slot is given back one at a time and the queue is empty whenever
a slot is free. `CallsInv` adds what the history of attempts needs for the
refinement (`TriesKept`: the attempt of a job that is in a call is under way, and
none is made before its turn) and counts the queued jobs by job, not by place, since
the queue holds each once.

**Checkpoint.** Calls share the vault, the taint engine and the audit log across every
await, so the invariant is one conjunct per call (`CallOK`) and a few lines about what
they share. Of a call: its phase fixes what its `cursor` counts, and the loop never
runs past its matches (`PlaceOK`); references it was given are of other calls, name
an entry and stand only where replacing reaches (`RefsOK`); every scanned leaf with
a secret or a string tagged before the call has a match, and no match is of a mask
(`MatchesOK`); between a write and the insertion, the newest entry the call made
holds the secret of the match at hand (`OwnOK`); and a leaf of the returned state is as
it was given until a match of it was handled, then what handling the last of
them makes of it (`HandledOK`, `Outcome`): this is what several matches at one leaf
need. A step of one call only adds entries and taints (`Grown`), so no other call's
conjunct changes (`BystanderStable`); masking and inserting a reference, by either way
of replacing, share `AdvancedKeeps`. A match need not land at its own leaf: `Lands` says
which leaves the path of a leaf reaches, `Landed` which matches so far reached a leaf,
and `Replaced` what the last of them leaves there; `ReachedOK` keeps that every
handled match landed at its own leaf unless it is `Unreachable`, which is what
`OnlyUnreachableSurvive` needs. `FlattenSeqCollects` says that the concatenated
matches of all leaves are those of each; the least index that fails would have a
smaller one. For the refinement, `Answers(c)` is what a step of a call is to those who
see only answers and the vault, and `ReturnedIsSafe` says that the state a call ends
with satisfies the contract's `Safe`.
`NamesAssumption` says that the mask is none of the secrets and that `None` and
`Rejected` are not states.

**Vault.** The properties speak of the store and the references; the invariant has to
speak of the calls on their way. `CallOK` says which call knows which id and why its
answer is what it is; the hardest case is a delete that the service carries out
after its caller gave up (`orphan`). An id that was written keeps its deadline and
never comes back once gone (`Evolves`); a step that does not empty a memory takes
an entry only by deletion or expiry (`KeepsEntries`). Every step is shown to have
these two effects once, and then no call and no reference it leaves alone needs a
case of its own (`CallOKStable`, `RefOKStable`). The key of a reference is that of the
process that signed it. `VaultAssumption` says that `None` is none of the ids,
operations, steps, answers and deadlines.

**Audit logs.** `AuditLog`'s `IInv` says that the entries kept are the newest of those
logged (`KeptAreNewest`), that these form a chain (`Chained`), and how many are kept
(`KeptCount`): without the count, a log that reached its capacity looks the same as
one that lost entries, and a capacity of 0 means that none are ever lost.
`TamperEvidence` says that any log that verifies and ends in `lastHash` agrees with the
log that was written, entry by entry, in all that is hashed (`Agree`). It is an invariant of its own; a longer accepted log has an
accepted front, which by induction along the behaviour agrees with the log before the
last call. It assumes, as `AuditChain` does, that a hash determines what was hashed,
and that the object of an event is not changed after it was logged.
`TamperEvident` follows: whatever TLC enumerates as a forgery, rehashed or not, is a
sequence of entries (`ForgedIsSeq`), and so is the kept part. More cannot be claimed:
two events that differ in `own` or `unseen` only have the same hash.

`PersistedAudit`'s `IInv` has two layers. Always: what a flush has counted as written
is in the file, which makes at-least-once survive errors, and every line on disk and
in the buffer names its root if it is a snapshot. While nothing was disturbed
(`Calm`): of each process a beginning of what it signed is on disk, the rest of the
running one's is in the buffer, which is shorter than the flush threshold outside a
flush; and each file's roots go on from where its process started, then
through the part of the buffer not yet written, to `chainRoot`. A process starts with
`RootUpto(files, started, n)`, the last root of the file before it whose name sorts last
and that has one (`Newest`). That this file is the one written last holds only of
processes that started in the order of their clocks (`NewestInOrder`): it is what
`RootsContinue` needs `StartedInOrder` for, and nothing else does.

**Instance.** `PartsStart` and `PartsStep` say once that a behaviour of `GuardSpec` is one
of each of its parts; each part is then proved about by itself, and the audit log's
theorems carry over (`LogIsAuditLog`). What the parts' invariants add: the taint
map's keys are the values that carry a taint, each once (`TaintShape`); a shared
rule with `lastIndex` other than 0 is one that found something last (`ShieldIInv`);
the stream's window is the end of all that was fed (`StreamIInv`), and the window's
found secrets are those of the text, shifted (`WindowRolls`, `EndsShift`); a registry
that is neither outdated nor halted has built its trie of its list (`RegistryIInv`), and
no list, shared or not, holds a name more often than `Allowed` (`ListsBounded`),
wherever an update threw; of the calls of a walk no
two are for one object, all of them for visited ones, and the strings scanned of an
object come before its next member (`WalkShape`), and each member of an object that was
entered is done with or still to come in its call (`WalkDone`), so that a finished
walk met every object above a missed one as early as it is reached (`MetAsReached`),
unless one was met later than it could have been. An update and a removal are folds over a
list: `FoldsExist` shows, by a least counterexample instead of an induction
theorem, that a fold which never leaves a set exists, and `FoldWithin` that it is
after each member where that member takes it to. `Reached` and `Below` are growths:
the set of ends of ways satisfies their equation (`GrowthExists`), and a growth
stands still after as many steps as there are objects (`GrowthClosed`).

**Keyword search.** `MatchingExact` speaks of the finished automaton; the invariant has
to say what is right while it is built. `LinkRight`: a link that is set leads to the
longest end of its node, itself left out, that is in the trie, and to a node that is
linked already. `QueueRight`: the queue holds linked nodes, each once and the shortest
first, none with a linked child, and every other linked node has all its children
linked; so every node as short as the first of the queue is linked (`ShortLinked`),
which is what makes the breadth-first order matter, and an empty queue leaves none
unlinked (`EmptyLinked`). `Reports`: a linked node's output holds each keyword that ends
there as often as it was given, and an unlinked one only what was pushed. The walk along
the links is a recursive function whose value is not computed by induction: `BackTo` is
a function that satisfies its equation (`BackToWalks`), and a shortest node at which
another one differs is refuted (`WalkIsBackTo`). `LongestStep` then serves twice, for
the link of a child and for the search: from the longest end of a word, the best node
and a character make the longest end of the word and the character. `SearchRight` counts
for every keyword and every place (`FoundRight`), also those past the text. The same
invariant was checked by TLC on the dictionaries of `MCGuard` before it was proved.

**Accounts.** A handler waits between any two of its queries, so the invariant says what
a waiting request still knows (`RequestOK`): the user it is for exists, its token
was mailed, and a reset that reached its write did not arrive late. It stays true
because no handler takes back a user, a subscription or a token, nor makes a used
one unused (`Evolves`, `RequestStable`); a step is then one of four kinds (a request
arrives, reads, looks something up, or writes one table) and each kind has a lemma.
`HistoryOK` says that the passwords in force during a request include the present
one, which is what lets a login compare with a password that a reset replaces in the
next instant. `OwnerOK` says that an address is registered by one request at a time,
and by none once it was welcomed: the unique index on the address, taken through the
awaits that follow the insert. `AccountsAssumption` says that `None` is none of the
values it stands beside.

**Subscriptions.** `RowCoherent` needs that whatever an event or a webhook carries is a
state its subscription had (`EventOK`, `HookOK`), and that a subscription is one
user's (`HadOK`). `MirrorsStripe` speaks only of the moment when nothing is left to
handle; the invariant says why that moment comes out right, for every subscription
whose events came in order: its webhook handles the oldest event and is the only one
(`InOrder`); the newest event tells what Stripe says now, a deletion is the last and
keeps the price, and a failed payment comes with an event that stores the state
(`ChainOK`); what a webhook is about to store is Stripe's present state, or a later
event will replace it (`StoresOK`); and a row that no pending event will set again
agrees already (`RowAgrees`). A deletion and a failed payment set only the status, which
is why tier and status need separate clauses.

**API keys.** As with accounts, `CallOK` says what a waiting request knows, and no
handler takes back a key, gives it to another user or revives it (`KeysEvolve`); so a
key that is good in `validateKey` was good on arrival. `KeysBounded` is inductive once
`count` knows that the limit it read is one the user has had: who goes on to insert
counted fewer keys than that, and the others in progress are at most `Slots` less
one. `ApiKeysAssumption` says that there is a slot.

**Wrappers.** `EdgesStep`, like `PartsStep`, says that a behaviour of `EdgesSpec` is one of
each of its three programs. `WrapIInv` adds to `WrapsTight` that a piece which
holds a secret is an excepted one from the moment it is checked, whether or not it
is sent, and that a service which was called was called with all pieces passed. The
entry points of each shape are the only thing looked up by case (`DetectedShapes`).

**Command line.** `CommandIInv` says that every secret which was read and is still in its
file is accounted for (`Reported`: it is in the file about to be handled, or it was
counted, or the file is too large or was pruned without effect), so at exit code 0,
when nothing is being read, one of the exceptions applies. Pruning has to be shown
to remove what it found in every order of matches: `PrunedIsClean` takes the fold of
`Pruned` apart (`PrunesExist` says that there is a function that gives the fold of every
front of the list, by a least length for which there is none) and then follows each
secret to its own turn; `ReplacingTakes` says that no later replacement brings it
back, which needs that what remains of a secret around it is not a secret.

**Bookkeeping.** `EventsOK` names the one event of a request instead of counting;
`GoesCounts` says what each move of a request does to the gauge's and the
histogram's counts, and `SumGrows` that one observation more in one bucket is one
more in the sum of all. `ReportOK` says that rows which were counted are in the table
and stay there, and that the status codes, counted last, contain all earlier rows
since the table only grows. A session is stored by `LetIn` and taken out by `BreakOff`,
so `SessionsOpen` is inductive once it names the streams that were gone before.

**Dashboard session.** `WebIInv` has a part for the session and one for the data, which
share the owner and the page. `SessionPart` speaks of the cookie and of every request on
its way (`RequestOK`), since each may become the cookie: one that is not late was sent
with the cookie of who is signed in, and is answered with a token of the same user; an
answer that carries a token was not due when it left, or its refresh has failed
(`AnswerOK`), so a token that has ended on arrival was slow. A sign-in or sign-out
marks every request late at once (`OwnedKeeps`), and `RequestMoves` and `ArrivalKeeps`
are the two ways a request goes on. `CachePart` says of each tab whose user was not
changed in place (`TabOK`) that its data, its read and its mutation are of the page's
user, and that data and reads with an answer are `Recent`, or marked as ones that no
invalidation would have cancelled.

*Assumptions.* Each theorem holds under the named `ASSUME`s of its modules, which TLC
evaluates in the runs: numbers are natural, sets of calls or jobs finite, `None`
and its like no members of the sets they complete. They are types of the source,
not conditions on its use.

*Out of the prover's reach, and only model-checked:* liveness (`NoWedge`,
`EveryJobSettles`).
The safety invariants and action properties of all passing runs are proved.

## Not modelled, and why

*Idealised.* Hashes are injective, signatures and MACs sound. Which text matches
which built-in pattern, entropy and decoding are data: a string is known by the
secrets found in it. Shapes of framework objects are the sets of pieces a wrapper
looks at.

*Left out: changes no state the models have.* Telemetry and logging (spans around
calls), the MCP tools (each calls one method of an instance; `pruneStrategy` is
ignored at `tools.ts:78`), `createSecure` (warns), trigger callbacks, pages of the
dashboard, the web site, examples, the hook's installation, the Rust side of the
native vault (computes a MAC). The Python port's taint engine, shield and audit
log repeat the TypeScript ones; its vault is a kind of `Vault`.

*Left out: not reachable or not mounted.* The migration import always answers 401;
x402 payment, the e-mail service and `apiKeyAuth.ts` are mounted nowhere. Quotas
are reported and never enforced.

*Left out: a single assignment with a visible effect, nothing to interleave.*
`/readyz` answers 503 while Redis cannot be reached, although the server runs
without it (`redis.ts`); the histogram's arrays in
`metrics.ts:62` grow without bound; `routes/mcp.ts` gives one `McpServer` to every
session, and what a second `connect` does to the first is inside an external SDK.

*Left out: below a step of the model.* A line of the audit file that a crash cut in
two (`compliance.ts:97`, after which roots restart from zeros): every append is whole
in `PersistedAudit`. It is listed as a hazard without a property. Two processes that
are alive at once and write to one directory are not modelled either, nor is a
Stripe subscription without a price, which `stripe.ts:102` passes over.

*Partly modelled components* are marked so in `PROJECT.json`, each with what is
missing: the scanner (detection is data), the checkpoint (the tracer), the native
vault, the pattern registry (built-in patterns are data), the server's health and
migration routes, the Python port and the dashboard.

## What could follow

Two processes that write one audit directory at once, and a write that a crash cuts in
two, need an append that is more than one step. What `WorkerPool` promises in time
(`NoWedge`, `EveryJobSettles`) would need a prover for `ENABLED` and fairness.
