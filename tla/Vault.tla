--------------------------------- MODULE Vault ---------------------------------
(***************************************************************************)
(* A vault adapter behind withCircuitBreaker: the entries it stores, the   *)
(* references it signs, and the breaker its calls go through.  vault.kind  *)
(* is the class: InMemoryVaultAdapter, NativeVaultAdapter (which ignores   *)
(* the write options) or AWSSecretsAdapter, whose service is external, may *)
(* be unreachable and may act on a request it never answers; "python" is   *)
(* Python's InMemoryVaultAdapter, which has no breaker, and whose calls    *)
(* never fail: the breaker it is given here stays CLOSED.                  *)
(*                                                                         *)
(* A secret is known by its id.  Sealing with the encryption key and the   *)
(* tags are left out: nothing reads them.                                  *)
(***************************************************************************)
EXTENDS Breaker, FiniteSets

CONSTANTS
  Kinds,         (* subset of {"memory", "native", "aws", "python"}         *)
  Ids, None,
  Calls,         (* invocations of write, read, list and delete             *)
  TTLs,          (* options.ttl of a write; 0 stands for undefined as well  *)
  RefTTLs,       (* the ttl of generateRef                                  *)
  MaxTime, MaxRestarts

Ops       == {"write", "read", "list", "delete"}
Steps     == {"service", "answered", "catch", "done", "issued", "orphan", "gone"}
Answers   == {"id", "value", "null", "keys", "true", "false", "error"}
Deadlines == Nat \cup {Null}
Entries   == [deadline : Deadlines]

ASSUME VaultAssumption ==
  /\ Kinds \subseteq {"memory", "native", "aws", "python"}
  /\ None \notin Ids \cup Nat \cup {Null} \cup Ops \cup Steps \cup Answers
  /\ None \notin Entries
  /\ IsFiniteSet(Ids) /\ IsFiniteSet(Calls)
  /\ TTLs \subseteq Nat /\ RefTTLs \subseteq Nat
  /\ MaxTime \in Nat /\ MaxRestarts \in Nat

VARIABLES
  cb, now,
  vault,     (* [kind, keyed, key, down]: the class, was a secretKey given, *)
             (* the key in use, is the service unreachable                  *)
  store,     (* [Ids -> None or [deadline]], Null when there is none         *)
  call,      (* the invocations                                             *)
  refs,      (* references handed out: [id, expiry, key]                    *)
  restarts,
  deadlines, (* history: the deadline an id was written with, Null for never*)
  deleted,   (* history: ids a delete took effect on                        *)
  acked      (* history: ids whose deletion was answered true               *)

vars == <<cb, now, vault, store, call, refs, restarts, deadlines, deleted, acked>>

NoCall == [pc |-> "idle", step |-> None, op |-> None, id |-> None,
           late |-> FALSE, answer |-> None]

(* A plausible bug: a key that every process knows.                        *)
KeyOf_Shared(keyed, process) == None

(* The key of a process: the one it was given, or random bytes of its own. *)
KeyOf(keyed, process) == IF keyed THEN None ELSE process

Init ==
  /\ cb = ResetBreaker
  /\ now = 0
  /\ \E kind \in Kinds, keyed \in BOOLEAN :
       vault = [kind |-> kind, keyed |-> keyed, key |-> KeyOf(keyed, 0), down |-> FALSE]
  /\ store = [i \in Ids |-> None]
  /\ call = [c \in Calls |-> NoCall]
  /\ refs = {}
  /\ restarts = 0
  /\ deadlines = [i \in Ids |-> None]
  /\ deleted = {}
  /\ acked = {}

-------------------------------------------------------------------------------
(* Only the in-memory adapters keep the options of a write with the entry, *)
(* and look at them when it is read.                                       *)
KeepsOptions == vault.kind \in {"memory", "python"}

DeadlineOf(ttl) == IF KeepsOptions /\ ttl # 0 THEN now + ttl ELSE Null

Past(deadline) == deadline # Null /\ deadline < now

Resolves(i) == store[i] # None /\ ~Past(store[i].deadline)

(* The MAC that verifyRef computes, in Rust or not, is the reference's own *)
(* only under the key it was signed with.                                  *)
SignedHere(ref) == ref.key = vault.key

Verifies(ref) == ref.expiry >= now /\ SignedHere(ref)

(* What the adapter does to its entries and answers, request by request.   *)
Answer(c, r, answer) == call' = [call EXCEPT ![c] = [r EXCEPT !.step = "answered", !.answer = answer]]

Write(c, r) ==
  \E i \in Ids, ttl \in TTLs :
    /\ deadlines[i] = None
    /\ store' = [store EXCEPT ![i] = [deadline |-> DeadlineOf(ttl)]]
    /\ deadlines' = [deadlines EXCEPT ![i] = DeadlineOf(ttl)]
    /\ Answer(c, [r EXCEPT !.id = i], "id")
    /\ UNCHANGED deleted

(* An in-memory adapter answers null to an agent that visibleTo leaves    *)
(* out; what has expired is removed before that is looked at.              *)
Read(c, r) ==
  /\ \/ Resolves(r.id) /\ Answer(c, r, "value")
     \/ (~Resolves(r.id) \/ KeepsOptions) /\ Answer(c, r, "null")
  /\ store' = IF Resolves(r.id) THEN store ELSE [store EXCEPT ![r.id] = None]
  /\ UNCHANGED <<deadlines, deleted>>

(* list sweeps what has expired.                                           *)
List(c, r) ==
  /\ store' = [i \in Ids |-> IF Resolves(i) THEN store[i] ELSE None]
  /\ Answer(c, r, "keys")
  /\ UNCHANGED <<deadlines, deleted>>

(* Python's names every entry and removes none.                            *)
ListAll(c, r) ==
  /\ Answer(c, r, "keys")
  /\ UNCHANGED <<store, deadlines, deleted>>

Delete(c, r) ==
  /\ Answer(c, r, IF store[r.id] # None THEN "true" ELSE "false")
  /\ store' = [store EXCEPT ![r.id] = None]
  /\ deleted' = deleted \cup {r.id}
  /\ UNCHANGED deadlines

Perform(c, r) ==
  \/ r.op = "write" /\ Write(c, r)
  \/ r.op = "read" /\ Read(c, r)
  \/ r.op = "list" /\ vault.kind # "python" /\ List(c, r)
  \/ r.op = "list" /\ vault.kind = "python" /\ ListAll(c, r)
  \/ r.op = "delete" /\ Delete(c, r)

-------------------------------------------------------------------------------
(* What callers may ask for; they know the ids their writes returned.      *)
Known == {call[c].id : c \in {d \in Calls : call[d].op = "write" /\ call[d].pc = "ok"}}

Requests ==
  {[NoCall EXCEPT !.op = op] : op \in {"write", "list"}} \cup
  {[NoCall EXCEPT !.op = "read", !.id = i, !.late = i \in acked] : i \in Known} \cup
  {[NoCall EXCEPT !.op = "delete", !.id = i] : i \in Known}

(* guardedCall: the breaker admits the call, and the adapter runs at once  *)
(* in this process or sends its request to the service.                    *)
CallAdmitted(c) ==
  /\ call[c].pc = "idle"
  /\ Admits(GetState(cb, now))
  /\ cb' = Admit(GetState(cb, now))
  /\ \E r \in Requests :
       IF vault.kind = "aws"
         THEN /\ call' = [call EXCEPT ![c] = [r EXCEPT !.pc = "running", !.step = "service"]]
              /\ UNCHANGED <<store, deadlines, deleted>>
         ELSE Perform(c, [r EXCEPT !.pc = "running"])
  /\ UNCHANGED <<now, vault, refs, restarts, acked>>

CallRefused_Bypassed(c) ==
  /\ call[c].pc = "idle"
  /\ ~Admits(GetState(cb, now))
  /\ cb' = GetState(cb, now)
  /\ \E r \in Requests :
       call' = [call EXCEPT ![c] = [r EXCEPT !.pc = "running", !.step = "service"]]
  /\ UNCHANGED <<now, vault, store, refs, restarts, deadlines, deleted, acked>>

CallRefused(c) ==
  /\ call[c].pc = "idle"
  /\ ~Admits(GetState(cb, now))
  /\ cb' = GetState(cb, now)
  /\ \E r \in Requests :
       call' = [call EXCEPT ![c] = [r EXCEPT !.pc = "refused", !.step = "catch"]]
  /\ UNCHANGED <<now, vault, store, refs, restarts, deadlines, deleted, acked>>

(* External: the service acts and its answer arrives.                      *)
ServiceAnswers(c) ==
  /\ call[c].step = "service" /\ ~vault.down
  /\ Perform(c, call[c])
  /\ UNCHANGED <<cb, now, vault, refs, restarts, acked>>

(* The answer of an adapter whose request failed: read and delete catch    *)
(* the error, write and list let it through.                               *)
Swallowed_Acked(op) == CASE op = "read" -> "null" [] op = "delete" -> "true" [] OTHER -> "error"

Swallowed(op) == CASE op = "read" -> "null" [] op = "delete" -> "false" [] OTHER -> "error"

(* External: the service does not answer, and may have acted.  An entry of *)
(* a failed write is left out: nobody learns its id.                       *)
ServiceFails(c) ==
  /\ call[c].step = "service" /\ vault.down
  /\ Answer(c, call[c], Swallowed(call[c].op))
  /\ \/ UNCHANGED <<store, deleted>>
     \/ /\ call[c].op = "delete"
        /\ store' = [store EXCEPT ![call[c].id] = None]
        /\ deleted' = deleted \cup {call[c].id}
  /\ UNCHANGED <<cb, now, vault, refs, restarts, deadlines, acked>>

(* What is kept of a call that is over: the id that a write returned.      *)
Over(r, pc) ==
  IF r.op = "write" /\ pc = "ok"
    THEN [NoCall EXCEPT !.pc = pc, !.step = "done", !.op = r.op, !.id = r.id]
    ELSE [NoCall EXCEPT !.pc = pc, !.step = "done"]

(* The breaker hears of the outcome, and with a success so does the caller.*)
Succeeds(c) ==
  /\ call[c].step = "answered" /\ call[c].answer # "error"
  /\ cb' = OnSuccess(cb)
  /\ call' = [call EXCEPT ![c] = Over(@, "ok")]
  /\ acked' = IF call[c].answer = "true" THEN acked \cup {call[c].id} ELSE acked
  /\ UNCHANGED <<now, vault, store, refs, restarts, deadlines, deleted>>

Fails(c) ==
  /\ call[c].step = "answered" /\ call[c].answer = "error"
  /\ cb' = OnFailure(cb, now)
  /\ call' = [call EXCEPT ![c].step = "catch", ![c].pc = "failed"]
  /\ UNCHANGED <<now, vault, store, refs, restarts, deadlines, deleted, acked>>

(* The catch of guardedCall asks the breaker for its state, which may      *)
(* begin a HALF_OPEN period, and throws a VaultError.                      *)
Wraps(c) ==
  /\ call[c].step = "catch"
  /\ cb' = GetState(cb, now)
  /\ call' = [call EXCEPT ![c] = Over(@, @.pc)]
  /\ UNCHANGED <<now, vault, store, refs, restarts, deadlines, deleted, acked>>

(* generateRef, which bypasses the breaker, for an id just written.        *)
GenerateRef(c) ==
  /\ call[c].step = "done" /\ call[c].op = "write" /\ call[c].pc = "ok"
  /\ \E ttl \in RefTTLs :
       refs' = refs \cup {[id |-> call[c].id, expiry |-> now + ttl, key |-> vault.key,
                           process |-> restarts]}
  /\ call' = [call EXCEPT ![c].step = "issued"]
  /\ UNCHANGED <<cb, now, vault, store, restarts, deadlines, deleted, acked>>

(* The process ends and another one is started: the entries in memory are  *)
(* gone, and nobody waits for the calls it was making.                     *)
Restart ==
  /\ restarts < MaxRestarts
  /\ restarts' = restarts + 1
  /\ cb' = ResetBreaker
  /\ vault' = [vault EXCEPT !.key = KeyOf(vault.keyed, restarts')]
  /\ store' = IF vault.kind = "aws" THEN store ELSE [i \in Ids |-> None]
  /\ call' = [c \in Calls |->
       IF call[c].pc = "idle" THEN call[c]
       ELSE IF call[c].step = "service" /\ call[c].op = "delete"
         THEN [call[c] EXCEPT !.step = "orphan"]
       ELSE [Over(call[c], call[c].pc) EXCEPT !.step = "gone"]]
  /\ UNCHANGED <<now, refs, deadlines, deleted, acked>>

(* External: the service acts on a deletion whose sender has ended.        *)
OrphanActs(c) ==
  /\ call[c].step = "orphan" /\ ~vault.down
  /\ call' = [call EXCEPT ![c] = [Over(@, @.pc) EXCEPT !.step = "gone"]]
  /\ store' = [store EXCEPT ![call[c].id] = None]
  /\ deleted' = deleted \cup {call[c].id}
  /\ UNCHANGED <<cb, now, vault, refs, restarts, deadlines, acked>>

(* External: the service goes away or comes back.                          *)
Outage ==
  /\ vault.kind = "aws"
  /\ vault' = [vault EXCEPT !.down = ~@]
  /\ UNCHANGED <<cb, now, store, call, refs, restarts, deadlines, deleted, acked>>

Tick ==
  /\ now < MaxTime
  /\ now' = now + 1
  /\ UNCHANGED <<cb, vault, store, call, refs, restarts, deadlines, deleted, acked>>

Next ==
  \/ Tick \/ Restart \/ Outage
  \/ \E c \in Calls :
       \/ CallAdmitted(c) \/ CallRefused(c) \/ ServiceAnswers(c) \/ ServiceFails(c)
       \/ Succeeds(c) \/ Fails(c) \/ Wraps(c) \/ GenerateRef(c) \/ OrphanActs(c)

Spec == Init /\ [][Next]_vars

-------------------------------------------------------------------------------
TypeOK ==
  /\ cb \in BreakerRecord
  /\ now \in Nat /\ restarts \in Nat
  /\ vault \in [kind : Kinds, keyed : BOOLEAN, key : Nat \cup {None}, down : BOOLEAN]
  /\ store \in [Ids -> Entries \cup {None}]
  /\ call \in [Calls ->
       [pc : {"idle", "running", "ok", "failed", "refused"}, step : Steps \cup {None},
        op : Ops \cup {None}, id : Ids \cup {None}, late : BOOLEAN,
        answer : Answers \cup {None}]]
  /\ refs \subseteq [id : Ids, expiry : Nat, key : Nat \cup {None}, process : Nat]
  /\ deadlines \in [Ids -> Deadlines \cup {None}]
  /\ deleted \subseteq Ids /\ acked \subseteq Ids

(* A read that begins after a delete of the same id was answered true      *)
(* never returns the secret, although the AWS adapter turns every error of *)
(* read and delete into an ordinary answer (aws.ts:41-64).                 *)
DeleteIsFinal ==
  \A c \in Calls : call[c].late => call[c].answer # "value"

(* A reference and its entry have independent lifetimes (base.ts:64, 130). *)
(* Where verifyRef accepts a reference whose entry no longer resolves, the *)
(* entry was deleted or had its own deadline, or the memory was lost by a  *)
(* restart of an adapter that was given its key.                           *)
DanglingExplained ==
  \A ref \in refs :
    (Verifies(ref) /\ ~Resolves(ref.id)) =>
      \/ ref.id \in deleted
      \/ Past(deadlines[ref.id])
      \/ vault.keyed /\ vault.kind # "aws" /\ ref.process < restarts

(* And where verifyRef refuses one before its expiry, it was signed by a   *)
(* process that has ended and that made up its own key (base.ts:48).       *)
RefusedOnlyAfterRestart ==
  \A ref \in refs :
    (ref.expiry >= now /\ ~Verifies(ref)) => ~vault.keyed /\ ref.process < restarts

(* Where verifyRef and the store disagree about a reference, one of their  *)
(* lifetimes is why.                                                       *)
RefsExplained == TypeOK /\ DanglingExplained /\ RefusedOnlyAfterRestart

(* The calls of a wrapped vault drive the breaker as BreakerContract       *)
(* allows, although the catch of guardedCall looks at the state once more  *)
(* and a restart replaces the breaker under the calls (lines 12-25).       *)
Contract ==
  INSTANCE BreakerContract WITH
    pc <- [c \in Calls |-> call[c].pc], mode <- GateMode(cb),
    until <- GateUntil(cb), quota <- GateQuota(cb)

GuardsItsVault == Contract!Spec

===============================================================================
