------------------------------- MODULE Wrappers -------------------------------
(***************************************************************************)
(* The wrappers that put a KeySpot between an agent and a model, an agent  *)
(* framework or a vector store (frameworks/src, adapters/src): a call's    *)
(* pieces are checkpointed, in parallel or one after the other, the call   *)
(* is forwarded, and pieces of the answer are checkpointed on their way    *)
(* back.  The wrapped service is external.                                 *)
(*                                                                         *)
(* A checkpoint is its outcome: it masks or vaults what is secret, rejects, *)
(* or, with the strategy 'remove', leaves nothing at the piece's path.     *)
(***************************************************************************)
EXTENDS Naturals, FiniteSets

CONSTANTS Strategies   (* the pruneStrategy the guard may have              *)

ASSUME WrappersAssumption ==
  Strategies \subseteq {"vault_with_taint", "redact", "remove", "replace"}

VARIABLES
  shape,     (* the wrapper: which pieces a call has and how they are treated *)
  strategy,  (* the guard's pruneStrategy                                   *)
  content,   (* [pieces -> what a piece holds at first: "secret", "clean"]  *)
  form,      (* [pieces -> "waiting" for its checkpoint, or what it holds   *)
             (* after it: "secret", "clean"; "failed" when it rejected]     *)
  service,   (* "idle", "called", "answered", "failed"                      *)
  sent,      (* what the service was given: [inbound pieces -> form]        *)
  call       (* "pending", "resolved", "rejected"                           *)

wrapping == <<shape, strategy, content, form, service, sent, call>>

-------------------------------------------------------------------------------
(* The wrappers.  in, out: the pieces of a call and of its answer.         *)
(* opaque: pieces of a kind the wrapper passes on as they are.  text: those *)
(* that checkpointText or sanitizeDocuments wraps in an object and unwraps. *)
(* after: the pieces that must be clean before a piece's checkpoint begins. *)

Parallel == [p \in 1 .. 6 |-> {}]

(* Two string messages and one with an array; a choice's content, and then *)
(* the arguments of its two tool calls.                                    *)
OpenAI ==
  [in |-> 1 .. 3, opaque |-> {3}, out |-> 4 .. 6, text |-> {1, 2, 4, 5, 6},
   after |-> [Parallel EXCEPT ![5] = {4}, ![6] = {4}]]

(* The system prompt, then a text block, a tool result and an image; a     *)
(* text block and a tool use.                                              *)
Anthropic ==
  [in |-> 1 .. 4, opaque |-> {4, 6}, out |-> 5 .. 6, text |-> {1, 2, 3, 5},
   after |-> [Parallel EXCEPT ![2] = {1}, ![3] = {1}]]

(* The input is passed on; the whole result is one state.                  *)
Agent == [in |-> {1}, opaque |-> {1}, out |-> {4}, text |-> {}, after |-> Parallel]
WithKeySpot == Agent
WrapHermesAgent == Agent
WrapOpenClawAgent == Agent
KeySpotWrap == Agent

(* sanitizeDocuments: one record after the other, string ones wrapped; the *)
(* store's answer is passed on.                                            *)
Sanitized(records, strings) ==
  [in |-> records, opaque |-> {4}, out |-> {4}, text |-> strings,
   after |-> [p \in 1 .. 6 |-> IF p \in records THEN 1 .. p - 1 ELSE {}]]

CoreSanitized == Sanitized(1 .. 3, {1, 2})
Chroma   == Sanitized(1 .. 3, {1, 2})   (* two documents, then their metadata *)
Qdrant   == Sanitized(1 .. 2, {})
Milvus   == Sanitized(1 .. 2, {})
Pinecone == Sanitized(1 .. 2, {})
LanceDB  == Sanitized(1 .. 2, {})
Weaviate == Sanitized({1}, {})          (* the payload, without a wrapper   *)

(* guardAgent wraps the first entry point it knows, and nothing otherwise. *)
Unwrapped == [in |-> {1}, opaque |-> {1, 4}, out |-> {4}, text |-> {}, after |-> Parallel]

Detected(entryPoints) ==
  CASE "messages.create" \in entryPoints -> Anthropic
    [] "chat.completions.create" \in entryPoints /\ "messages.create" \notin entryPoints -> OpenAI
    [] entryPoints \in {{"invoke"}, {"invoke", "run"}} -> WithKeySpot
    [] entryPoints = {"run"} -> WrapHermesAgent
    [] entryPoints = {} -> Unwrapped

GuardAgent ==
  {Detected(e) : e \in SUBSET {"messages.create", "chat.completions.create", "invoke", "run"}}

Shapes ==
  GuardAgent \cup
  {WrapOpenClawAgent, KeySpotWrap, CoreSanitized, Chroma, Qdrant, Milvus, Pinecone, LanceDB, Weaviate}

Pieces == shape.in \cup shape.out

-------------------------------------------------------------------------------
WrapInit ==
  /\ shape \in Shapes
  /\ strategy \in Strategies
  /\ content \in [1 .. 6 -> {"secret", "clean"}]
  /\ \A p \in 1 .. 6 \ shape.in : content[p] = "clean"
  /\ form = [p \in 1 .. 6 |-> IF p \in shape.opaque THEN content[p] ELSE "waiting"]
  /\ service = "idle"
  /\ sent = [p \in {} |-> "clean"]
  /\ call = "pending"

Passed(pieces) == \A p \in pieces : form[p] \in {"secret", "clean"}

(* Is the checkpoint of p running?  It began as soon as what precedes it   *)
(* was done, and goes on when the call has been rejected meanwhile.        *)
Checking(p) ==
  /\ form[p] = "waiting"
  /\ Passed(shape.after[p])
  /\ p \in shape.in \/ (p \in shape.out /\ service = "answered")

(* What checkpoint() left of a piece.  A removed string is undefined, and  *)
(* checkpointText then falls back to the text it was given.                *)
Checkpointed(p) ==
  IF content[p] = "secret" /\ p \in shape.text /\ strategy = "remove"
    THEN "secret" ELSE "clean"

CheckPasses(p) ==
  /\ Checking(p)
  /\ form' = [form EXCEPT ![p] = Checkpointed(p)]
  /\ UNCHANGED <<shape, strategy, content, service, sent, call>>

(* The checkpoint rejects, and with it the call.                           *)
CheckFails(p) ==
  /\ Checking(p)
  /\ form' = [form EXCEPT ![p] = "failed"]
  /\ call' = "rejected"
  /\ UNCHANGED <<shape, strategy, content, service, sent>>

(* A plausible bug: the call does not wait for the checkpoints.            *)
Forward_Unawaited ==
  /\ service = "idle" /\ call = "pending"
  /\ service' = "called"
  /\ sent' = [p \in shape.in |-> IF form[p] = "waiting" THEN content[p] ELSE form[p]]
  /\ UNCHANGED <<shape, strategy, content, form, call>>

(* All inbound checkpoints have passed: the original method is called.     *)
Forward ==
  /\ service = "idle" /\ Passed(shape.in)
  /\ service' = "called"
  /\ sent' = [p \in shape.in |-> form[p]]
  /\ UNCHANGED <<shape, strategy, content, form, call>>

(* The service answers, or fails; a stream has no pieces to read, which    *)
(* throws.                                                                 *)
ServiceAnswers ==
  /\ service = "called"
  /\ service' = "answered"
  /\ \E answer \in [shape.out -> {"secret", "clean"}] :
       /\ content' = [p \in 1 .. 6 |-> IF p \in shape.out THEN answer[p] ELSE content[p]]
       /\ form' = [p \in 1 .. 6 |->
            IF p \in shape.out \cap shape.opaque THEN answer[p] ELSE form[p]]
  /\ UNCHANGED <<shape, strategy, sent, call>>

ServiceFails ==
  /\ service = "called"
  /\ service' = "failed"
  /\ call' = "rejected"
  /\ UNCHANGED <<shape, strategy, content, form, sent>>

Resolve ==
  /\ service = "answered" /\ call = "pending" /\ Passed(shape.out)
  /\ call' = "resolved"
  /\ UNCHANGED <<shape, strategy, content, form, service, sent>>

WrapNext ==
  \/ Forward \/ ServiceAnswers \/ ServiceFails \/ Resolve
  \/ \E p \in Pieces : CheckPasses(p) \/ CheckFails(p)

-------------------------------------------------------------------------------
(* The service never sees, and the agent never gets back, a secret in a    *)
(* piece that the wrapper checks: whichever checkpoints fail or finish     *)
(* late, the call is forwarded only when all of them have passed.  A string *)
(* that was removed is the exception, see NoSecretForwarded.               *)
Excepted == shape.opaque \cup (IF strategy = "remove" THEN shape.text ELSE {})

OnlyOpaquePasses ==
  /\ \A p \in DOMAIN sent : sent[p] = "secret" => p \in Excepted
  /\ call = "resolved" => \A p \in shape.out : form[p] = "secret" => p \in Excepted

(* A call that failed a check stays away from the service: it is rejected, *)
(* its checkpoints that are still running change nothing, and a call that  *)
(* was answered has no failed piece (fail-closed, openai.ts:36-47).        *)
FailsClosed ==
  \A p \in Pieces : form[p] = "failed" =>
    call = "rejected" /\ (p \in shape.in => service = "idle")

(* A wrapper lets nothing past that it checks, whatever fails on the way.  *)
WrapsTight == OnlyOpaquePasses /\ FailsClosed

-------------------------------------------------------------------------------
(* openai.ts:22 "Wraps an OpenAI SDK client to scan chat inputs and outputs *)
(* through KeySpot": what was scanned and found secret is not sent on.     *)
NoSecretForwarded ==
  \A p \in DOMAIN sent \ shape.opaque : sent[p] # "secret"

===============================================================================
