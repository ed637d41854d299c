------------------------------- MODULE StreamScan -------------------------------
(***************************************************************************)
(* Scanner.scanStream (core/src/scanner.ts): a rolling window of the       *)
(* latest tokens, shared by every stream of one Scanner.  A call appends   *)
(* its tokens, cuts the window and scans it up to an await; when it        *)
(* resumes it filters what it found by the window of that moment, which    *)
(* other calls or a clear may have changed.                                *)
(*                                                                         *)
(* Text is a sequence of symbols, and one pattern, Secret, stands for the  *)
(* regular expressions.  Secret must not overlap itself, so that its       *)
(* leftmost matches are all its occurrences.                               *)
(***************************************************************************)
EXTENDS Integers, Sequences, FiniteSets, SequencesExt

CONSTANTS
  Streams,     (* scanStream calls that can be in progress at once          *)
  Symbols,     (* the characters that occur                                 *)
  Secret,      (* the text the pattern matches                              *)
  Window,      (* streamWindowSize                                          *)
  Chunks,      (* the tokens and contexts a caller passes                   *)
  MaxCalls     (* bound on the calls and clears of a behaviour              *)

ASSUME StreamAssumption ==
  /\ IsFiniteSet(Streams)
  /\ Window \in Nat /\ Secret \in Seq(Symbols) /\ Len(Secret) \in 1 .. Window
  /\ Chunks \subseteq Seq(Symbols)
  /\ MaxCalls \in Nat
  /\ \A i \in 2 .. Len(Secret) : Secret[i] # Secret[1]

VARIABLES
  streamBuffer, (* the window                                               *)
  stream,       (* [Streams -> idle, or scanning with its tokens and what   *)
                (* it found: the number of matches]                         *)
  calls,        (* calls and clears so far                                  *)
  fed,          (* history: everything fed since the buffer was last clear  *)
  owed,         (* history: per call, the secrets its tokens completed that *)
                (* fit the window                                           *)
  met,          (* history: calls whose window another step changed         *)
  report        (* the matches the last finished call returned, and whose   *)

streaming == <<streamBuffer, stream, calls, fed, owed, met, report>>

Idle == [at |-> "idle", tokens |-> <<>>, found |-> 0]

StreamInit ==
  /\ streamBuffer = <<>>
  /\ stream = [s \in Streams |-> Idle]
  /\ calls = 0
  /\ fed = <<>>
  /\ owed = [s \in Streams |-> 0]
  /\ met = {}
  /\ report = [of |-> {}, found |-> 0]

-------------------------------------------------------------------------------
(* The positions at which Secret ends in a text.                           *)
Ends(text) ==
  {e \in Len(Secret) .. Len(text) : SubSeq(text, e - Len(Secret) + 1, e) = Secret}

(* A plausible bug: the window keeps its head.                             *)
LastOf_Head(text) == IF Len(text) > Window THEN SubSeq(text, 1, Window) ELSE text

(* slice(-streamWindowSize).                                               *)
LastOf(text) ==
  IF Len(text) > Window THEN SubSeq(text, Len(text) - Window + 1, Len(text)) ELSE text

(* The buffer scanStream appends to: a context counts only on an empty one.*)
Seeded(context) ==
  IF context # <<>> /\ streamBuffer = <<>> THEN LastOf(context) ELSE streamBuffer

Busy == {s \in Streams : stream[s].at = "scanning"}

(* scanStream up to its await.                                             *)
ScanStream(s) ==
  /\ stream[s] = Idle
  /\ calls < MaxCalls
  /\ \E tokens, context \in Chunks :
       LET before == Seeded(context)
           whole  == before \o tokens
           buffer == LastOf(whole)
       IN /\ streamBuffer' = buffer
          /\ stream' = [stream EXCEPT ![s] =
               [at |-> "scanning", tokens |-> tokens, found |-> Cardinality(Ends(buffer))]]
          /\ fed' = (IF streamBuffer = <<>> THEN context ELSE fed) \o tokens
          /\ owed' = [owed EXCEPT ![s] =
               Cardinality({e \in Ends(fed') : e > Len(fed') - Len(tokens)
                                            /\ e > Len(fed') - Window + Len(Secret) - 1})]
  /\ calls' = calls + 1
  /\ met' = IF Busy = {} THEN met \ {s} ELSE met \cup Busy \cup {s}
  /\ UNCHANGED report

(* A match is kept when the call fed no tokens or its text is still in the *)
(* window; it need not be new.                                             *)
Kept(s) ==
  IF stream[s].tokens = <<>> \/ Ends(streamBuffer) # {} THEN stream[s].found ELSE 0

(* The call resumes, filters and answers.                                  *)
ReturnMatches(s) ==
  /\ stream[s].at = "scanning"
  /\ report' = [of |-> {s}, found |-> Kept(s)]
  /\ stream' = [stream EXCEPT ![s] = Idle]
  /\ UNCHANGED <<streamBuffer, calls, fed, owed, met>>

(* clearStreamBuffer and resetStream.                                      *)
ClearStreamBuffer ==
  /\ calls < MaxCalls
  /\ streamBuffer' = <<>>
  /\ fed' = <<>>
  /\ calls' = calls + 1
  /\ met' = met \cup Busy
  /\ UNCHANGED <<stream, owed, report>>

StreamNext ==
  \/ ClearStreamBuffer
  \/ \E s \in Streams : ScanStream(s) \/ ReturnMatches(s)

-------------------------------------------------------------------------------
(* Whatever has been fed and cleared before, a call that no other overlaps *)
(* reports every secret that its tokens complete and that fits the window, *)
(* the ones that began in earlier chunks or in the context included.       *)
NothingMissed == \A s \in report.of \ met : stream[s] = Idle => report.found >= owed[s]

===============================================================================
