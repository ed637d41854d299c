------------------------------ MODULE PromptShield ------------------------------
(***************************************************************************)
(* PromptShield (core/src/security.ts) and KeySpot.validatePrompt, which   *)
(* asks it: a list of rules, tried in order on a prompt.  Shields that are *)
(* given the same custom rules share their RegExp objects, and a RegExp    *)
(* with the flag g remembers in lastIndex where its last match ended and   *)
(* looks only behind it, in whatever text comes next.                      *)
(***************************************************************************)
EXTENDS Naturals, Sequences, FiniteSets, SequencesExt

CONSTANTS
  Shields,      (* KeySpot instances                                        *)
  DefaultRules, (* sequences of rules, tried in this order                  *)
  CustomRules,
  Blocking,     (* the rules with severity 'block'                          *)
  Global,       (* the rules whose pattern has the flag g                   *)
  Prompts       (* records: for each rule the set of its matches in the     *)
                (* prompt, as pairs <<start, end>> that do not overlap      *)

ASSUME PromptShieldAssumption ==
  /\ IsFiniteSet(Shields)
  /\ DefaultRules \in Seq(Range(DefaultRules)) /\ CustomRules \in Seq(Range(CustomRules))
  /\ Global \subseteq Range(CustomRules)
  /\ \A p \in Prompts, r \in Range(DefaultRules \o CustomRules) :
       \A m \in p[r] : m[1] \in Nat /\ m[2] \in Nat /\ m[1] < m[2]

VARIABLES
  rules,      (* [Shields -> its rules, in order; none without a shield]    *)
  lastIndex,  (* [Global -> its lastIndex]                                  *)
  answer,     (* the last answer of validatePrompt, and what it was for     *)
  foundLast   (* history: the rules whose last test found a match           *)

shielding == <<rules, lastIndex, answer, foundLast>>

ShieldInit ==
  /\ rules \in [Shields -> {<<>>, DefaultRules, DefaultRules \o CustomRules}]
  /\ lastIndex = [r \in Global |-> 0]
  /\ answer = [rules |-> <<>>, prompt |-> CHOOSE p \in Prompts : TRUE,
               findings |-> {}, blocked |-> FALSE, foundBefore |-> {}]
  /\ foundLast = {}

-------------------------------------------------------------------------------
(* The matches pattern.test finds first: all, or those behind lastIndex.   *)
InReach(r, p) ==
  IF r \in Global THEN {m \in p[r] : m[1] >= lastIndex[r]} ELSE p[r]

Tests(r, p) == InReach(r, p) # {}

FirstEnd(r, p) ==
  (CHOOSE m \in InReach(r, p) : \A n \in InReach(r, p) : m[1] <= n[1])[2]

(* A plausible bug: the loop ends at the first finding.                    *)
Tested_UntilFound(s, p) ==
  {rules[s][i] : i \in {k \in DOMAIN rules[s] : \A j \in 1 .. k - 1 : ~Tests(rules[s][j], p)}}

(* The rules analyze tries: all of them.                                   *)
Tested(s, p) == Range(rules[s])

(* analyze runs to its end without giving way, so the answer of one shield *)
(* is one step; lastIndex is set behind the match, or to 0.                *)
ValidatePrompt(s, p) ==
  LET findings == {r \in Tested(s, p) : Tests(r, p)}
  IN  /\ lastIndex' = [r \in Global |->
           IF r \in findings THEN FirstEnd(r, p)
           ELSE IF r \in Tested(s, p) THEN 0 ELSE lastIndex[r]]
      /\ answer' = [rules |-> rules[s], prompt |-> p, findings |-> findings,
                    blocked |-> findings \cap Blocking # {}, foundBefore |-> foundLast]
      /\ foundLast' = (foundLast \ Tested(s, p)) \cup findings
      /\ UNCHANGED rules

ShieldNext == \E s \in Shields, p \in Prompts : ValidatePrompt(s, p)

-------------------------------------------------------------------------------
(* A prompt that a blocking rule of the shield matches is let through only *)
(* when every such rule is a custom one with the flag g that found a match *)
(* in the prompt tested before it, by whichever instance: no rule misses   *)
(* twice in a row, and no finding hides another (security.ts:41-48).       *)
PassesOnlyAfterFound ==
  LET hit == {r \in Blocking \cap Range(answer.rules) : answer.prompt[r] # {}}
  IN  hit # {} /\ ~answer.blocked => hit \subseteq Global \cap answer.foundBefore

===============================================================================
