--------------------------------- MODULE MCGuard ---------------------------------
(* Guard for TLC.                                                          *)
EXTENDS Guard

(* Three events, of which two have the same JSON text.                     *)
SomeEvents ==
  { EventOf("scan", NoPart, NoPart), EventOf("check", NoPart, NoPart),
    EventOf("check", "forged", "undefined") }

(* A two-character secret, a window of three, and chunks that hold all,    *)
(* half or none of it.                                                     *)
SecretText == <<"k", "y">>
ChunkTexts == {<<>>, <<"k">>, <<"y">>, <<"x", "k", "y">>, <<"k", "y", "k", "y">>}

TTLs == {-1, 0, 2, 6}

(* Two names that become one keyword, a severe pattern that an update      *)
(* makes harmless, a host's array that is empty, and one with a name twice;*)
(* updates with null or an element without a name, first and last.         *)
KeywordOf == [n \in {"a_b", "a b", "c"} |-> IF n = "c" THEN "c" ELSE "a b"]
PatternOf(n, s) == [name |-> n, severe |-> s]
SomePatterns == {PatternOf("a_b", TRUE), PatternOf("a_b", FALSE), PatternOf("c", TRUE)}
BuiltIn == << PatternOf("a_b", TRUE) >>
SomeHostLists == {<<>>, << PatternOf("a_b", TRUE), PatternOf("a_b", FALSE) >>}
Answers ==
  { << PatternOf("a_b", FALSE), PatternOf("c", TRUE) >>,
    << PatternOf("c", TRUE), Null >>, << Null >>,
    << PatternOf(NoName, TRUE), PatternOf("a_b", TRUE) >> }

(* Keywords that are prefixes, suffixes and middles of one another, that   *)
(* occur twice, that are empty, and that hold an astral character.         *)
Keywordings ==
  { <<>>,
    << <<"a", "b">>, <<"b">>, <<"a", "b", "a">>, <<"b">> >>,
    << <<"a", "a", "b">>, <<"a", "b", "b">>, <<"b", "b">>, <<>> >>,
    << <<"a", "b", "a", "b">>, <<"b", "a", "a">>, <<"A", "b">>, <<"a", "A">> >>,
    << <<"a", "a", "a", "b">>, <<"a", "a">> >> }

(* One blocking rule among the defaults, one among the custom ones; a      *)
(* match at the start, in the middle and twice in a prompt.                *)
Defaults == <<"base64_encode", "jailbreak_attempt">>
Customs  == <<"company_name", "company_secret">>
Plain == [r \in {"base64_encode", "jailbreak_attempt", "company_name", "company_secret"} |-> {}]
SomePrompts ==
  { Plain,
    [Plain EXCEPT !["jailbreak_attempt"] = {<<0, 5>>}, !["base64_encode"] = {<<5, 7>>}],
    [Plain EXCEPT !["base64_encode"] = {<<0, 3>>}, !["company_secret"] = {<<1, 4>>, <<6, 9>>}],
    [Plain EXCEPT !["company_secret"] = {<<4, 6>>}],
    [Plain EXCEPT !["company_secret"] = {<<0, 2>>}, !["company_name"] = {<<0, 2>>}],
    [Plain EXCEPT !["company_name"] = {<<3, 5>>}] }

(* States of three objects, each of which holds the next one, and one or   *)
(* two members: texts that fit and texts of which two do not, objects held *)
(* twice and objects within themselves.                                    *)
ShortText == [text |-> 1]
LongText  == [text |-> 3]
Member == {ShortText, LongText} \cup [object : 1..3]
Memberships == {<<m>> : m \in Member} \cup {<<m, n>> : m \in Member, n \in Member}
Hold(ms, o) == [object |-> o] \in Range(ms)
SomeStates ==
  {s \in [kind : {[o \in 1..3 |-> "object"], [o \in 1..3 |-> IF o = 2 THEN "object" ELSE "array"]},
          members : [1..3 -> Memberships]] :
     /\ Hold(s.members[1], 2) /\ Hold(s.members[2], 3)
     /\ Hold(s.members[1], 3) => s.members[1][1] = [object |-> 2]}

===============================================================================
