--------------------------------- MODULE MCEdges ---------------------------------
(* Edges for TLC.                                                          *)
EXTENDS Edges

(* A URL with a password in it, and a key of its own.                      *)
WithinUrl == [s \in {"url", "pw", "key"} |-> IF s = "url" THEN {"pw"} ELSE {}]
RestOf == [s \in {"url", "pw", "key"} |-> s \o " rest"]
SomeTexts == {{}, {"pw"}, {"url", "key"}, {"pw", "url"}}
ByPattern == <<"pw", "url", "key">>

===============================================================================
