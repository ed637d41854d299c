---------------------------- MODULE MCPersistedAudit ----------------------------
(* PersistedAudit for TLC.                                                 *)
EXTENDS PersistedAudit

(* An event of which a file keeps less than memory does.                   *)
SomeEvents == {EventOf(<<"e1">>, NoPart, "undefined")}

===============================================================================
