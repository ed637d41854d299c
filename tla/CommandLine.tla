------------------------------ MODULE CommandLine ------------------------------
(***************************************************************************)
(* The keyspot command (cli/src/index.ts): main reads its arguments, scans *)
(* the files below a path or those staged in git, one after the other,     *)
(* prunes them if asked to, and ends with an exit code.  Each scan is      *)
(* awaited between reading a file and writing it back, and other programs  *)
(* write files at any time.                                                *)
(*                                                                         *)
(* A file's text is the set of secrets it holds; Rest[s] is what is left   *)
(* of s in clear when a secret inside its text was masked first.           *)
(***************************************************************************)
EXTENDS Naturals, Sequences, FiniteSets, SequencesExt

CONSTANTS
  Files,        (* those that walkDir reaches                               *)
  FileSecrets,
  Within,       (* [FileSecrets -> the secrets whose text is part of it]    *)
  Rest,         (* [FileSecrets -> what is no secret to any pattern]        *)
  MatchOrder,   (* FileSecrets in the order of the patterns that find them  *)
  Texts,        (* what files are written with                              *)
  MaxEdits      (* bound on the writes of other programs                    *)

ASSUME CommandLineAssumption ==
  /\ IsFiniteSet(Files)
  /\ MatchOrder \in Seq(FileSecrets) /\ Range(MatchOrder) = FileSecrets
  /\ Within \in [FileSecrets -> SUBSET FileSecrets]
  /\ DOMAIN Rest = FileSecrets /\ Range(Rest) \cap FileSecrets = {}
  /\ Texts \subseteq SUBSET FileSecrets /\ MaxEdits \in Nat

VARIABLES
  args,      (* [first: args[1] of a scan, and which options are there]     *)
  access,    (* [Files -> "ok", "read_only", "unreadable", "oversized"]     *)
  disk,      (* [Files -> the secrets, or Rests of them, in working tree]   *)
  index,     (* [Files -> the secrets staged, or "unstaged"]                *)
  todo,      (* the files still to be scanned                               *)
  reading,   (* the file being scanned and its text, or Nothing             *)
  total,     (* totalMatches > 0                                            *)
  exit,      (* "starting", "scanning", "0", "1"                            *)
  written,   (* how often other programs have written                       *)
  seen       (* history: [Files -> what was in it when it was read and has  *)
             (* not been written by others since]                           *)

commanding == <<args, access, disk, index, todo, reading, total, exit, written, seen>>

Nothing == [file |-> "none", text |-> {}]

CommandInit ==
  /\ args \in [first : {"path", "flag", "empty", "none"}, git : BOOLEAN,
               prune : BOOLEAN, json : BOOLEAN]
  /\ args.first = "path" => ~args.git
  /\ args.first # "path" => ~args.prune /\ ~args.json
  /\ args.first = "flag" => args.git
  /\ args.first = "none" => ~args.git
  /\ access \in [Files -> {"ok", "read_only", "unreadable", "oversized"}]
  /\ disk \in [Files -> Texts]
  /\ \E staged \in SUBSET Files :
       index = [f \in Files |-> IF f \in staged THEN disk[f] ELSE {"unstaged"}]
  /\ todo = {} /\ reading = Nothing
  /\ total = FALSE /\ exit = "starting"
  /\ written = 0
  /\ seen = [f \in Files |-> {}]

-------------------------------------------------------------------------------
GitMode == args.first \in {"empty", "none"} /\ args.git

(* What walkDir finds below the path, or git diff --cached names.          *)
ToScan ==
  IF args.first = "path" THEN Files
  ELSE IF GitMode THEN {f \in Files : index[f] # {"unstaged"}} ELSE {}

(* Options that make no difference to the command are left out of args.    *)
(* Which command it is: args[1] is taken for a path whenever it is not     *)
(* empty, and a path that is not there ends the program.                   *)
Main ==
  /\ exit = "starting"
  /\ exit' = IF args.first = "path" \/ GitMode THEN "scanning" ELSE "1"
  /\ todo' = ToScan
  /\ UNCHANGED <<args, access, disk, index, reading, total, seen, written>>

(* readFileSync; what throws is skipped.                                   *)
ReadFile(f) ==
  /\ exit = "scanning" /\ reading = Nothing /\ f \in todo
  /\ todo' = todo \ {f}
  /\ IF access[f] = "unreadable"
       THEN UNCHANGED <<reading, seen>>
       ELSE /\ reading' = [file |-> f, text |-> disk[f]]
            /\ seen' = [seen EXCEPT ![f] = disk[f]]
  /\ UNCHANGED <<args, access, disk, index, total, exit, written>>

(* guard.scan finds the whole secrets, in nothing that is oversized.       *)
Found ==
  IF access[reading.file] = "oversized" THEN {}
  ELSE LET whole == reading.text \cap FileSecrets
       IN  whole \cup UNION {Within[s] : s \in whole}

(* A plausible bug: the last match is replaced in what was read.           *)
Pruned_LastMatch(text) ==
  LET found == SelectSeq(MatchOrder, LAMBDA s : s \in text)
  IN  IF found = <<>> THEN text ELSE text \ {Last(found)}

(* replaceAll of a match; a secret around it is found no more after that.  *)
ReplaceMatch(text, s) ==
  LET around == {o \in text \cap FileSecrets : s \in Within[o]}
  IN  (text \ ({s} \cup around)) \cup {Rest[o] : o \in around}

(* One match after the other.                                              *)
Pruned(text) == FoldLeft(ReplaceMatch, text, MatchOrder)

Pruning == args.first = "path" /\ args.prune /\ ~args.json

(* The scan has returned.  With --prune the text that was read is written  *)
(* back without its secrets; a write that throws is passed over.           *)
HandleFile ==
  /\ reading # Nothing
  /\ total' = (total \/ Found # {})
  /\ IF Pruning /\ Found # {} /\ access[reading.file] # "read_only"
       THEN disk' = [disk EXCEPT ![reading.file] = Pruned(reading.text)]
       ELSE UNCHANGED disk
  /\ reading' = Nothing
  /\ UNCHANGED <<args, access, index, todo, exit, seen, written>>

Finish ==
  /\ exit = "scanning" /\ reading = Nothing /\ todo = {}
  /\ exit' = IF total /\ (GitMode \/ ~args.prune) THEN "1" ELSE "0"
  /\ UNCHANGED <<args, access, disk, index, todo, reading, total, seen, written>>

(* Another program writes a file of the working tree.                      *)
OtherWrites(f) ==
  /\ written < MaxEdits /\ written' = written + 1
  /\ \E text \in Texts : disk' = [disk EXCEPT ![f] = text]
  /\ seen' = [seen EXCEPT ![f] = {}]
  /\ UNCHANGED <<args, access, index, todo, reading, total, exit>>

CommandNext ==
  \/ Main \/ HandleFile \/ Finish
  \/ \E f \in Files : ReadFile(f) \/ OtherWrites(f)

-------------------------------------------------------------------------------
(* Exit code 0 of a scan of a path means that no secret that was read is   *)
(* still there in whole, whatever other programs did meanwhile, in a file  *)
(* within the size limit; after --prune only where it could not be         *)
(* replaced, or with --json, which does not prune.                         *)
ExitMeansClean ==
  exit = "0" /\ args.first = "path" =>
    \A f \in Files : \A s \in FileSecrets \cap seen[f] \cap disk[f] :
      \/ access[f] = "oversized"
      \/ args.prune /\ (args.json \/ access[f] = "read_only")

===============================================================================
