------------------------------ MODULE ClaudeCode ------------------------------
(***************************************************************************)
(* The integration with Claude Code: `awayteam install claude-code`        *)
(* (cmdInstall in cmd/awayteam/main.go), which adds hook commands to the   *)
(* user's settings.json, and `awayteam hook stop`, which Claude Code then  *)
(* runs at the end of a turn and which posts the last answer of the        *)
(* transcript (internal/hook/hook.go).                                     *)
(*                                                                         *)
(* Installs may overlap, with each other and with edits of the file by the *)
(* user or by Claude Code. The transcript is a file Claude Code appends    *)
(* lines to; a hook may find the last ones not yet written.                *)
(*                                                                         *)
(* Definitions every module has carry Claude in their names, so that       *)
(* proofs can extend this module beside Serve.                             *)
(***************************************************************************)
EXTENDS Naturals, Sequences, FiniteSets, FiniteSetsExt, SequencesExt

CONSTANTS
  Installs,    (* runs of install                                          *)
  Paths,       (* the paths awayteam has been installed at                 *)
  HookNames,   (* the keys of wantHooks, or some of them                   *)
  Malformed,   (* a value of hooks[hookName] that is no list               *)
  NoPath,
  MaxEdits,    (* bound: edits of settings.json by others                  *)
  MaxLines     (* bound: lines of the transcript                           *)

ASSUME ClaudeCodeAssumption ==
  /\ "Stop" \in HookNames /\ NoPath \notin Paths
  /\ Malformed \notin Seq([form : {"other", "lookalike", "nested", "flat"},
                          path : Paths \cup {NoPath}])
  /\ MaxEdits \in Nat /\ MaxLines \in Nat

(* An entry of a hook list: another command; one that is not awayteam's    *)
(* but ends in the same " hook <type>", nested under "hooks"; one of       *)
(* awayteam, nested as install writes it; or one of awayteam in the flat   *)
(* form README.md:132 gives.                                               *)
Other == [form |-> "other", path |-> NoPath]
Lookalike == [form |-> "lookalike", path |-> NoPath]
Nested(path) == [form |-> "nested", path |-> path]
Flat == [form |-> "flat", path |-> NoPath]

(* What a settings file holds: `keys` stands for the user's other          *)
(* settings, by the edit that wrote them and by whether there is a number  *)
(* among them that a float64 does not hold, and then, no longer is.        *)
Keys(edit, numbers) == [edit |-> edit, numbers |-> numbers]
NoSettings == [keys |-> Keys(0, "exact"), hooks |-> [n \in HookNames |-> <<>>]]
Whole(settings) == [kind |-> "whole", settings |-> settings]
Without(kind) == [kind |-> kind, settings |-> NoSettings]

VARIABLES
  file,        (* settings.json: missing, whole, empty (truncated) or torn *)
  begun,       (* the hook lists the user began with                       *)
  own,         (* the user's other settings, as last edited                *)
  install,     (* where each install is                                    *)
  copy,        (* the settings it has read and changed                     *)
  stale,       (* installs whose file has changed since they opened it     *)
  harm,        (* what has gone wrong: a write was cut off, or raced       *)
  lines,       (* the transcript: lines with an answer, silent ones, and   *)
               (* ones longer than the 1 MB the scanner's buffer holds     *)
  turns,       (* the length of the transcript at the end of each turn     *)
  waiting,     (* Stop hooks of the last turn that have not ended          *)
  posted,      (* the answers posted: at which turn, from which line       *)
  excused      (* turns whose hook did not run, came early or lost its post *)

installVars == <<file, begun, own, install, copy, stale, harm>>
turnVars == <<lines, turns, waiting, posted, excused>>
claudeVars == <<installVars, turnVars>>

(* A "hooks" that is no object is a file with no list under any name.      *)
BeginLists == {<<>>, <<Other>>, <<Lookalike>>, <<Flat>>, Malformed}

ClaudeInit ==
  /\ begun \in [HookNames -> BeginLists]
  /\ own \in {Keys(0, "exact"), Keys(0, "large")}
  /\ file \in {Without("missing"), Whole([keys |-> own, hooks |-> begun])}
  /\ file.kind = "missing" => begun = NoSettings.hooks /\ own = NoSettings.keys
  /\ install = [i \in Installs |-> "off"]
  /\ copy = [i \in Installs |-> NoSettings]
  /\ stale = {} /\ harm = {}
  /\ lines = <<>> /\ turns = <<>> /\ waiting = 0
  /\ posted = <<>> /\ excused = {}

-----------------------------------------------------------------------------
(* awayteam install claude-code *)

(* Faulty variant: the whole command is compared, with its path. *)
ContainsExactly(list, path) ==
  list # Malformed /\ \E k \in DOMAIN list : list[k] = Nested(path)

(* hookListContainsCommand: of the commands under "hooks", the suffix      *)
(* " hook <type>" is compared, so that anybody's command with it will do.  *)
ContainsCommand(list, path) ==
  list # Malformed /\ \E k \in DOMAIN list : list[k].form \in {"nested", "lookalike"}

(* Faulty variant: the entry replaces the list. *)
WithHooksReplacing(settings, path) ==
  [settings EXCEPT !.hooks =
     [n \in HookNames |->
        IF ContainsCommand(@[n], path) THEN @[n] ELSE <<Nested(path)>>]]

(* The loop over wantHooks; a value that is no list is replaced. *)
WithHooks(settings, path) ==
  [settings EXCEPT !.hooks =
     [n \in HookNames |->
        IF ContainsCommand(@[n], path) THEN @[n]
        ELSE Append(IF @[n] = Malformed THEN <<>> ELSE @[n], Nested(path))]]

(* readJSONFile: a number is parsed to the float64 nearest to it.          *)
Rounded(keys) == [keys EXCEPT !.numbers = IF @ = "large" THEN "rounded" ELSE @]
Parsed(settings) == [settings EXCEPT !.keys = Rounded(@)]

(* The file is read. One that does not parse is fatal; there may be        *)
(* nothing to add; else the copy with the hooks added is to be written, or *)
(* with --dry-run only printed.                                            *)
ReadSettings(i, path) ==
  LET result == WithHooks(Parsed(file.settings), path)
      parses == file.kind \in {"missing", "whole"}
      added == result.hooks # file.settings.hooks
  IN  /\ install[i] = "off"
      /\ \/ /\ parses /\ added
            /\ install' = [install EXCEPT ![i] = "writing"]
            /\ copy' = [copy EXCEPT ![i] = result]
         \/ /\ \E end \in IF ~parses THEN {"failed"}
                        ELSE IF ~added THEN {"done"} ELSE {"printed"} :
                 install' = [install EXCEPT ![i] = end]
            /\ UNCHANGED copy
      /\ UNCHANGED <<file, begun, own, stale, harm, turnVars>>

(* Every install that has read or opened the file but not i is now behind. *)
FileBecomes(i, f) ==
  /\ file' = f
  /\ stale' = (stale \ {i}) \cup {j \in Installs \ {i} : install[j] \in {"writing", "truncated"}}
  /\ harm' = IF i \in stale THEN harm \cup {"raced"} ELSE harm

Ends(i, how) ==
  /\ install' = [install EXCEPT ![i] = how]
  /\ copy' = [copy EXCEPT ![i] = NoSettings]

(* os.WriteFile opens with O_TRUNC, or fails to. *)
Truncate(i) ==
  /\ install[i] = "writing"
  /\ install' = [install EXCEPT ![i] = "truncated"]
  /\ FileBecomes(i, Without("empty"))
  /\ UNCHANGED <<begun, own, copy, turnVars>>

OpenFails(i) ==
  /\ install[i] = "writing"
  /\ Ends(i, "failed")
  /\ stale' = stale \ {i}
  /\ UNCHANGED <<file, begun, own, harm, turnVars>>

(* The bytes are written from the start of the file; others that are there *)
(* by now may be longer.                                                   *)
Write(i) ==
  /\ install[i] = "truncated"
  /\ Ends(i, "done")
  /\ \/ FileBecomes(i, Whole(copy[i]))
     \/ /\ file \notin {Without("empty"), Whole(copy[i])}
        /\ FileBecomes(i, Without("torn"))
  /\ UNCHANGED <<begun, own, turnVars>>

(* The write fails, or the process is killed before or in the middle of it. *)
WriteCut(i) ==
  /\ install[i] = "truncated"
  /\ Ends(i, "failed")
  /\ \E f \in {file, Without("torn")} : file' = f
  /\ harm' = harm \cup {"cut"}
  /\ stale' = stale \ {i}
  /\ UNCHANGED <<begun, own, turnVars>>

(* The user, or Claude Code, writes the other settings anew, in place. *)
EditSettings ==
  /\ own.edit < MaxEdits /\ file.kind \in {"missing", "whole"}
  /\ \E numbers \in {"exact", "large"} : own' = Keys(own.edit + 1, numbers)
  /\ file' = Whole([file.settings EXCEPT !.keys = own'])
  /\ stale' = stale \cup {j \in Installs : install[j] \in {"writing", "truncated"}}
  /\ UNCHANGED <<begun, install, copy, harm, turnVars>>

-----------------------------------------------------------------------------
(* Turns, and awayteam hook stop *)

(* A line of the transcript; the turn goes on. *)
WriteLine(kind) ==
  /\ waiting = 0 /\ Len(lines) < MaxLines
  /\ lines' = Append(lines, kind)
  /\ UNCHANGED <<installVars, turns, waiting, posted, excused>>

StopCommands == Cardinality({k \in DOMAIN file.settings.hooks["Stop"] :
                               file.settings.hooks["Stop"][k].form = "nested"})

(* The turn ends: Claude Code runs each Stop hook of its settings. *)
EndTurn ==
  /\ waiting = 0
  /\ Len(lines) > (IF turns = <<>> THEN 0 ELSE Last(turns))
  /\ turns' = Append(turns, Len(lines))
  /\ waiting' = IF file.settings.hooks["Stop"] = Malformed THEN 0 ELSE StopCommands
  /\ excused' = IF waiting' = 0 THEN excused \cup {Len(turns')} ELSE excused
  /\ UNCHANGED <<installVars, lines, posted>>

LastWhere(kind, upTo) ==
  LET found == {k \in 1 .. upTo : lines[k] = kind}
  IN  IF found = {} THEN 0 ELSE Max(found)

(* Faulty variant: the first answer is kept. *)
FirstAssistantMessage(upTo) ==
  LET found == {k \in 1 .. upTo : lines[k] = "answer"}
  IN  IF found = {} THEN 0 ELSE Min(found)

(* extractLastAssistantMessage on the first upTo lines: the line it takes  *)
(* the text of, or 0. The scanner stops for good at a line too long.       *)
LastAssistantMessage(upTo) ==
  LET tooLong == {k \in 1 .. upTo : lines[k] = "long"}
  IN  LastWhere("answer", IF tooLong = {} THEN upTo ELSE Min(tooLong) - 1)

(* A Stop hook finds the lines up to `seen` complete, and posts; without a *)
(* text it ends silently, and the request may fail silently.               *)
RunStopHook(seen, arrives) ==
  /\ waiting > 0
  /\ waiting' = waiting - 1
  /\ LET line == LastAssistantMessage(seen)
     IN  posted' = IF line = 0 \/ ~arrives THEN posted
                   ELSE Append(posted, [turn |-> Len(turns), line |-> line])
  /\ excused' = IF arrives /\ seen = Len(lines) THEN excused
                ELSE excused \cup {Len(turns)}
  /\ UNCHANGED <<installVars, lines, turns>>

-----------------------------------------------------------------------------

ClaudeNext ==
  \/ \E i \in Installs :
       \/ \E path \in Paths : ReadSettings(i, path)
       \/ Truncate(i) \/ OpenFails(i) \/ Write(i) \/ WriteCut(i)
  \/ EditSettings
  \/ \E kind \in {"answer", "silent", "long"} : WriteLine(kind)
  \/ EndTurn
  \/ \E seen \in {Len(lines), Len(lines) - 1}, arrives \in BOOLEAN : RunStopHook(seen, arrives)

ClaudeSpec == ClaudeInit /\ [][ClaudeNext]_claudeVars

-----------------------------------------------------------------------------

(* However many installs ran, from whatever paths, in whatever order, a    *)
(* hook list that is a list holds at most one entry of the form install    *)
(* writes (main.go:188, main.go:255): a later install finds the command of *)
(* an earlier one.                                                         *)
OneCommandEach ==
  \A n \in HookNames :
    LET list == file.settings.hooks[n]
    IN  list # Malformed =>
          \A j, k \in DOMAIN list : list[j].form = "nested" /\ list[k].form = "nested" => j = k

(* What main.go:252 says of hookListContainsCommand, "checks if a hook     *)
(* list already contains a command matching the given one", of lists that  *)
(* may hold the command in the form README.md:132 gives: no hook list is   *)
(* given a second command of awayteam. The flat form is not looked at, and *)
(* the list ends with both.                                                *)
OneCommandOfAwayteam ==
  \A n \in HookNames :
    LET list == file.settings.hooks[n]
    IN  list # Malformed =>
          \A j, k \in DOMAIN list :
            {list[j].form, list[k].form} \subseteq {"nested", "flat"} => j = k

Undisturbed == harm = {} /\ \A i \in Installs : install[i] # "truncated"

(* Unless a write of settings.json was cut off between its truncation and  *)
(* its end, or raced another change, the file parses, has the user's other *)
(* settings as last edited, their numbers rounded to a float64 at most,    *)
(* and every hook list as the user began it, with commands of awayteam     *)
(* appended at most. Once an install has ended, every list has one, but    *)
(* for a list the user began with a command of the same suffix, which is   *)
(* taken for awayteam's (main.go:173-216, main.go:249, main.go:279).       *)
InstallAddsOnly ==
  Undisturbed =>
    /\ file.kind \in {"missing", "whole"}
    /\ file.settings.keys \in {own, Rounded(own)}
    /\ \A n \in HookNames : begun[n] # Malformed => IsPrefix(begun[n], file.settings.hooks[n])
    /\ \A n \in HookNames :
         (\E i \in Installs : install[i] = "done") =>
           \/ \E path \in Paths : Contains(file.settings.hooks[n], Nested(path))
           \/ begun[n] # Malformed /\ Contains(begun[n], Lookalike)

(* The last answer of a turn is posted once, at the end of that turn, and  *)
(* nothing else is: unless the hook was not installed, ran before the      *)
(* transcript was complete or lost its request, or the transcript has a    *)
(* line the scanner cannot read (hook.go:100-151, hook.go:58).             *)
AnswerPostedOnce ==
  \A t \in DOMAIN turns :
    LET from == IF t = 1 THEN 1 ELSE turns[t - 1] + 1
        line == LastWhere("answer", turns[t])
    IN  /\ t < Len(turns) \/ waiting = 0
        /\ t \notin excused
        /\ \A k \in 1 .. turns[t] : lines[k] # "long"
        /\ line >= from
        => \E k \in DOMAIN posted :
             /\ posted[k] = [turn |-> t, line |-> line]
             /\ \A j \in DOMAIN posted : posted[j].turn = t => j = k

=============================================================================
