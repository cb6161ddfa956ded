------------------------------ MODULE ConfigStore ------------------------------
(***************************************************************************)
(* Who writes config.ini while the settings page of the GUI is open: the   *)
(* GUI's ConfigStore itself when the file is writable, `secureEye set` and *)
(* `secureEye disable`, which it starts through pkexec (GuiBackend,        *)
(* PamStatus), and anybody else. The store keeps the user's edits, what it *)
(* last read, and a timer that runs after a change of the file. Its        *)
(* functions run to their end in the thread of the GUI, other processes    *)
(* write between any two accesses to the file.                             *)
(***************************************************************************)
CONSTANTS
  Key,       \* options of config.ini
  Disabled,  \* [core] disabled, the option that the switch on the dashboard changes
  Value,
  Default,   \* what an option is that the file does not have
  Missing,   \* an option the file does not have
  NoEdit     \* an option without a pending edit

ASSUME KeyAssumption == Disabled \in Key
ASSUME ValueAssumption == Default \in Value /\ Missing \notin Value /\ NoEdit \notin Value

VARIABLES
  writable,       \* this user may write the file
  file,           \* config.ini
  onDisk,         \* m_onDisk: the values the store shows for options without an edit
  loaded,         \* m_loadedBytes
  pending,        \* m_pending
  changedOnDisk,  \* m_changedOnDisk
  timer,          \* the watcher has seen a change and m_reloadTimer runs
  doing,          \* what the GUI's thread is in the middle of
  taken,          \* what it read from the file for that
  save,           \* m_saveJob, the process that saves
  switch,         \* m_job of PamStatus, the process that enables or disables
  passedOver      \* history: a change of the file that the store looked at and left

store == <<onDisk, loaded, pending, changedOnDisk, passedOver>>
vars == <<writable, file, store, timer, doing, taken, save, switch>>

Content == [Key -> Value \union {Missing}]
Whole == [Key -> Value]
Empty == [k \in Key |-> Missing]
NoEdits == [k \in Key |-> NoEdit]

Dirty == pending # NoEdits
Edited(edits) == {k \in Key : edits[k] # NoEdit}

\* What the store makes of a file.
Shown(content) == [k \in Key |-> IF content[k] = Missing THEN Default ELSE content[k]]

\* ConfigStore::rawValue().
RawValue(k) == IF pending[k] = NoEdit THEN onDisk[k] ELSE pending[k]

\* IniDocument::patched() and the lines of `secureEye set`.
Patched(content, edits) == [k \in Key |-> IF edits[k] = NoEdit THEN content[k] ELSE edits[k]]

NoSave == [at |-> "none", pairs |-> NoEdits, lines |-> Empty]
NoSwitch == [at |-> "none", value |-> Default, found |-> Missing, lines |-> Empty, owns |-> FALSE]
Saving == save.at # "none"
Ended == {"ok", "failed"}

\* The constructor has loaded the file.
Init ==
  /\ writable \in BOOLEAN
  /\ file = [k \in Key |-> Default]
  /\ onDisk = Shown(file) /\ loaded = file
  /\ pending = NoEdits
  /\ changedOnDisk = FALSE /\ timer = FALSE
  /\ doing = "nothing" /\ taken = Empty
  /\ save = NoSave /\ switch = NoSwitch
  /\ passedOver = FALSE

\* The file is replaced or written: the watcher sees it.
Write(content) == file' = content /\ timer' = TRUE

\* Replacing the file leaves `disable` with a file that has no name any more: what it makes
\* of what it has read nobody will see.
Lost == [NoSwitch EXCEPT !.at = "rewriting"]
Replace(content) == Write(content) /\ switch' = IF switch.owns THEN Lost ELSE switch

Idle == doing = "nothing"

\* load() begins: the edits are gone.
Loads == doing' = "load" /\ pending' = NoEdits

--------------------------------------------------------------------------------
(* The user *)

\* set() and reset(): editing back to what is on disk is no edit.
Set(k, v) ==
  /\ Idle /\ v # RawValue(k)
  /\ pending' = [pending EXCEPT ![k] = IF v = onDisk[k] THEN NoEdit ELSE v]
  /\ UNCHANGED <<writable, file, onDisk, loaded, changedOnDisk, passedOver, timer, doing, taken, save, switch>>

\* Variant of Revert that takes the warning away with the edits.
RevertAll ==
  /\ Idle /\ Dirty
  /\ pending' = NoEdits /\ changedOnDisk' = FALSE
  /\ UNCHANGED <<writable, file, onDisk, loaded, passedOver, timer, doing, taken, save, switch>>

\* "Discard".
Revert ==
  /\ Idle /\ Dirty
  /\ pending' = NoEdits
  /\ UNCHANGED <<writable, file, onDisk, loaded, changedOnDisk, passedOver, timer, doing, taken, save, switch>>

\* "Reload and discard my changes".
Reload ==
  /\ Idle /\ changedOnDisk
  /\ Loads
  /\ UNCHANGED <<writable, file, onDisk, loaded, changedOnDisk, passedOver, timer, taken, save, switch>>

\* "Keep my changes".
KeepEdits ==
  /\ Idle /\ changedOnDisk
  /\ changedOnDisk' = FALSE /\ passedOver' = TRUE
  /\ UNCHANGED <<writable, file, onDisk, loaded, pending, timer, doing, taken, save, switch>>

\* save(): directly, or through the command line tool with the edits of now.
Save ==
  /\ Idle /\ Dirty /\ ~Saving
  /\ IF writable
       THEN doing' = "patch" /\ UNCHANGED save
       ELSE save' = [NoSave EXCEPT !.at = "asking", !.pairs = pending] /\ UNCHANGED doing
  /\ UNCHANGED <<writable, file, store, timer, taken, switch>>

\* PamStatus::setEnabled(), compared with the value the store shows.
Toggle ==
  /\ Idle /\ switch.at = "none"
  /\ \E v \in Value \ {RawValue(Disabled)} : switch' = [NoSwitch EXCEPT !.at = "asking", !.value = v]
  /\ UNCHANGED <<writable, file, store, timer, doing, taken, save>>

--------------------------------------------------------------------------------
(* Loading and direct writing, in the thread of the GUI *)

\* load(), first access to the file: the document.
LoadDocument ==
  /\ doing = "load"
  /\ taken' = file /\ doing' = "loading"
  /\ UNCHANGED <<writable, file, store, timer, save, switch>>

\* load(), second access: the bytes that tell later changes from this state.
LoadBytes ==
  /\ doing = "loading"
  /\ loaded' = file /\ onDisk' = Shown(taken)
  /\ changedOnDisk' = FALSE /\ passedOver' = FALSE
  /\ doing' = "nothing" /\ taken' = Empty
  /\ UNCHANGED <<writable, file, pending, timer, save, switch>>

\* writeDirectly() reads the file again, to keep what changed underneath.
PatchDocument ==
  /\ doing = "patch"
  /\ taken' = file /\ doing' = "commit"
  /\ UNCHANGED <<writable, file, store, timer, save, switch>>

\* The temporary file takes the file's place, or can not be written.
Commit ==
  /\ doing = "commit"
  /\ taken' = Empty
  /\ \/ Replace(Patched(taken, pending)) /\ Loads
     \/ doing' = "nothing" /\ UNCHANGED <<file, pending, timer, switch>>
  /\ UNCHANGED <<writable, onDisk, loaded, changedOnDisk, passedOver, save>>

\* The timer has run out and a save is running, or the file is as it was read.
LeaveAlone ==
  /\ Idle /\ timer /\ (Saving \/ file = loaded)
  /\ timer' = FALSE /\ passedOver' = (passedOver \/ file # loaded)
  /\ UNCHANGED <<writable, file, onDisk, loaded, pending, changedOnDisk, doing, taken, save, switch>>

\* The file is another one, and there are edits that a load would drop.
Warn ==
  /\ Idle /\ timer /\ ~Saving /\ file # loaded /\ Dirty
  /\ timer' = FALSE /\ changedOnDisk' = TRUE
  /\ UNCHANGED <<writable, file, onDisk, loaded, pending, passedOver, doing, taken, save, switch>>

\* The file is another one, and there is nothing to lose.
Follow ==
  /\ Idle /\ timer /\ ~Saving /\ file # loaded /\ ~Dirty
  /\ timer' = FALSE /\ Loads
  /\ UNCHANGED <<writable, file, onDisk, loaded, changedOnDisk, passedOver, taken, save, switch>>

\* onFileChanged().
OnFileChanged == LeaveAlone \/ Warn \/ Follow

--------------------------------------------------------------------------------
(* secureEye set *)

\* The user does not authenticate, or the process does not start.
SaveRefused ==
  /\ save.at = "asking"
  /\ save' = [NoSave EXCEPT !.at = "failed"]
  /\ UNCHANGED <<writable, file, store, timer, doing, taken, switch>>

\* The process runs, reads the lines and makes the new ones. Every option it is to set has
\* to be there; others may be missing, when somebody is rewriting the file or has left a part.
SaveReads ==
  /\ save.at = "asking"
  /\ save' = IF \A k \in Edited(save.pairs) : file[k] # Missing
               THEN [NoSave EXCEPT !.at = "replacing", !.lines = Patched(file, save.pairs)]
               ELSE [NoSave EXCEPT !.at = "failed"]
  /\ UNCHANGED <<writable, file, store, timer, doing, taken, switch>>

\* os.replace(). The process may fail before, or fail to say that it is done.
SaveReplaces ==
  /\ save.at = "replacing"
  /\ \/ /\ Replace(save.lines)
        /\ \E next \in Ended : save' = [NoSave EXCEPT !.at = next]
     \/ /\ save' = [NoSave EXCEPT !.at = "failed"]
        /\ UNCHANGED <<file, timer, switch>>
  /\ UNCHANGED <<writable, store, doing, taken>>

\* Variant of FinishSave that loads after a save that failed, too.
FinishSaveAnyway ==
  /\ Idle /\ save.at \in Ended
  /\ save' = NoSave /\ Loads
  /\ UNCHANGED <<writable, file, onDisk, loaded, changedOnDisk, passedOver, timer, taken, switch>>

\* finishSave(), in the thread of the GUI. A save that failed leaves the edits.
FinishSave ==
  /\ Idle /\ save.at \in Ended
  /\ save' = NoSave
  /\ IF save.at = "ok" THEN Loads ELSE UNCHANGED <<doing, pending>>
  /\ UNCHANGED <<writable, file, onDisk, loaded, changedOnDisk, passedOver, timer, taken, switch>>

--------------------------------------------------------------------------------
(* secureEye disable *)

\* The user does not authenticate.
SwitchRefused ==
  /\ switch.at = "asking"
  /\ switch' = [NoSwitch EXCEPT !.at = "ended"]
  /\ UNCHANGED <<writable, file, store, timer, doing, taken, save>>

\* The present value is read; nothing is done when it is the one asked for.
SwitchReads ==
  /\ switch.at = "asking"
  /\ switch' = IF file[Disabled] = switch.value
                 THEN [NoSwitch EXCEPT !.at = "ended"]
                 ELSE [switch EXCEPT !.at = "opening", !.found = file[Disabled]]
  /\ UNCHANGED <<writable, file, store, timer, doing, taken, save>>

\* What `disable` makes of the lines: the one with the value it found is changed. An option
\* that it did not find ends the program at the first line.
Switched(lines) ==
  CASE switch.found = Missing         -> Empty
    [] switch.found = lines[Disabled] -> [lines EXCEPT ![Disabled] = switch.value]
    [] OTHER                          -> lines

\* fileinput renames the file and opens a new one in its place.
SwitchOpens ==
  /\ switch.at = "opening"
  /\ switch' = [NoSwitch EXCEPT !.at = "rewriting", !.lines = Switched(file), !.owns = TRUE]
  /\ Write(Empty)
  /\ UNCHANGED <<writable, store, doing, taken, save>>

\* The lines are copied one after the other.
SwitchWrites ==
  /\ switch.at = "rewriting" /\ switch.owns
  /\ \E k \in Key : /\ file[k] = Missing /\ switch.lines[k] # Missing
                    /\ Write([file EXCEPT ![k] = switch.lines[k]])
  /\ UNCHANGED <<writable, store, doing, taken, save, switch>>

\* The program ends with the last line, or before: it fails, it is killed, the disk is full.
\* The old file is gone then, and what was copied stays.
SwitchEnds ==
  /\ switch.at \in {"opening", "rewriting"}
  /\ switch' = [NoSwitch EXCEPT !.at = "ended"]
  /\ UNCHANGED <<writable, file, store, timer, doing, taken, save>>

\* PamStatus::finish().
FinishSwitch ==
  /\ Idle /\ switch.at = "ended"
  /\ switch' = NoSwitch
  /\ UNCHANGED <<writable, file, store, timer, doing, taken, save>>

--------------------------------------------------------------------------------

\* Somebody else replaces the file by a whole one: an editor, `secureEye set` at a
\* root shell.
Edit ==
  /\ \E content \in Whole \ {file} : Replace(content)
  /\ UNCHANGED <<writable, store, doing, taken, save>>

Gui == LoadDocument \/ LoadBytes \/ PatchDocument \/ Commit \/ OnFileChanged \/ FinishSave \/ FinishSwitch

User == (\E k \in Key, v \in Value : Set(k, v)) \/ Revert \/ Reload \/ KeepEdits \/ Save \/ Toggle

Tools == SaveRefused \/ SaveReads \/ SaveReplaces \/ SwitchRefused \/ SwitchReads \/ SwitchOpens \/ SwitchWrites \/ SwitchEnds

Next == Gui \/ User \/ Tools \/ Edit

Spec == Init /\ [][Next]_vars

--------------------------------------------------------------------------------
(* Properties *)

\* Types; the GUI has a copy of the file only in the middle of a load or a save.
TypeOK ==
  /\ writable \in BOOLEAN /\ changedOnDisk \in BOOLEAN /\ timer \in BOOLEAN /\ passedOver \in BOOLEAN
  /\ file \in Content /\ loaded \in Content /\ taken \in Content
  /\ onDisk \in Whole
  /\ pending \in [Key -> Value \union {NoEdit}]
  /\ doing \in {"nothing", "load", "loading", "patch", "commit"}
  /\ taken # Empty => doing \in {"loading", "commit"}
  /\ save \in [at : {"none", "asking", "replacing"} \union Ended,
               pairs : [Key -> Value \union {NoEdit}], lines : Content]
  /\ switch \in [at : {"none", "asking", "opening", "rewriting", "ended"},
                 value : Value, found : Value \union {Missing}, lines : Content, owns : BOOLEAN]

\* The page says "unsaved changes" only for options that differ from what it read, after
\* any order of edits, saves, reloads and discards: Save would have something to write.
DirtyMeansChanged == \A k \in Edited(pending) : pending[k] # onDisk[k]

\* When the file is not the one the store has read, the store is about to look at it,
\* the user is warned, or the store passed it over: the user chose to keep the edits, or
\* it changed during a save (whose end loads the file, if it ends well). So it is with a
\* file that was read while `secureEye disable` had copied a part of it.
StaleIsKnown ==
  Idle /\ file # loaded => timer \/ changedOnDisk \/ passedOver

\* What becomes of an edit, whoever writes the file and whenever it is read. Only the user
\* takes it back. By itself the store gives it up for a file that has it, or when a save
\* through the tool went well: finishSave() loads, and loses what was edited while it ran.
\* No change of the file, no save that failed and no load for another reason costs an edit.
EditsKept ==
  [][\/ \A k \in Edited(pending) : pending'[k] = pending[k] \/ file'[k] = pending[k]
     \/ save.at = "ok" /\ save'.at = "none"
     \/ User]_pending

================================================================================
