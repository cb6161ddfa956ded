--------------------------- MODULE ConfigStoreProofs ---------------------------
(***************************************************************************)
(* What holds of config.ini and the settings page for any options and      *)
(* values: types, that an edit is a change, that a stale page is known,    *)
(* and what becomes of an edit.                                            *)
(***************************************************************************)
EXTENDS ConfigStore, TLAPS

\* The edits are gone as soon as a load begins.
LoadsClean == doing \in {"load", "loading"} => pending = NoEdits

\* StaleIsKnown, also in the middle of a save by the GUI itself.
Known ==
  doing \notin {"load", "loading"} /\ file # loaded => timer \/ changedOnDisk \/ passedOver

\* The inductive invariant.
IInv == TypeOK /\ LoadsClean /\ DirtyMeansChanged /\ Known

Edits == [Key -> Value \union {NoEdit}]

--------------------------------------------------------------------------------
(* Files and edits *)

\* An empty file is one, and has no option.
LEMMA EmptyIsContent == Empty \in Content /\ NoEdits \in Edits /\ (\A k \in Key : Empty[k] = Missing)
  BY DEF Empty, Content, NoEdits, Edits

\* A whole file is a file.
LEMMA WholeIsContent == Whole \subseteq Content
  BY DEF Whole, Content

\* Where there is an edit, some option is edited, and the other way round.
LEMMA SomeEdit ==
  ASSUME NEW edits \in Edits
  PROVE  edits # NoEdits <=> Edited(edits) # {}
<1>1. (\A k \in Key : edits[k] = NoEdit) => edits = NoEdits
  BY DEF Edits, NoEdits
<1>2. edits = NoEdits => Edited(edits) = {}
  BY DEF NoEdits, Edited
<1> QED
  BY <1>1, <1>2 DEF Edited

\* What the store shows has every option.
LEMMA ShownIsWhole ==
  ASSUME NEW content \in Content
  PROVE  Shown(content) \in Whole
  BY ValueAssumption DEF Shown, Content, Whole

\* Patching a file gives a file.
LEMMA PatchedIsContent ==
  ASSUME NEW content \in Content, NEW edits \in Edits
  PROVE  Patched(content, edits) \in Content
  BY DEF Patched, Content, Edits

\* What `secureEye disable` makes of a file is one.
LEMMA SwitchedIsContent ==
  ASSUME TypeOK, NEW lines \in Content
  PROVE  Switched(lines) \in Content
<1>1. switch.value \in Value /\ switch.found \in Value \union {Missing}
  BY DEF TypeOK
<1>2. [lines EXCEPT ![Disabled] = switch.value] \in Content
  BY <1>1 DEF Content
<1> QED
  BY <1>2, EmptyIsContent DEF Switched

--------------------------------------------------------------------------------
(* Types *)

LEMMA InitIInv == Init => IInv
<1> SUFFICES ASSUME Init PROVE IInv
  OBVIOUS
<1> USE EmptyIsContent, WholeIsContent, ValueAssumption
<1>1. file \in Whole
  BY DEF Init, Whole
<1>2. onDisk \in Whole
  BY <1>1, ShownIsWhole DEF Init
<1>3. NoSave \in [at : {"none", "asking", "replacing"} \union Ended, pairs : Edits, lines : Content]
  BY DEF NoSave
<1>4. NoSwitch \in [at : {"none", "asking", "opening", "rewriting", "ended"}, value : Value,
                    found : Value \union {Missing}, lines : Content, owns : BOOLEAN]
  BY DEF NoSwitch
<1>5. TypeOK
  BY <1>1, <1>2, <1>3, <1>4 DEF Init, TypeOK, Edits
<1>6. DirtyMeansChanged /\ LoadsClean /\ Known
  BY DEF Init, DirtyMeansChanged, LoadsClean, Known, Edited, NoEdits
<1> QED
  BY <1>5, <1>6 DEF IInv

LEMMA TypeStep == TypeOK /\ [Next]_vars => TypeOK'
<1> SUFFICES ASSUME TypeOK, [Next]_vars PROVE TypeOK'
  OBVIOUS
<1> DEFINE SaveType == [at : {"none", "asking", "replacing"} \union Ended, pairs : Edits, lines : Content]
           SwitchType == [at : {"none", "asking", "opening", "rewriting", "ended"}, value : Value,
                          found : Value \union {Missing}, lines : Content, owns : BOOLEAN]
<1>1. save \in SaveType /\ switch \in SwitchType
  BY DEF TypeOK, Edits
<1>3. NoSave \in SaveType /\ NoSwitch \in SwitchType
  BY EmptyIsContent, ValueAssumption DEF NoSave, NoSwitch
<1>2. (IF switch.owns THEN Lost ELSE switch) \in SwitchType
  BY <1>1, <1>3 DEF Lost
<1>7. CASE KeepEdits
  <2>1. changedOnDisk' \in BOOLEAN /\ passedOver' \in BOOLEAN
    BY <1>7 DEF KeepEdits
  <2>2. UNCHANGED <<writable, file, onDisk, loaded, pending, timer, doing, taken, save, switch>>
    BY <1>7 DEF KeepEdits
  <2> QED
    BY <2>1, <2>2 DEF TypeOK
<1> USE EmptyIsContent, WholeIsContent DEF TypeOK, store, Edits, Content, Whole
<1>4. ASSUME NEW k \in Key, NEW v \in Value, Set(k, v) PROVE TypeOK'
  BY <1>4 DEF Set
<1>5. CASE Revert
  BY <1>5 DEF Revert
<1>6. CASE Reload
  BY <1>6 DEF Reload, Loads, Idle
<1>8. CASE Save
  <2>1. [NoSave EXCEPT !.at = "asking", !.pairs = pending] \in SaveType
    BY <1>3
  <2> QED
    BY <1>8, <2>1 DEF Save, Idle
<1>9. CASE Toggle
  <2>1. \A v \in Value : [NoSwitch EXCEPT !.at = "asking", !.value = v] \in SwitchType
    BY <1>3
  <2> QED
    BY <1>9, <2>1 DEF Toggle
<1>10. CASE LoadDocument
  BY <1>10 DEF LoadDocument
<1>11. CASE LoadBytes
  <2>1. Shown(taken) \in Whole
    BY ShownIsWhole
  <2> QED
    BY <1>11, <2>1 DEF LoadBytes
<1>12. CASE PatchDocument
  BY <1>12 DEF PatchDocument
<1>13. CASE Commit
  <2>1. Patched(taken, pending) \in Content
    BY PatchedIsContent
  <2>2. CASE Replace(Patched(taken, pending)) /\ Loads
    BY <1>13, <1>2, <2>1, <2>2 DEF Commit, Replace, Write, Loads
  <2>3. CASE doing' = "nothing" /\ UNCHANGED <<file, pending, timer, switch>>
    BY <1>13, <2>3 DEF Commit
  <2> QED
    BY <1>13, <2>2, <2>3 DEF Commit
<1>14. CASE OnFileChanged
  BY <1>14 DEF OnFileChanged, LeaveAlone, Warn, Follow, Loads, Idle
<1>15. CASE SaveRefused
  BY <1>15, <1>1, EmptyIsContent DEF SaveRefused, Ended, NoSave
<1>16. CASE SaveReads
  <2>1. [NoSave EXCEPT !.at = "replacing", !.lines = Patched(file, save.pairs)] \in SaveType
    BY <1>1, <1>3, PatchedIsContent DEF Ended
  <2>2. [NoSave EXCEPT !.at = "failed"] \in SaveType
    BY <1>3 DEF Ended
  <2>3. save' \in SaveType
    BY <1>16, <2>1, <2>2 DEF SaveReads
  <2> QED
    BY <1>16, <2>3 DEF SaveReads
<1>17. CASE SaveReplaces
  <2>1. save.lines \in Content
    BY <1>1
  <2>2. \A next \in Ended : [NoSave EXCEPT !.at = next] \in SaveType
    BY <1>3
  <2>3. save' \in SaveType
    BY <1>17, <2>2 DEF SaveReplaces, Ended
  <2> QED
    BY <1>17, <1>2, <2>1, <2>3 DEF SaveReplaces, Replace, Write
<1>18. CASE FinishSave
  BY <1>18, <1>3 DEF FinishSave, Loads, Idle
<1>19. CASE SwitchRefused
  <2>1. [NoSwitch EXCEPT !.at = "ended"] \in SwitchType
    BY <1>3
  <2> QED
    BY <1>19, <2>1 DEF SwitchRefused
<1>20. CASE SwitchReads
  <2>1. [NoSwitch EXCEPT !.at = "ended"] \in SwitchType
    BY <1>3
  <2>2. [switch EXCEPT !.at = "opening", !.found = file[Disabled]] \in SwitchType
    BY <1>1, KeyAssumption
  <2> QED
    BY <1>20, <2>1, <2>2 DEF SwitchReads
<1>21. CASE SwitchOpens
  <2>1. Switched(file) \in Content
    BY SwitchedIsContent
  <2>2. [NoSwitch EXCEPT !.at = "rewriting", !.lines = Switched(file), !.owns = TRUE] \in SwitchType
    BY <1>3, <2>1
  <2> QED
    BY <1>21, <2>2 DEF SwitchOpens, Write
<1>22. CASE SwitchWrites
  BY <1>22 DEF SwitchWrites, Write
<1>26. CASE SwitchEnds
  <2>1. [NoSwitch EXCEPT !.at = "ended"] \in SwitchType
    BY <1>3
  <2> QED
    BY <1>26, <2>1 DEF SwitchEnds
<1>23. CASE FinishSwitch
  BY <1>23, <1>3 DEF FinishSwitch
<1>24. CASE Edit
  BY <1>24, <1>2 DEF Edit, Replace, Write
<1>25. CASE UNCHANGED vars
  BY <1>25 DEF vars
<1> QED
  BY <1>4, <1>5, <1>6, <1>7, <1>8, <1>9, <1>10, <1>11, <1>12, <1>13, <1>14, <1>15, <1>16, <1>17, <1>18,
     <1>19, <1>20, <1>21, <1>22, <1>23, <1>24, <1>25, <1>26
     DEF Next, Gui, User, Tools

--------------------------------------------------------------------------------
(* Edits and what the page shows *)

\* The steps that load, edit or change what the page shows.
EditStep ==
  \/ \E k \in Key, v \in Value : Set(k, v)
  \/ Revert \/ Reload \/ LoadDocument \/ LoadBytes \/ Commit \/ Follow \/ FinishSave

\* Every other step leaves them alone, and begins no load.
LEMMA OtherStepsKeepEdits ==
  ASSUME TypeOK, [Next]_vars, ~EditStep
  PROVE  /\ UNCHANGED <<pending, onDisk>>
         /\ doing' \in {"load", "loading"} => doing \in {"load", "loading"}
<1> USE DEF store
<1>1. CASE KeepEdits \/ Save \/ Toggle
  BY <1>1 DEF KeepEdits, Save, Toggle
<1>2. CASE PatchDocument \/ LeaveAlone \/ Warn \/ FinishSwitch
  BY <1>2 DEF PatchDocument, LeaveAlone, Warn, FinishSwitch
<1>3. CASE SaveRefused \/ SaveReads \/ SaveReplaces
  BY <1>3 DEF SaveRefused, SaveReads, SaveReplaces
<1>4. CASE SwitchRefused \/ SwitchReads \/ SwitchOpens \/ SwitchWrites \/ SwitchEnds \/ Edit
  BY <1>4 DEF SwitchRefused, SwitchReads, SwitchOpens, SwitchWrites, SwitchEnds, Edit
<1>5. CASE UNCHANGED vars
  BY <1>5 DEF vars
<1> QED
  BY <1>1, <1>2, <1>3, <1>4, <1>5 DEF Next, Gui, User, Tools, OnFileChanged, EditStep

LEMMA EditsStep ==
  ASSUME TypeOK, LoadsClean, DirtyMeansChanged, [Next]_vars
  PROVE  LoadsClean' /\ DirtyMeansChanged'
<1> USE DEF LoadsClean, DirtyMeansChanged, Edited, store
<1>1. ASSUME NEW k \in Key, NEW v \in Value, Set(k, v) PROVE LoadsClean' /\ DirtyMeansChanged'
  <2>1. \A l \in Key : pending'[l] = IF l # k THEN pending[l] ELSE IF v = onDisk[k] THEN NoEdit ELSE v
    BY <1>1 DEF Set, TypeOK
  <2>2. onDisk' = onDisk /\ doing' = "nothing"
    BY <1>1 DEF Set, Idle
  <2> QED
    BY <2>1, <2>2
<1>2. CASE Revert \/ Reload \/ Follow
  BY <1>2 DEF Revert, Reload, Follow, Loads, Idle, NoEdits
<1>3. CASE LoadDocument
  BY <1>3 DEF LoadDocument
<1>4. CASE LoadBytes
  BY <1>4 DEF LoadBytes, NoEdits
<1>5. CASE Commit
  BY <1>5 DEF Commit, Loads, NoEdits
<1>6. CASE FinishSave
  BY <1>6 DEF FinishSave, Loads, Idle, NoEdits
<1>7. CASE ~EditStep
  BY <1>7, OtherStepsKeepEdits
<1> QED
  BY <1>1, <1>2, <1>3, <1>4, <1>5, <1>6, <1>7 DEF EditStep

--------------------------------------------------------------------------------
(* A stale page is known *)

\* The steps of the GUI that read the file or let the store forget about a change.
LEMMA KnownStep ==
  ASSUME TypeOK, Known, [Next]_vars
  PROVE  Known'
<1> USE DEF Known, store
<1>1. CASE \E k \in Key, v \in Value : Set(k, v)
  BY <1>1 DEF Set
<1>2. CASE Revert \/ Reload \/ KeepEdits
  BY <1>2 DEF Revert, Reload, KeepEdits, Loads
<1>3. CASE Save \/ Toggle
  BY <1>3 DEF Save, Toggle, Idle
<1>4. CASE LoadDocument \/ LoadBytes
  BY <1>4 DEF LoadDocument, LoadBytes
<1>5. CASE PatchDocument \/ Commit
  BY <1>5 DEF PatchDocument, Commit, Replace, Write, Loads
<1>6. CASE OnFileChanged
  BY <1>6 DEF OnFileChanged, LeaveAlone, Warn, Follow, Loads
<1>7. CASE FinishSave
  BY <1>7 DEF FinishSave, Loads, Idle
<1>8. CASE SaveRefused \/ SaveReads
  BY <1>8 DEF SaveRefused, SaveReads
<1>9. CASE SaveReplaces
  BY <1>9 DEF SaveReplaces, Replace, Write
<1>10. CASE SwitchRefused \/ SwitchReads \/ FinishSwitch
  BY <1>10 DEF SwitchRefused, SwitchReads, FinishSwitch
<1>11. CASE SwitchOpens \/ SwitchWrites \/ SwitchEnds
  BY <1>11 DEF SwitchOpens, SwitchWrites, SwitchEnds, Write
<1>12. CASE Edit
  BY <1>12 DEF Edit, Replace, Write
<1>13. CASE UNCHANGED vars
  BY <1>13 DEF vars
<1> QED
  BY <1>1, <1>2, <1>3, <1>4, <1>5, <1>6, <1>7, <1>8, <1>9, <1>10, <1>11, <1>12, <1>13
     DEF Next, Gui, User, Tools

--------------------------------------------------------------------------------
(* The theorems *)

\* All parts are kept by every step.
LEMMA Invariance == Spec => []IInv
<1>1. IInv /\ [Next]_vars => IInv'
  BY TypeStep, EditsStep, KnownStep DEF IInv
<1> QED
  BY <1>1, InitIInv, PTL DEF Spec

\* The page, the file and the tools keep their types, for any options and values.
THEOREM ConfigTypeCorrect == Spec => []TypeOK
<1>1. IInv => TypeOK
  BY DEF IInv
<1> QED
  BY <1>1, Invariance, PTL

\* The page never says "unsaved changes" of an option that is as it was read.
THEOREM EditsAreChanges == Spec => []DirtyMeansChanged
<1>1. IInv => DirtyMeansChanged
  BY DEF IInv
<1> QED
  BY <1>1, Invariance, PTL

\* No change of the file is overlooked: a check is to come, there is a warning, or the
\* change was passed over knowingly.
THEOREM StalePageIsKnown == Spec => []StaleIsKnown
<1>1. IInv => StaleIsKnown
  BY DEF IInv, Known, StaleIsKnown, Idle
<1> QED
  BY <1>1, Invariance, PTL

--------------------------------------------------------------------------------
(* What becomes of an edit *)

\* A file that edits were patched into has them.
LEMMA PatchedHasEdits ==
  ASSUME NEW content, NEW edits, NEW k \in Edited(edits)
  PROVE  Patched(content, edits)[k] = edits[k]
  BY DEF Patched, Edited

\* An edit is kept by every step that is not the user's, unless the file has it then or a
\* save through the tool went well.
LEMMA StepEdits ==
  ASSUME IInv, Next, ~User, NEW k \in Edited(pending)
  PROVE  \/ pending'[k] = pending[k] \/ file'[k] = pending[k]
         \/ save.at = "ok" /\ save'.at = "none"
<1>1. CASE LoadDocument \/ LoadBytes
  BY <1>1 DEF LoadDocument, LoadBytes, store
<1>2. CASE Commit
  <2>1. CASE Replace(Patched(taken, pending))
    BY <2>1, PatchedHasEdits DEF Replace, Write
  <2>2. CASE UNCHANGED pending
    BY <2>2
  <2> QED
    BY <1>2, <2>1, <2>2 DEF Commit
<1>3. CASE Follow
  <2>1. pending \in Edits
    BY DEF IInv, TypeOK, Edits
  <2>2. Edited(pending) = {}
    BY <1>3, <2>1, SomeEdit DEF Follow, Dirty
  <2> QED
    BY <2>2
<1>4. CASE FinishSave
  BY <1>4 DEF FinishSave, NoSave
<1>5. CASE ~EditStep
  BY <1>5, OtherStepsKeepEdits DEF IInv
<1> QED
  BY <1>1, <1>2, <1>3, <1>4, <1>5 DEF EditStep, User

\* An edit on the settings page is lost only where the user or a save that went well loses
\* it: no writer of config.ini and no load by itself does, for any options and values
\* (ConfigStore::load(), onFileChanged(), finishSave()).
THEOREM EditsAreKept == Spec => EditsKept
<1>1. IInv /\ [Next]_vars
        => [\/ \A k \in Edited(pending) : pending'[k] = pending[k] \/ file'[k] = pending[k]
            \/ save.at = "ok" /\ save'.at = "none"
            \/ User]_pending
  BY StepEdits DEF vars, store
<1> QED
  BY <1>1, Invariance, PTL DEF Spec, EditsKept

================================================================================
