----------------------------- MODULE TemplateStore -----------------------------
(***************************************************************************)
(* The model file of one user and everybody who changes it                 *)
(* (auth/template_store.py): the requests of the daemon, which hold        *)
(* _models_lock (authd/manage.py), and the command line tools (cli/add.py, *)
(* re_enroll.py, remove.py, clear.py), which hold no lock. A change loads  *)
(* the file, makes up the new content, reads the high-water mark of the    *)
(* ids from the file once more, writes a temporary file and puts it in the *)
(* place of the model file. The program may die, or the disk fail, between *)
(* any two of these steps, and a write may stop half way.                  *)
(***************************************************************************)
EXTENDS Naturals, FiniteSets

CONSTANTS
  Request,      \* threads of the daemon that serve management requests
  Tool,         \* runs of the command line tools
  NoOne,
  Space,        \* embedding spaces (model_id)
  LegacySpace,  \* the one that files of the older format are in
  MaxFaces      \* bound: faces that are ever captured

Process == Request \union Tool

ASSUME ProcessAssumption == NoOne \notin Process /\ Request \cap Tool = {}
ASSUME SpaceAssumption == LegacySpace \in Space
ASSUME BoundAssumption == MaxFaces \in Nat

VARIABLES
  file,      \* the model file: its format, its mark and its templates
  lock,      \* who holds _models_lock
  at,        \* the next step of a process
  job,       \* what the process was asked for
  loaded,    \* the templates the process works on
  mark,      \* the next_id it is about to write
  temp,      \* the temporary files, by the number of their names
  faces,     \* faces captured so far; also the name of the next one
  enrolled,  \* history: faces whose enrollment succeeded
  gone,      \* history: faces somebody asked to remove
  given,     \* every id a template ever had: those a client may name
  taken      \* history: the ids given since the file exists, which it owes not to give again

vars == <<file, lock, at, job, loaded, mark, temp, faces, enrolled, gone, given, taken>>
history == <<enrolled, gone, given, taken>>

Template == [id : Nat, space : Space, face : Nat]
Contents == [format : {"absent", "legacy", "v2", "invalid"}, next : Nat, templates : SUBSET Template]
Kind == {"add", "replace", "remove", "clear"}
Nothing == [kind |-> "add", id |-> 0, space |-> LegacySpace, face |-> 0]

\* "legacy" is a list without a mark, "invalid" does not parse: a part of a file, too.
Absent == [format |-> "absent", next |-> 0, templates |-> {}]
Legacy(templates) == [format |-> "legacy", next |-> 0, templates |-> templates]
Store(templates, next) == [format |-> "v2", next |-> next, templates |-> templates]
Invalid == [format |-> "invalid", next |-> 0, templates |-> {}]

Ids(templates) == {t.id : t \in templates}
Faces(templates) == {t.face : t \in templates}

Larger(m, n) == IF m < n THEN n ELSE m

\* next_id(): one past the highest id.
NextId(templates) ==
  IF templates = {} THEN 0
  ELSE 1 + CHOOSE i \in Ids(templates) : \A j \in Ids(templates) : j <= i

\* Variant of _stored_next_id() for a file without a high-water mark.
StoredNextIdNever == 0

\* _stored_next_id(): only files of the current format have one.
StoredNextId == IF file.format = "v2" THEN file.next ELSE 0

\* The files a user may come with: none, one of an older version, an unreadable one.
Init ==
  /\ file \in {Absent, Invalid} \union
       {Legacy({[id |-> 0, space |-> LegacySpace, face |-> 1],
                [id |-> 1, space |-> LegacySpace, face |-> 2]})}
  /\ lock = NoOne
  /\ at = [p \in Process |-> "idle"]
  /\ job = [p \in Process |-> Nothing]
  /\ loaded = [p \in Process |-> {}]
  /\ mark = [p \in Process |-> 0]
  /\ temp = [p \in Process |-> Absent]
  /\ faces = 3
  /\ enrolled = Faces(file.templates)
  /\ gone = {}
  /\ given = Ids(file.templates)
  /\ taken = Ids(file.templates)

\* Variant that puts the content in the same file next to the model file whoever writes.
TempNameShared(p) == CHOOSE q \in Process : TRUE

\* mkstemp(): a name of its own.
TempName(p) == p

Step(p, next) == at' = [at EXCEPT ![p] = next]

\* A request gives the lock back on every path.
Unlock(p) == lock' = IF lock = p THEN NoOne ELSE lock

\* The process is done, and what it held in memory is gone; so is its temporary file,
\* or, when it was killed, nobody will open that again.
End(p) ==
  /\ Step(p, "idle")
  /\ Unlock(p)
  /\ job' = [job EXCEPT ![p] = Nothing]
  /\ loaded' = [loaded EXCEPT ![p] = {}]
  /\ mark' = [mark EXCEPT ![p] = 0]
  /\ temp' = [temp EXCEPT ![TempName(p)] = Absent]

Continue(p, next) == Step(p, next) /\ UNCHANGED <<lock, job, mark, temp>>

--------------------------------------------------------------------------------
(* A change is asked for *)

\* An enrollment captured its face, or somebody picks an id from a list it has.
Ask(p) ==
  /\ at[p] = "idle"
  /\ \/ \E kind \in {"add", "replace"}, space \in Space :
          /\ faces <= MaxFaces
          /\ job' = [job EXCEPT ![p] = [kind |-> kind, id |-> 0, space |-> space, face |-> faces]]
          /\ faces' = faces + 1
     \/ /\ \/ \E id \in given : job' = [job EXCEPT ![p] = [Nothing EXCEPT !.kind = "remove", !.id = id]]
           \/ job' = [job EXCEPT ![p] = [Nothing EXCEPT !.kind = "clear"]]
        /\ UNCHANGED faces
  /\ Step(p, IF p \in Request THEN "lock" ELSE "load")
  /\ UNCHANGED <<file, lock, loaded, mark, temp, history>>

\* Variant of the daemon's requests that only removals take the lock.
LockUnlessEnrolling(p) ==
  /\ at[p] = "lock"
  /\ job[p].kind \in {"remove", "clear"} => lock = NoOne
  /\ lock' = IF job[p].kind \in {"remove", "clear"} THEN p ELSE lock
  /\ Step(p, "load")
  /\ UNCHANGED <<file, job, loaded, mark, temp, faces, history>>

Lock(p) ==
  /\ at[p] = "lock"
  /\ lock = NoOne
  /\ lock' = p
  /\ Step(p, "load")
  /\ UNCHANGED <<file, job, loaded, mark, temp, faces, history>>

\* The lock is not there in time, or the user answers no to a tool.
Abandon(p) ==
  /\ \/ at[p] = "lock" /\ lock # NoOne
     \/ p \in Tool /\ job[p].kind \in {"remove", "clear"} /\ at[p] \in {"delete", "mark"}
  /\ End(p)
  /\ UNCHANGED <<file, faces, history>>

--------------------------------------------------------------------------------
(* The steps of a change *)

\* append() and replace_space() load the templates, or begin without any.
LoadToEnroll(p) ==
  /\ job[p].kind \in {"add", "replace"}
  /\ IF file.format = "invalid"
       THEN End(p)
       ELSE loaded' = [loaded EXCEPT ![p] = file.templates] /\ Continue(p, "peek")

\* A removal finds its template; the last one goes with the file.
LoadToRemove(p) ==
  LET remaining == {t \in file.templates : t.id # job[p].id} IN
  /\ job[p].kind = "remove"
  /\ IF file.templates = remaining
       THEN End(p)
       ELSE /\ loaded' = [loaded EXCEPT ![p] = file.templates]
            /\ Continue(p, IF remaining = {} THEN "delete" ELSE "mark")

\* Clearing is how a user gets rid of an unreadable file.
LoadToClear(p) ==
  /\ job[p].kind = "clear"
  /\ IF file.format = "absent" THEN End(p) ELSE Continue(p, "delete") /\ UNCHANGED loaded

Load(p) ==
  /\ at[p] = "load"
  /\ LoadToEnroll(p) \/ LoadToRemove(p) \/ LoadToClear(p)
  /\ UNCHANGED <<file, faces, history>>

\* Variant that numbers the templates by their count.
PeekCount(p) ==
  /\ at[p] = "peek"
  /\ job' = [job EXCEPT ![p].id = Cardinality(loaded[p])]
  /\ Step(p, "mark")
  /\ UNCHANGED <<file, lock, loaded, mark, temp, faces, history>>

\* peek_next_id(): the new template gets its id.
Peek(p) ==
  /\ at[p] = "peek"
  /\ job' = [job EXCEPT ![p].id = Larger(NextId(loaded[p]), StoredNextId)]
  /\ Step(p, "mark")
  /\ UNCHANGED <<file, lock, loaded, mark, temp, faces, history>>

\* What the file will hold.
Content(p) ==
  LET new == [id |-> job[p].id, space |-> job[p].space, face |-> job[p].face] IN
  CASE job[p].kind = "remove"  -> {t \in loaded[p] : t.id # job[p].id}
    [] job[p].kind = "add"     -> loaded[p] \union {new}
    [] job[p].kind = "replace" -> {t \in loaded[p] : t.space # job[p].space} \union {new}

\* save(): the mark is read from the file as it is now; an empty temporary file is made.
Mark(p) ==
  /\ at[p] = "mark"
  /\ mark' = [mark EXCEPT ![p] = Larger(NextId(Content(p)), StoredNextId)]
  /\ temp' = [temp EXCEPT ![TempName(p)] = Invalid]
  /\ Step(p, "write")
  /\ UNCHANGED <<file, lock, job, loaded, faces, history>>

\* The last of it is on the disk; until then there is a part of it.
Write(p) ==
  /\ at[p] = "write"
  /\ temp' = [temp EXCEPT ![TempName(p)] = Store(Content(p), mark[p])]
  /\ Step(p, "replace")
  /\ UNCHANGED <<file, lock, job, loaded, mark, faces, history>>

Enrolling(p) == job[p].kind \in {"add", "replace"}

\* The faces that the process was asked to remove.
Meant(p) ==
  CASE job[p].kind = "remove"  -> {t.face : t \in {u \in loaded[p] : u.id = job[p].id}}
    [] job[p].kind = "replace" -> {t.face : t \in {u \in loaded[p] : u.space = job[p].space}}
    [] job[p].kind = "clear"   -> Faces(file.templates)
    [] OTHER                   -> {}

\* The id that a removal gives back: a file without a mark forgets its newest one.
Freed(p) ==
  IF file.format = "legacy" /\ job[p].kind = "remove"
    THEN {job[p].id} \ 0..(mark[p] - 1) ELSE {}

\* os.replace(): what is in the temporary file is the model file.
Replace(p) ==
  /\ at[p] = "replace"
  /\ temp[TempName(p)] # Absent
  /\ file' = temp[TempName(p)]
  /\ End(p)
  /\ enrolled' = IF Enrolling(p) THEN enrolled \union {job[p].face} ELSE enrolled
  /\ gone' = gone \union Meant(p)
  /\ given' = given \union Ids(Content(p))
  /\ taken' = (taken \ Freed(p)) \union Ids(Content(p))
  /\ UNCHANGED faces

\* delete(): the file may have gone in between, which is an error.
Delete(p) ==
  /\ at[p] = "delete"
  /\ file' = Absent
  /\ End(p)
  /\ gone' = IF file.format = "absent" THEN gone ELSE gone \union Meant(p)
  /\ taken' = {}
  /\ UNCHANGED <<faces, enrolled, given>>

--------------------------------------------------------------------------------
(* Failures *)

\* A file can not be made, written, put in place or removed; the temporary file is
\* taken away and the change fails.
DiskFails(p) ==
  /\ at[p] \in {"mark", "write", "replace", "delete"}
  /\ End(p)
  /\ UNCHANGED <<file, faces, history>>

\* The daemon is killed and started again: its threads and its lock are gone.
DaemonDies ==
  /\ \E p \in Request : at[p] # "idle"
  /\ at' = [p \in Process |-> IF p \in Request THEN "idle" ELSE at[p]]
  /\ job' = [p \in Process |-> IF p \in Request THEN Nothing ELSE job[p]]
  /\ loaded' = [p \in Process |-> IF p \in Request THEN {} ELSE loaded[p]]
  /\ mark' = [p \in Process |-> IF p \in Request THEN 0 ELSE mark[p]]
  /\ temp' = [p \in Process |-> IF p \in Request THEN Absent ELSE temp[p]]
  /\ lock' = NoOne
  /\ UNCHANGED <<file, faces, history>>

ToolDies(p) ==
  /\ p \in Tool /\ at[p] # "idle"
  /\ End(p)
  /\ UNCHANGED <<file, faces, history>>

Next ==
  \/ \E p \in Process :
       \/ Ask(p) \/ Lock(p) \/ Abandon(p) \/ Load(p) \/ Peek(p) \/ Mark(p)
       \/ Write(p) \/ Replace(p) \/ Delete(p) \/ DiskFails(p) \/ ToolDies(p)
  \/ DaemonDies

Spec == Init /\ [][Next]_vars

--------------------------------------------------------------------------------
(* Properties *)

\* Types; the lock is with a request that is under way.
TypeOK ==
  /\ file.format \in {"absent", "legacy", "v2", "invalid"}
  /\ file.next \in Nat /\ file.templates \subseteq Template
  /\ lock \in {p \in Request : at[p] \notin {"idle", "lock"}} \union {NoOne}
  /\ at \in [Process -> {"idle", "lock", "load", "peek", "mark", "write", "replace", "delete"}]
  /\ job \in [Process -> [kind : Kind, id : Nat, space : Space, face : Nat]]
  /\ loaded \in [Process -> SUBSET Template]
  /\ mark \in [Process -> Nat]
  /\ temp \in [Process -> Contents]
  /\ faces \in Nat
  /\ enrolled \subseteq Nat /\ gone \subseteq Nat /\ given \subseteq Nat /\ taken \subseteq Nat

\* An enrolled face is in the file until somebody asked to remove it, cleared the
\* file or enrolled again in its space: no change undoes another one, no crash, no
\* full disk and no re-enrollment in another space loses a model (manage.py: "One
\* writer at a time for model files").
NoLostEnrollment == enrolled \ gone \subseteq Faces(file.templates)

\* No two templates have the same id, and the mark is above all of them: an id
\* that a client reads in the list names one model.
IdsDistinct ==
  /\ \A t, u \in file.templates : t.id = u.id => t = u
  /\ file.format = "v2" => \A t \in file.templates : t.id < file.next

\* As long as the file lives, no id is given out twice, also not that of the newest model
\* after it was removed (save(): "removing the newest model does not free its id",
\* peek_next_id(): "above any id given out before and since removed"), with one exception,
\* which the code makes: a file of the older format keeps no mark, so the id of its newest
\* model comes back when a removal takes that one from it (Freed).
IdFreshInFile ==
  [][\A t \in file'.templates : t \notin file.templates => t.id \notin taken]_vars

\* What a process was asked for and has not done yet; its new id is nobody's business.
Wanted(p) ==
  IF at[p] = "idle" THEN [Nothing EXCEPT !.kind = "none"]
  ELSE IF Enrolling(p) THEN [job[p] EXCEPT !.id = 0] ELSE job[p]

Contract == INSTANCE FaceModels
  WITH models <- file.templates, readable <- file.format # "invalid",
       mark <- IF file.format = "v2" THEN file.next ELSE 0,
       asked <- [p \in Process |-> Wanted(p)], NoChange <- [Nothing EXCEPT !.kind = "none"]

\* The store keeps its contract: a change is made in one go to what the file holds at that
\* moment, by its os.replace() or os.remove(), exactly as it was asked for, or not at all.
\* No other request comes between its load and its write, and no crash leaves half of it.
ImplementsFaceModels == Contract!Spec

\* An unreadable file is never the work of the program: a write that is interrupted, that
\* runs out of disk or that another writer races leaves the file as it was or whole.
NeverCorrupted == [][file.format # "invalid" => file'.format # "invalid"]_vars

\* A removal takes its own model and no other: what was enrolled while a tool waited for the
\* user's answer stays. The daemon's requests keep to it ("remove/clear must not race an
\* enrollment's read-modify-write of the same file", manage.py); secureEye remove does not.
RemovalTakesOnlyIts ==
  [][\A p \in Tool :
       at[p] = "replace" /\ job[p].kind = "remove" /\ file' # file /\ at'[p] = "idle" =>
         Faces(file.templates) \ Meant(p) \subseteq Faces(file'.templates)]_vars

================================================================================
