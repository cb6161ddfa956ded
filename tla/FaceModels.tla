------------------------------ MODULE FaceModels -------------------------------
(***************************************************************************)
(* What the store of a user's face models promises to those who change it  *)
(* through the daemon, without saying how: a change that was asked for     *)
(* happens in one go, to the models as they are at that moment, and is all *)
(* of what was asked for; or it never happens. TemplateStore, the steps of *)
(* auth/template_store.py under _models_lock of authd/manage.py, refines   *)
(* it as long as nobody writes without the lock.                           *)
(***************************************************************************)
EXTENDS Naturals

CONSTANTS
  Process,   \* those who ask for changes, one at a time
  Space,     \* embedding spaces
  NoChange   \* what a process asks for that asks for nothing

VARIABLES
  models,    \* the user's models
  mark,      \* no new model gets an id below
  readable,  \* the file can be read
  asked      \* the changes that are under way

vars == <<models, mark, readable, asked>>

Model == [id : Nat, space : Space, face : Nat]
Change == [kind : {"add", "replace", "remove", "clear"}, id : Nat, space : Space, face : Nat]

Above(n, list) == n \in Nat /\ \A m \in list : m.id < n

\* A user may come with models of an older version, which kept no mark, or with a file
\* that can not be read.
Init ==
  /\ models \subseteq Model /\ \A m, n \in models : m.id = n.id => m = n
  /\ mark = 0
  /\ readable \in BOOLEAN /\ (~readable => models = {})
  /\ asked = [p \in Process |-> NoChange]

Ask(p) ==
  /\ asked[p] = NoChange
  /\ asked'[p] \in Change
  /\ asked' = [asked EXCEPT ![p] = asked'[p]]
  /\ UNCHANGED <<models, mark, readable>>

\* Changes that are refused, that fail or whose processes die have no effect.
Drop(dropped) ==
  /\ asked' = [p \in Process |-> IF p \in dropped THEN NoChange ELSE asked[p]]
  /\ UNCHANGED <<models, mark, readable>>

Done(p) == asked' = [asked EXCEPT ![p] = NoChange]

\* The models of a file: the mark is above all of them and never goes back.
Written == readable' = TRUE /\ mark' >= mark /\ Above(mark', models')

\* Without models there is no file, and no mark.
Removed == models' = {} /\ mark' = 0 /\ readable' = TRUE

\* The face that was captured gets an id above the mark and all models, and joins them or takes the
\* place of those of its space.
Enroll(p) ==
  /\ readable /\ asked[p].kind \in {"add", "replace"}
  /\ \E new \in models' :
       /\ new.space = asked[p].space /\ new.face = asked[p].face
       /\ new.id >= mark /\ Above(new.id, models)
       /\ models' = {new} \union (IF asked[p].kind = "add" THEN models
                                  ELSE {m \in models : m.space # asked[p].space})
  /\ Written
  /\ Done(p)

\* The model with the id goes, and no other.
Remove(p) ==
  LET kept == {m \in models : m.id # asked[p].id} IN
  /\ asked[p].kind = "remove" /\ kept # models
  /\ IF kept = {} THEN Removed ELSE models' = kept /\ Written
  /\ Done(p)

\* All of them go, and so does a file that can not be read.
Clear(p) == asked[p].kind = "clear" /\ Removed /\ Done(p)

Next ==
  \/ \E p \in Process : Ask(p) \/ Enroll(p) \/ Remove(p) \/ Clear(p)
  \/ \E dropped \in SUBSET Process : Drop(dropped)

Spec == Init /\ [][Next]_vars

================================================================================
