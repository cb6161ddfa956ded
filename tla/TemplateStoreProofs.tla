-------------------------- MODULE TemplateStoreProofs --------------------------
(***************************************************************************)
(* Safety of the model file for any number of requests and command line    *)
(* tools: the ids stay distinct whoever writes. That no enrollment is lost *)
(* and no id given out again is proved for writers that take the lock.     *)
(***************************************************************************)
EXTENDS TemplateStore, TLAPS, WellFoundedInduction

--------------------------------------------------------------------------------
(* Ids and their maximum *)

Below(templates, n) == \A t \in templates : t.id < n

\* What every list of templates satisfies, in a file or in memory.
Sound(templates) ==
  /\ \E n \in Nat : Below(templates, n)
  /\ \A t, u \in templates : t.id = u.id => t = u

\* A bounded set of numbers has a greatest element: the least bound is one.
LEMMA GreatestExists ==
  ASSUME NEW S \in SUBSET Nat, S # {}, NEW b \in Nat, \A i \in S : i <= b
  PROVE  \E i \in S : \A j \in S : j <= i
  <1> DEFINE Bounds == {n \in Nat : \A i \in S : i <= n}
  <1>1. Bounds \subseteq Nat /\ Bounds # {}
    OBVIOUS
  <1>2. PICK m \in Bounds : \A n \in Bounds : ~(<<n, m>> \in OpToRel(<, Nat))
    BY <1>1, NatLessThanWellFounded, WFMin
  <1>3. \A n \in Bounds : ~(n < m)
    BY <1>2 DEF OpToRel
  <1>4. m \in S
    <2>1. SUFFICES ASSUME m \notin S PROVE FALSE
      OBVIOUS
    <2>2. \A i \in S : i < m
      BY <2>1
    <2>3. PICK k \in S : k < m
      BY <2>2
    <2>4. m \in Nat /\ k \in Nat /\ S \subseteq Nat
      OBVIOUS
    <2>5. m - 1 \in Nat /\ \A i \in Nat : i < m => i <= m - 1
      BY ONLY <2>3, <2>4
    <2> QED
      BY <1>3, <2>2, <2>4, <2>5
  <1> QED
    BY <1>4

\* next_id() is above every id in the list.
LEMMA NextIdAbove ==
  ASSUME NEW templates \in SUBSET Template, NEW n \in Nat, Below(templates, n)
  PROVE  NextId(templates) \in Nat /\ Below(templates, NextId(templates))
  <1>1. CASE templates = {}
    BY <1>1 DEF NextId, Below
  <1>2. CASE templates # {}
    <2> DEFINE Greatest == CHOOSE i \in Ids(templates) : \A j \in Ids(templates) : j <= i
    <2>1. Ids(templates) \in SUBSET Nat /\ Ids(templates) # {} /\ \A i \in Ids(templates) : i <= n
      BY <1>2 DEF Ids, Template, Below
    <2>2. Greatest \in Ids(templates) /\ \A j \in Ids(templates) : j <= Greatest
      BY <2>1, GreatestExists
    <2>3. NextId(templates) = 1 + Greatest
      BY <1>2 DEF NextId
    <2> HIDE DEF Greatest
    <2>4. \A t \in templates : t.id \in Ids(templates)
      BY DEF Ids
    <2> QED
      BY <2>1, <2>2, <2>3, <2>4 DEF Below
  <1> QED
    BY <1>1, <1>2

\* save() writes a mark above every id it writes, and above the file's.
LEMMA MarkAbove ==
  ASSUME NEW templates \in SUBSET Template, Sound(templates), NEW m \in Nat
  PROVE  /\ Larger(NextId(templates), m) \in Nat
         /\ Below(templates, Larger(NextId(templates), m))
         /\ m <= Larger(NextId(templates), m)
  <1>1. NextId(templates) \in Nat /\ Below(templates, NextId(templates))
    BY NextIdAbove DEF Sound
  <1>2. \A t \in templates : t.id \in Nat
    BY DEF Template
  <1> QED
    BY <1>1, <1>2 DEF Larger, Below

\* Leaving templates out of a sound list leaves a sound one.
LEMMA SoundSubset ==
  ASSUME NEW templates, Sound(templates), NEW fewer \in SUBSET templates
  PROVE  Sound(fewer)
  BY DEF Sound, Below

\* A new template with an id above the list's keeps it sound.
LEMMA SoundWithNew ==
  ASSUME NEW templates \in SUBSET Template, Sound(templates), NEW new \in Template,
         Below(templates, new.id)
  PROVE  Sound(templates \union {new})
  <1>1. new.id + 1 \in Nat /\ new.id < new.id + 1
    BY DEF Template
  <1>2. \A t \in templates : t.id \in Nat /\ t.id < new.id
    BY DEF Template, Below
  <1>3. \A t \in templates \union {new} : t.id < new.id + 1
    BY <1>1, <1>2 DEF Template
  <1> QED
    BY <1>1, <1>2, <1>3 DEF Sound, Below, Template

--------------------------------------------------------------------------------
(* Ids are distinct, whoever writes *)

\* The file's ids are distinct and below its mark.
FileNumbered ==
  /\ Sound(file.templates)
  /\ file.format = "v2" => Below(file.templates, file.next)

\* Where a process is says what it was asked for. A new template's id is above those
\* loaded, the mark above those about to be written. When the temporary file is put in
\* place all of it is there.
Numbered(p) ==
  /\ at[p] = "lock" => p \in Request
  /\ at[p] = "peek" => Enrolling(p)
  /\ at[p] \in {"mark", "write", "replace"} => job[p].kind # "clear"
  /\ Sound(loaded[p])
  /\ at[p] \in {"mark", "write", "replace"} /\ Enrolling(p) => Below(loaded[p], job[p].id)
  /\ at[p] \in {"write", "replace"} => Below(Content(p), mark[p])
  /\ at[p] = "replace" => temp[p] = Store(Content(p), mark[p])

Good == TypeOK /\ FileNumbered /\ \A p \in Process : Numbered(p)

\* The initial files are sound.
LEMMA InitGood == Init => Good
  <1> SUFFICES ASSUME Init PROVE Good
    OBVIOUS
  <1>1. file.templates \subseteq Template /\ \A t \in file.templates : t.id \in {0, 1}
    BY SpaceAssumption DEF Init, Absent, Invalid, Legacy, Template
  <1>2. \A t, u \in file.templates : t.id = u.id => t = u
    BY DEF Init, Absent, Invalid, Legacy
  <1>3. 2 \in Nat /\ Below(file.templates, 2)
    BY <1>1 DEF Below
  <1>4. TypeOK
    BY <1>1, SpaceAssumption DEF Init, Absent, Invalid, Legacy, TypeOK, Nothing, Kind, Template, Ids, Faces, Contents
  <1>5. Sound({})
    BY DEF Sound, Below
  <1>6. FileNumbered /\ \A p \in Process : Numbered(p)
    BY <1>2, <1>3, <1>5 DEF Init, FileNumbered, Numbered, Absent, Legacy, Invalid, Sound, Nothing, Enrolling
  <1> QED
    BY <1>4, <1>6 DEF Good

\* What a process is about to write is sound.
LEMMA ContentSound ==
  ASSUME Good, NEW p \in Process, at[p] \in {"mark", "write", "replace"}
  PROVE  Content(p) \in SUBSET Template /\ Sound(Content(p))
  <1> DEFINE new == [id |-> job[p].id, space |-> job[p].space, face |-> job[p].face]
             kept == {t \in loaded[p] : t.space # job[p].space}
  <1>1. /\ loaded[p] \in SUBSET Template /\ Sound(loaded[p])
        /\ new \in Template /\ new.id = job[p].id
        /\ job[p].kind \in {"add", "replace", "remove"}
        /\ Enrolling(p) => Below(loaded[p], new.id)
    BY DEF Good, TypeOK, Numbered, Kind, Template
  <1>2. CASE job[p].kind = "remove"
    BY <1>1, <1>2, SoundSubset DEF Content
  <1>3. CASE job[p].kind = "add"
    BY <1>1, <1>3, SoundWithNew DEF Content, Enrolling
  <1>4. CASE job[p].kind = "replace"
    <2>1. kept \in SUBSET Template /\ Sound(kept) /\ Below(kept, new.id)
      BY <1>1, <1>4, SoundSubset DEF Enrolling, Below
    <2>2. Content(p) = kept \union {new}
      BY <1>4 DEF Content
    <2> QED
      BY <1>1, <2>1, <2>2, SoundWithNew
  <1> QED
    BY <1>1, <1>2, <1>3, <1>4

\* A process that does nothing keeps its part.
LEMMA NumberedKept ==
  ASSUME NEW p \in Process, Numbered(p), at'[p] = at[p], job'[p] = job[p],
         loaded'[p] = loaded[p], mark'[p] = mark[p], temp'[p] = temp[p]
  PROVE  Numbered(p)'
  <1>1. Content(p)' = Content(p)
    BY DEF Content
  <1> QED
    BY <1>1 DEF Numbered, Enrolling

\* A process that is done has nothing in memory.
LEMMA NumberedIdle ==
  ASSUME NEW p \in Process, at'[p] = "idle", loaded'[p] = {}
  PROVE  Numbered(p)'
  BY DEF Numbered, Sound, Below

\* What a process puts in place is all of what it wrote.
LEMMA ReplacePuts ==
  ASSUME Good, NEW p \in Process, Replace(p)
  PROVE  file' = Store(Content(p), mark[p])
  <1>1. temp[p] = Store(Content(p), mark[p])
    BY DEF Good, Numbered, Replace
  <1> QED
    BY <1>1 DEF Replace, TempName

\* To end keeps the types and gives up the lock.
LEMMA StepEnd ==
  ASSUME Good, NEW p \in Process, End(p)
  PROVE  /\ lock' \in {q \in Request : at'[q] \notin {"idle", "lock"}} \union {NoOne}
         /\ at' \in [Process -> {"idle", "lock", "load", "peek", "mark", "write", "replace", "delete"}]
         /\ job' \in [Process -> [kind : Kind, id : Nat, space : Space, face : Nat]]
         /\ loaded' \in [Process -> SUBSET Template]
         /\ mark' \in [Process -> Nat]
         /\ temp' \in [Process -> Contents]
         /\ \A q \in Process : Numbered(q)'
  <1>1. /\ at \in [Process -> {"idle", "lock", "load", "peek", "mark", "write", "replace", "delete"}]
        /\ job \in [Process -> [kind : Kind, id : Nat, space : Space, face : Nat]]
        /\ loaded \in [Process -> SUBSET Template] /\ mark \in [Process -> Nat]
        /\ temp \in [Process -> Contents]
        /\ lock \in {q \in Request : at[q] \notin {"idle", "lock"}} \union {NoOne}
    BY DEF Good, TypeOK
  <1>2. /\ lock' = IF lock = p THEN NoOne ELSE lock
        /\ at' = [at EXCEPT ![p] = "idle"] /\ job' = [job EXCEPT ![p] = Nothing]
        /\ loaded' = [loaded EXCEPT ![p] = {}] /\ mark' = [mark EXCEPT ![p] = 0]
        /\ temp' = [temp EXCEPT ![p] = Absent]
    BY DEF End, Step, Unlock, TempName
  <1>3. Absent \in Contents /\ Nothing \in [kind : Kind, id : Nat, space : Space, face : Nat]
    BY SpaceAssumption DEF Nothing, Kind, Absent, Contents
  <1>4. \A q \in Process : Numbered(q)'
    <2> SUFFICES ASSUME NEW q \in Process PROVE Numbered(q)'
      OBVIOUS
    <2>1. CASE q = p
      BY <1>1, <1>2, <2>1, NumberedIdle
    <2>2. CASE q # p
      BY <1>1, <1>2, <2>2, NumberedKept DEF Good
    <2> QED
      BY <2>1, <2>2
  <1>5. lock' \in {q \in Request : at'[q] \notin {"idle", "lock"}} \union {NoOne}
    BY <1>1, <1>2 DEF Process
  <1> QED
    BY <1>1, <1>2, <1>3, <1>4, <1>5

\* Every step keeps what is written and what is about to be written sound.
LEMMA StepGood == Good /\ [Next]_vars => Good'
  <1> SUFFICES ASSUME Good, [Next]_vars PROVE Good'
    OBVIOUS
  <1>1. TypeOK /\ FileNumbered /\ \A p \in Process : Numbered(p)
    BY DEF Good
  <1>2. ASSUME NEW p \in Process, Ask(p) PROVE Good'
    <2>1. /\ job' \in [Process -> [kind : Kind, id : Nat, space : Space, face : Nat]]
          /\ faces' \in Nat
      <3>1. CASE \E kind \in {"add", "replace"}, space \in Space :
                   /\ job' = [job EXCEPT ![p] = [kind |-> kind, id |-> 0, space |-> space, face |-> faces]]
                   /\ faces' = faces + 1
        BY <1>1, <3>1 DEF TypeOK, Kind
      <3>2. CASE \E id \in given : /\ job' = [job EXCEPT ![p] = [Nothing EXCEPT !.kind = "remove", !.id = id]]
                                    /\ UNCHANGED faces
        <4>1. PICK id \in given : /\ job' = [job EXCEPT ![p] = [Nothing EXCEPT !.kind = "remove", !.id = id]]
                                  /\ UNCHANGED faces
          BY <3>2
        <4>2. [Nothing EXCEPT !.kind = "remove", !.id = id] \in [kind : Kind, id : Nat, space : Space, face : Nat]
          <5>1. id \in Nat
            BY <1>1 DEF TypeOK
          <5> QED
            BY <5>1, SpaceAssumption DEF Kind, Nothing
        <4> QED
          BY <1>1, <4>1, <4>2 DEF TypeOK
      <3>3. CASE job' = [job EXCEPT ![p] = [Nothing EXCEPT !.kind = "clear"]] /\ UNCHANGED faces
        BY <1>1, <3>3, SpaceAssumption DEF TypeOK, Kind, Nothing
      <3> QED
        BY <1>2, <3>1, <3>2, <3>3 DEF Ask
    <2>2. TypeOK' /\ FileNumbered'
      BY <1>1, <1>2, <2>1 DEF Ask, TypeOK, FileNumbered, Step, history, Process
    <2>3. ASSUME NEW q \in Process PROVE Numbered(q)'
      <3>1. CASE q # p
        BY <1>1, <1>2, <3>1, NumberedKept DEF Ask, Step, TypeOK
      <3>2. CASE q = p
        BY <1>1, <1>2, <3>2 DEF Ask, Step, Numbered, TypeOK
      <3> QED
        BY <3>1, <3>2
    <2> QED
      BY <2>2, <2>3 DEF Good
  <1>3. ASSUME NEW p \in Process, Lock(p) PROVE Good'
    <2>1. TypeOK' /\ FileNumbered'
      BY <1>1, <1>3 DEF Lock, TypeOK, FileNumbered, Numbered, Step, history, Process
    <2>2. ASSUME NEW q \in Process PROVE Numbered(q)'
      <3>1. CASE q # p
        BY <1>1, <1>3, <3>1, NumberedKept DEF Lock, Step, TypeOK
      <3>2. CASE q = p
        BY <1>1, <1>3, <3>2 DEF Lock, Step, Numbered, TypeOK
      <3> QED
        BY <3>1, <3>2
    <2> QED
      BY <2>1, <2>2 DEF Good
  <1>4. ASSUME NEW p \in Process, End(p), UNCHANGED <<file, faces, history>> PROVE Good'
    <2>1. TypeOK' /\ FileNumbered'
      BY <1>1, <1>4, StepEnd DEF TypeOK, FileNumbered, history
    <2> QED
      BY <1>4, <2>1, StepEnd DEF Good
  <1>5. ASSUME NEW p \in Process, Load(p) PROVE Good'
    <2>1. CASE End(p)
      BY <1>4, <1>5, <2>1 DEF Load
    <2>2. CASE ~End(p)
      <3>1. /\ \/ at' = [at EXCEPT ![p] = "peek"] /\ Enrolling(p)
               \/ at' = [at EXCEPT ![p] = "mark"] /\ job[p].kind = "remove"
               \/ at' = [at EXCEPT ![p] = "delete"]
            /\ loaded' = loaded \/ loaded' = [loaded EXCEPT ![p] = file.templates]
            /\ UNCHANGED <<file, lock, job, mark, temp, faces, enrolled, gone, given, taken>>
            /\ at[p] = "load"
        BY <1>5, <2>2
        DEF Load, LoadToEnroll, LoadToRemove, LoadToClear, Continue, Step, Enrolling, history
      <3>2. TypeOK' /\ FileNumbered'
        BY <1>1, <3>1 DEF TypeOK, FileNumbered, Process
      <3>3. ASSUME NEW q \in Process PROVE Numbered(q)'
        <4>1. CASE q # p
          BY <1>1, <3>1, <4>1, NumberedKept DEF TypeOK
        <4>2. CASE q = p
          BY <1>1, <3>1, <4>2 DEF Numbered, TypeOK, FileNumbered, Enrolling
        <4> QED
          BY <4>1, <4>2
      <3> QED
        BY <3>2, <3>3 DEF Good
    <2> QED
      BY <2>1, <2>2
  <1>6. ASSUME NEW p \in Process, Peek(p) PROVE Good'
    <2> DEFINE id == Larger(NextId(loaded[p]), StoredNextId)
    <2>1. StoredNextId \in Nat
      BY <1>1 DEF TypeOK, StoredNextId
    <2>2. id \in Nat /\ Below(loaded[p], id)
      BY <1>1, <2>1, MarkAbove DEF TypeOK, Numbered
    <2>3. /\ job' = [job EXCEPT ![p].id = id] /\ at' = [at EXCEPT ![p] = "mark"]
          /\ at[p] = "peek"
          /\ UNCHANGED <<file, lock, loaded, mark, temp, faces, enrolled, gone, given, taken>>
      BY <1>6 DEF Peek, Step, history
    <2> HIDE DEF id
    <2>4. TypeOK' /\ FileNumbered'
      BY <1>1, <2>2, <2>3 DEF TypeOK, FileNumbered, Process
    <2>5. ASSUME NEW q \in Process PROVE Numbered(q)'
      <3>1. CASE q # p
        BY <1>1, <2>3, <3>1, NumberedKept DEF TypeOK
      <3>2. CASE q = p
        BY <1>1, <2>2, <2>3, <3>2 DEF Numbered, TypeOK, Enrolling
      <3> QED
        BY <3>1, <3>2
    <2> QED
      BY <2>4, <2>5 DEF Good
  <1>7. ASSUME NEW p \in Process, Mark(p) PROVE Good'
    <2> DEFINE m == Larger(NextId(Content(p)), StoredNextId)
    <2>1. StoredNextId \in Nat
      BY <1>1 DEF TypeOK, StoredNextId
    <2>2. m \in Nat /\ Below(Content(p), m)
      BY <1>7, <2>1, MarkAbove, ContentSound DEF Mark
    <2>3. /\ mark' = [mark EXCEPT ![p] = m] /\ at' = [at EXCEPT ![p] = "write"]
          /\ at[p] = "mark"
          /\ temp' = [temp EXCEPT ![p] = Invalid] /\ Invalid \in Contents
          /\ UNCHANGED <<file, lock, job, loaded, faces, enrolled, gone, given, taken>>
      BY <1>7 DEF Mark, Step, history, TempName, Invalid, Contents
    <2>4. Content(p)' = Content(p)
      BY <2>3 DEF Content
    <2> HIDE DEF m
    <2>5. TypeOK' /\ FileNumbered'
      BY <1>1, <2>2, <2>3 DEF TypeOK, FileNumbered, Process
    <2>6. ASSUME NEW q \in Process PROVE Numbered(q)'
      <3>1. CASE q # p
        BY <1>1, <2>3, <3>1, NumberedKept DEF TypeOK
      <3>2. CASE q = p
        BY <1>1, <2>2, <2>3, <2>4, <3>2 DEF Numbered, TypeOK, Enrolling
      <3> QED
        BY <3>1, <3>2
    <2> QED
      BY <2>5, <2>6 DEF Good
  <1>12. ASSUME NEW p \in Process, Write(p) PROVE Good'
    <2>1. /\ temp' = [temp EXCEPT ![p] = Store(Content(p), mark[p])] /\ at' = [at EXCEPT ![p] = "replace"]
          /\ at[p] = "write"
          /\ UNCHANGED <<file, lock, job, loaded, mark, faces, enrolled, gone, given, taken>>
      BY <1>12 DEF Write, Step, history, TempName
    <2>2. Store(Content(p), mark[p]) \in Contents
      BY <1>1, <2>1, ContentSound DEF Store, Contents, TypeOK
    <2>3. Content(p)' = Content(p)
      BY <2>1 DEF Content
    <2>4. TypeOK' /\ FileNumbered'
      BY <1>1, <2>1, <2>2 DEF TypeOK, FileNumbered, Process
    <2>5. ASSUME NEW q \in Process PROVE Numbered(q)'
      <3>1. CASE q # p
        BY <1>1, <2>1, <3>1, NumberedKept DEF TypeOK
      <3>2. CASE q = p
        BY <1>1, <2>1, <2>3, <3>2 DEF Numbered, TypeOK, Enrolling
      <3> QED
        BY <3>1, <3>2
    <2> QED
      BY <2>4, <2>5 DEF Good
  <1>8. ASSUME NEW p \in Process, Replace(p) PROVE Good'
    <2>1. Content(p) \in SUBSET Template /\ Sound(Content(p)) /\ Below(Content(p), mark[p])
      BY <1>1, <1>8, ContentSound DEF Replace, Numbered
    <2>2. file' = Store(Content(p), mark[p]) /\ End(p) /\ UNCHANGED faces
      BY <1>8, ReplacePuts DEF Replace
    <2>3. FileNumbered' /\ file'.next \in Nat /\ file'.templates \subseteq Template /\ file'.format = "v2"
      BY <1>1, <2>1, <2>2 DEF Store, FileNumbered, TypeOK
    <2>4. Ids(Content(p)) \subseteq Nat /\ job[p].face \in Nat
      BY <1>1, <2>1 DEF Ids, Template, TypeOK
    <2>5. Meant(p) \subseteq Nat
      BY <1>1 DEF Meant, Faces, TypeOK, Template, Kind
    <2>6. enrolled' \subseteq Nat /\ gone' \subseteq Nat /\ given' \subseteq Nat /\ taken' \subseteq Nat
      BY <1>1, <1>8, <2>4, <2>5 DEF Replace, TypeOK
    <2> QED
      BY <1>1, <2>2, <2>3, <2>6, StepEnd DEF Good, TypeOK
  <1>9. ASSUME NEW p \in Process, Delete(p) PROVE Good'
    <2>1. FileNumbered' /\ file'.next \in Nat /\ file'.templates \subseteq Template /\ file'.format = "absent"
      BY <1>9 DEF Delete, Absent, FileNumbered, Sound, Below
    <2>2. Meant(p) \subseteq Nat
      BY <1>1 DEF Meant, Faces, TypeOK, Template, Kind
    <2> QED
      BY <1>1, <1>9, <2>1, <2>2, StepEnd DEF Good, TypeOK, Delete
  <1>10. CASE DaemonDies
    <2>1. TypeOK' /\ FileNumbered'
      BY <1>1, <1>10, SpaceAssumption
      DEF DaemonDies, TypeOK, FileNumbered, Nothing, Kind, history, Process, Absent, Contents
    <2>2. ASSUME NEW q \in Process PROVE Numbered(q)'
      BY <1>1, <1>10, NumberedKept, NumberedIdle DEF DaemonDies
    <2> QED
      BY <2>1, <2>2 DEF Good
  <1>11. CASE UNCHANGED vars
    BY <1>1, <1>11, NumberedKept DEF vars, Good, TypeOK, FileNumbered
  <1> QED
    BY <1>2, <1>3, <1>4, <1>5, <1>6, <1>7, <1>8, <1>9, <1>10, <1>11, <1>12
    DEF Next, Abandon, DiskFails, ToolDies

\* For any number of requests and tools, the values keep their types.
THEOREM StoreTypeCorrect == Spec => []TypeOK
  <1>1. Good => TypeOK
    BY DEF Good
  <1> QED
    BY <1>1, InitGood, StepGood, PTL DEF Spec

\* For any number of requests and tools, in any interleaving and with any failures,
\* an id names one model: the tools may lose an enrollment, but never mix up two.
THEOREM IdsAreDistinct == Spec => []IdsDistinct
  <1>1. Good => IdsDistinct
    BY DEF Good, FileNumbered, Sound, Below, IdsDistinct
  <1> QED
    BY <1>1, InitGood, StepGood, PTL DEF Spec

--------------------------------------------------------------------------------
(* Writers that take the lock *)

\* Without a tool, a writer holds the lock from its load on, and the file is as it
\* was loaded.
AsLoaded(p) ==
  /\ at[p] \in {"load", "peek", "mark", "write", "replace", "delete"} => lock = p
  /\ at[p] \in {"peek", "mark", "write", "replace"} => loaded[p] = file.templates
  /\ at[p] = "delete" => \/ job[p].kind = "clear"
                        \/ /\ job[p].kind = "remove"
                           /\ loaded[p] = file.templates
                           /\ \A t \in loaded[p] : t.id = job[p].id
  /\ at[p] \in {"mark", "write", "replace"} /\ Enrolling(p) => StoredNextId <= job[p].id
  /\ at[p] \in {"write", "replace"} => StoredNextId <= mark[p]

Exclusive == \A p \in Process : AsLoaded(p)

\* Nobody misses what no one removed, and this file's next ids are above all it owes not to
\* give again: its mark is, and a file without one has none but those of its templates.
Kept ==
  /\ NoLostEnrollment
  /\ file.format \in {"absent", "invalid"} => file.templates = {}
  /\ IF file.format = "v2" THEN \A i \in taken : i < file.next ELSE taken = Ids(file.templates)

\* At the start everybody is idle and nothing was removed.
LEMMA InitExclusive == Init => Exclusive /\ Kept
  BY DEF Init, Exclusive, AsLoaded, Kept, NoLostEnrollment, Absent, Legacy, Invalid

\* A process keeps what it loaded while others neither write nor take its lock.
LEMMA AsLoadedKept ==
  ASSUME NEW p \in Process, AsLoaded(p), at'[p] = at[p], job'[p] = job[p],
         loaded'[p] = loaded[p], mark'[p] = mark[p], file' = file, lock = p => lock' = p
  PROVE  AsLoaded(p)'
  BY DEF AsLoaded, StoredNextId, Enrolling

\* Before the lock there is nothing to keep.
LEMMA AsLoadedBefore ==
  ASSUME NEW p \in Process, at'[p] \in {"idle", "lock"}
  PROVE  AsLoaded(p)'
  BY DEF AsLoaded

\* Writers with the lock never meet between a load and a replacement.
LEMMA StepExclusive ==
  ASSUME Tool = {}, Good, Exclusive, [Next]_vars
  PROVE  Exclusive'
  <1>1. TypeOK /\ (\A p \in Process : Numbered(p)) /\ \A p \in Process : AsLoaded(p)
    BY DEF Good, Exclusive
  <1>2. Process = Request /\ NoOne \notin Process
    BY ProcessAssumption DEF Process
  <1>3. StoredNextId \in Nat
    BY <1>1 DEF TypeOK, StoredNextId
  <1>4. ASSUME NEW p \in Process, Ask(p) \/ Lock(p) PROVE Exclusive'
    <2> SUFFICES ASSUME NEW q \in Process PROVE AsLoaded(q)'
      BY DEF Exclusive
    <2>1. CASE q # p
      BY <1>1, <1>2, <1>4, <2>1, AsLoadedKept DEF Ask, Lock, Step, TypeOK
    <2>2. CASE q = p /\ Ask(p)
      BY <1>1, <1>2, <2>2, AsLoadedBefore DEF Ask, Step, TypeOK
    <2>3. CASE q = p /\ Lock(p)
      BY <1>1, <2>3 DEF Lock, Step, TypeOK, AsLoaded
    <2> QED
      BY <1>4, <2>1, <2>2, <2>3
  <1>5. ASSUME NEW p \in Process, End(p), file' = file \/ lock = p PROVE Exclusive'
    <2> SUFFICES ASSUME NEW q \in Process PROVE AsLoaded(q)'
      BY DEF Exclusive
    <2>1. at'[p] = "idle" /\ (q # p => at'[q] = at[q])
      BY <1>1, <1>5 DEF End, Step, TypeOK
    <2>2. CASE q = p
      BY <2>1, <2>2, AsLoadedBefore
    <2>3. CASE q # p /\ file' = file
      BY <1>1, <1>5, <2>1, <2>3, AsLoadedKept DEF End, Unlock, TypeOK
    <2>4. CASE q # p /\ lock = p
      BY <1>1, <2>1, <2>4, AsLoadedBefore DEF AsLoaded, TypeOK
    <2> QED
      BY <1>5, <2>2, <2>3, <2>4
  <1>6. ASSUME NEW p \in Process, Load(p), ~End(p) PROVE Exclusive'
    <2> SUFFICES ASSUME NEW q \in Process PROVE AsLoaded(q)'
      BY DEF Exclusive
    <2>1. at[p] = "load" /\ UNCHANGED <<file, lock, job, mark>>
      BY <1>6 DEF Load, LoadToEnroll, LoadToRemove, LoadToClear, Continue
    <2>2. CASE q # p
      BY <1>1, <1>6, <2>1, <2>2, AsLoadedKept
      DEF Load, LoadToEnroll, LoadToRemove, LoadToClear, Continue, Step, TypeOK
    <2>3. CASE q = p /\ LoadToEnroll(p)
      BY <1>1, <1>6, <2>1, <2>3 DEF LoadToEnroll, Continue, Step, TypeOK, AsLoaded
    <2>4. CASE q = p /\ LoadToRemove(p)
      BY <1>1, <1>6, <2>1, <2>4 DEF LoadToRemove, Continue, Step, TypeOK, AsLoaded, Enrolling
    <2>5. CASE q = p /\ LoadToClear(p)
      BY <1>1, <1>6, <2>1, <2>5 DEF LoadToClear, Continue, Step, TypeOK, AsLoaded
    <2> QED
      BY <1>6, <2>2, <2>3, <2>4, <2>5 DEF Load
  <1>7. ASSUME NEW p \in Process, Peek(p) PROVE Exclusive'
    <2> SUFFICES ASSUME NEW q \in Process PROVE AsLoaded(q)'
      BY DEF Exclusive
    <2> DEFINE id == Larger(NextId(loaded[p]), StoredNextId)
    <2>1. id \in Nat /\ StoredNextId <= id
      BY <1>1, <1>3, MarkAbove DEF TypeOK, Numbered
    <2>2. /\ job' = [job EXCEPT ![p].id = id] /\ at' = [at EXCEPT ![p] = "mark"]
          /\ at[p] = "peek" /\ UNCHANGED <<file, lock, loaded, mark>>
      BY <1>7 DEF Peek, Step
    <2> HIDE DEF id
    <2>3. CASE q # p
      BY <1>1, <2>2, <2>3, AsLoadedKept DEF TypeOK
    <2>4. CASE q = p
      BY <1>1, <2>1, <2>2, <2>4 DEF TypeOK, AsLoaded, StoredNextId
    <2> QED
      BY <2>3, <2>4
  <1>8. ASSUME NEW p \in Process, Mark(p) PROVE Exclusive'
    <2> SUFFICES ASSUME NEW q \in Process PROVE AsLoaded(q)'
      BY DEF Exclusive
    <2> DEFINE m == Larger(NextId(Content(p)), StoredNextId)
    <2>1. m \in Nat /\ StoredNextId <= m
      BY <1>3, <1>8, MarkAbove, ContentSound DEF Mark
    <2>2. /\ mark' = [mark EXCEPT ![p] = m] /\ at' = [at EXCEPT ![p] = "write"]
          /\ at[p] = "mark" /\ UNCHANGED <<file, lock, job, loaded>>
      BY <1>8 DEF Mark, Step
    <2> HIDE DEF m
    <2>3. CASE q # p
      BY <1>1, <2>2, <2>3, AsLoadedKept DEF TypeOK
    <2>4. CASE q = p
      BY <1>1, <2>1, <2>2, <2>4 DEF TypeOK, AsLoaded, StoredNextId, Enrolling
    <2> QED
      BY <2>3, <2>4
  <1>12. ASSUME NEW p \in Process, Write(p) PROVE Exclusive'
    <2> SUFFICES ASSUME NEW q \in Process PROVE AsLoaded(q)'
      BY DEF Exclusive
    <2>1. /\ at' = [at EXCEPT ![p] = "replace"] /\ at[p] = "write"
          /\ UNCHANGED <<file, lock, job, loaded, mark>>
      BY <1>12 DEF Write, Step
    <2>2. CASE q # p
      BY <1>1, <2>1, <2>2, AsLoadedKept DEF TypeOK
    <2>3. CASE q = p
      BY <1>1, <2>1, <2>3 DEF TypeOK, AsLoaded, StoredNextId, Enrolling
    <2> QED
      BY <2>2, <2>3
  <1>9. ASSUME NEW p \in Process, Replace(p) \/ Delete(p) PROVE Exclusive'
    BY <1>1, <1>5, <1>9 DEF Replace, Delete, AsLoaded
  <1>10. CASE DaemonDies
    BY <1>2, <1>10, AsLoadedBefore DEF DaemonDies, Exclusive
  <1>11. CASE UNCHANGED vars
    BY <1>1, <1>11, AsLoadedKept DEF vars, Exclusive
  <1> QED
    BY <1>4, <1>5, <1>6, <1>7, <1>8, <1>9, <1>10, <1>11, <1>12
    DEF Next, Abandon, Load, DiskFails, ToolDies

\* What a replacement takes away was meant to go.
LEMMA ReplaceKeeps ==
  ASSUME Good, Exclusive, Kept, NEW p \in Process, Replace(p)
  PROVE  NoLostEnrollment'
  <1>0. file'.templates = Content(p)
    BY ReplacePuts DEF Store
  <1> SUFFICES ASSUME NEW f \in enrolled', f \notin gone'
               PROVE  f \in Faces(Content(p))
    BY <1>0 DEF NoLostEnrollment, Faces
  <1> DEFINE new == [id |-> job[p].id, space |-> job[p].space, face |-> job[p].face]
  <1>1. job[p].kind \in {"add", "replace", "remove"} /\ loaded[p] = file.templates
    BY DEF Good, TypeOK, Numbered, Kind, Exclusive, AsLoaded, Replace
  <1>2. f \notin Meant(p) /\ f \notin gone
    BY DEF Replace
  <1>3. CASE Enrolling(p) /\ f = job[p].face
    <2>1. new \in Content(p) /\ new.face = f
      BY <1>3 DEF Enrolling, Content
    <2> QED
      BY <2>1 DEF Faces
  <1>4. CASE f \in enrolled
    <2>1. PICK t \in loaded[p] : t.face = f
      BY <1>1, <1>2, <1>4 DEF Kept, NoLostEnrollment, Faces
    <2>2. t \in Content(p)
      <3>1. CASE job[p].kind = "add"
        BY <3>1 DEF Content
      <3>2. CASE job[p].kind = "remove"
        BY <1>2, <2>1, <3>2 DEF Content, Meant
      <3>3. CASE job[p].kind = "replace"
        BY <1>2, <2>1, <3>3 DEF Content, Meant
      <3> QED
        BY <1>1, <3>1, <3>2, <3>3
    <2> QED
      BY <2>1, <2>2 DEF Faces
  <1> QED
    BY <1>3, <1>4 DEF Replace

\* So was everything in a file that is deleted.
LEMMA DeleteKeeps ==
  ASSUME Good, Exclusive, Kept, NEW p \in Process, Delete(p)
  PROVE  NoLostEnrollment'
  <1> SUFFICES ASSUME NEW f \in enrolled, f \notin gone' PROVE FALSE
    BY DEF NoLostEnrollment, Delete
  <1>1. f \notin gone
    BY DEF Delete
  <1>2. PICK t \in file.templates : t.face = f
    BY <1>1 DEF Kept, NoLostEnrollment, Faces
  <1>3. f \notin Meant(p)
    BY <1>2 DEF Delete, Kept
  <1>4. CASE job[p].kind = "clear"
    BY <1>2, <1>3, <1>4 DEF Meant, Faces
  <1>5. CASE job[p].kind = "remove" /\ loaded[p] = file.templates /\ \A u \in loaded[p] : u.id = job[p].id
    BY <1>2, <1>3, <1>5 DEF Meant
  <1> QED
    BY <1>4, <1>5 DEF Exclusive, AsLoaded, Delete

\* A change takes away only what it was asked to.
LEMMA StepKept ==
  ASSUME Tool = {}, Good, Exclusive, Kept, [Next]_vars
  PROVE  Kept'
  <1>1. CASE UNCHANGED <<file, enrolled, gone, taken>>
    BY <1>1 DEF Kept, NoLostEnrollment
  <1>2. ASSUME NEW p \in Process, Replace(p) PROVE Kept'
    <2>1. Below(Content(p), mark[p]) /\ StoredNextId <= mark[p] /\ mark[p] \in Nat
      BY <1>2 DEF Good, Numbered, Exclusive, AsLoaded, Replace, TypeOK
    <2>2. file' = Store(Content(p), mark[p])
      BY <1>2, ReplacePuts
    <2>3. ASSUME NEW i \in taken' PROVE i < mark[p]
      <3>1. CASE i \in Ids(Content(p))
        BY <2>1, <3>1 DEF Ids, Below
      <3>2. CASE file.format = "v2" /\ i \in taken
        <4>1. i \in Nat /\ file.next \in Nat
          BY <3>2 DEF Good, TypeOK
        <4>2. i < file.next /\ file.next <= mark[p]
          BY <2>1, <3>2 DEF Kept, StoredNextId
        <4> QED
          BY <2>1, <4>1, <4>2
      <3>3. CASE file.format # "v2" /\ i \in taken \ Freed(p) /\ i \notin Ids(Content(p))
        <4>1. PICK t \in loaded[p] : t.id = i
          BY <1>2, <3>3 DEF Kept, Ids, Exclusive, AsLoaded, Replace
        <4>2. i \in Nat /\ t \in file.templates
          BY <1>2, <4>1 DEF Good, TypeOK, Template, Exclusive, AsLoaded, Replace
        <4>3. t \notin Content(p)
          BY <3>3, <4>1 DEF Ids
        <4>4. CASE job[p].kind = "remove"
          <5>1. file.format = "legacy"
            BY <3>3, <4>2 DEF Kept, Good, TypeOK
          <5>2. i = job[p].id
            BY <4>1, <4>3, <4>4 DEF Content
          <5> QED
            BY <2>1, <3>3, <4>2, <4>4, <5>1, <5>2 DEF Freed
        <4>5. CASE Enrolling(p)
          <5> DEFINE new == [id |-> job[p].id, space |-> job[p].space, face |-> job[p].face]
          <5>1. i < job[p].id
            BY <1>2, <4>1, <4>5 DEF Good, Numbered, Replace, Below
          <5>2. new \in Content(p) /\ new.id = job[p].id
            BY <4>5 DEF Enrolling, Content
          <5>3. job[p].id < mark[p] /\ job[p].id \in Nat
            BY <2>1, <5>2 DEF Below, Good, TypeOK
          <5> QED
            BY <2>1, <4>2, <5>1, <5>3
        <4> QED
          BY <1>2, <4>4, <4>5 DEF Good, Numbered, TypeOK, Kind, Enrolling, Replace
      <3> QED
        BY <1>2, <3>1, <3>2, <3>3 DEF Replace
    <2>4. file'.format = "v2" /\ file'.next = mark[p]
      BY <2>2 DEF Store
    <2> QED
      BY <1>2, <2>3, <2>4, ReplaceKeeps DEF Kept
  <1>3. ASSUME NEW p \in Process, Delete(p) PROVE Kept'
    BY <1>3, DeleteKeeps DEF Kept, Delete, Absent, Ids
  <1> QED
    BY <1>1, <1>2, <1>3
    DEF Next, Ask, Lock, Abandon, Load, Peek, Mark, Write, DiskFails, ToolDies, DaemonDies, history, vars

\* No step makes an unreadable file of one that can be read: a temporary file that is put
\* in place is one that its writer wrote to the end, and nobody else opened.
LEMMA ReadableStays ==
  ASSUME Good, [Next]_vars, file.format # "invalid"
  PROVE  file'.format # "invalid"
  <1>1. ASSUME NEW p \in Process, Replace(p) PROVE file'.format # "invalid"
    BY <1>1, ReplacePuts DEF Store
  <1>2. ASSUME NEW p \in Process, Delete(p) PROVE file'.format # "invalid"
    BY <1>2 DEF Delete, Absent
  <1>3. CASE file' = file
    BY <1>3
  <1> QED
    BY <1>1, <1>2, <1>3
    DEF Next, Ask, Lock, Abandon, Load, Peek, Mark, Write, DiskFails, ToolDies, DaemonDies, vars

\* Whatever requests and tools do at the same time, die or run out of disk, none of them
\* leaves a file behind that can not be read.
THEOREM NoFileIsBroken == Spec => NeverCorrupted
  <1>1. Good /\ [Next]_vars => [file.format # "invalid" => file'.format # "invalid"]_vars
    BY ReadableStays
  <1> QED
    BY <1>1, InitGood, StepGood, PTL DEF Spec, NeverCorrupted

\* For any number of requests that take the lock, with crashes and a full disk at
\* any point, what was enrolled stays until somebody asked to remove it.
THEOREM NothingIsLost ==
  ASSUME Tool = {}
  PROVE  Spec => []NoLostEnrollment
  <1>1. Good /\ Exclusive /\ Kept /\ [Next]_vars => Good' /\ Exclusive' /\ Kept'
    BY StepGood, StepExclusive, StepKept
  <1>2. Kept => NoLostEnrollment
    BY DEF Kept
  <1> QED
    BY <1>1, <1>2, InitGood, InitExclusive, PTL DEF Spec

\* For any number of requests that take the lock, an id is given out once in the life of a
\* file, but for the one that a removal from a file of the older format gives back.
THEOREM IdsAreFresh ==
  ASSUME Tool = {}
  PROVE  Spec => IdFreshInFile
  <1> DEFINE Fresh == \A t \in file'.templates : t \notin file.templates => t.id \notin taken
  <1>1. Good /\ Exclusive /\ Kept /\ [Next]_vars => Good' /\ Exclusive' /\ Kept'
    BY StepGood, StepExclusive, StepKept
  <1>2. Good /\ Exclusive /\ Kept /\ [Next]_vars => [Fresh]_vars
    <2> SUFFICES ASSUME Good, Exclusive, Kept, Next PROVE Fresh
      OBVIOUS
    <2> SUFFICES ASSUME NEW t \in file'.templates, t \notin file.templates, t.id \in taken
                 PROVE  FALSE
      OBVIOUS
    <2>1. ASSUME NEW p \in Process, Replace(p) PROVE FALSE
      <3>0. file'.templates = Content(p)
        BY <2>1, ReplacePuts DEF Store
      <3>1. t \in Content(p) /\ loaded[p] = file.templates /\ job[p].kind \in Kind \ {"clear"}
        BY <2>1, <3>0 DEF Replace, Exclusive, AsLoaded, Good, TypeOK, Numbered
      <3>2. Enrolling(p) /\ t.id = job[p].id
        BY <3>1 DEF Content, Enrolling, Kind
      <3>3. file.next \in Nat /\ job[p].id \in Nat
        BY DEF Good, TypeOK
      <3>4. CASE file.format = "v2"
        <4>1. file.next <= job[p].id /\ t.id < file.next
          BY <2>1, <3>2, <3>4 DEF Replace, Exclusive, AsLoaded, StoredNextId, Kept
        <4> QED
          BY <3>2, <3>3, <4>1
      <3>5. CASE file.format # "v2"
        <4>1. PICK u \in loaded[p] : u.id = t.id
          BY <3>1, <3>5 DEF Kept, Ids
        <4>2. u.id < job[p].id
          BY <2>1, <3>2 DEF Good, Numbered, Replace, Below
        <4> QED
          BY <3>2, <3>3, <4>1, <4>2
      <3> QED
        BY <3>4, <3>5
    <2>2. ASSUME NEW p \in Process, Delete(p) PROVE FALSE
      BY <2>2 DEF Delete, Absent
    <2>3. file' # file
      OBVIOUS
    <2> QED
      BY <2>1, <2>2, <2>3
      DEF Next, Ask, Lock, Abandon, Load, Peek, Mark, Write, DiskFails, ToolDies, DaemonDies
  <1> QED
    BY <1>1, <1>2, InitGood, InitExclusive, PTL DEF Spec, IdFreshInFile

--------------------------------------------------------------------------------
(* The contract of the store *)

\* What a writer knows of the file that it loaded: it can be read, and a removal finds its
\* template, beside others when it writes and alone when it deletes.
Found(p) ==
  /\ at[p] \in {"peek", "mark", "write", "replace"} => file.format # "invalid"
  /\ at[p] \in {"mark", "write", "replace"} /\ job[p].kind = "remove" =>
       {t \in loaded[p] : t.id # job[p].id} \notin {{}, loaded[p]}
  /\ at[p] = "delete" /\ job[p].kind = "remove" => loaded[p] # {}

\* At the start nobody has loaded anything.
LEMMA InitFound == Init => \A p \in Process : Found(p)
  BY DEF Init, Found

\* A process that does nothing knows what it knew: nobody makes a file unreadable.
LEMMA FoundKept ==
  ASSUME NEW p \in Process, Found(p), at'[p] = at[p], job'[p] = job[p], loaded'[p] = loaded[p],
         file.format # "invalid" => file'.format # "invalid"
  PROVE  Found(p)'
  BY DEF Found

\* Every step keeps it.
LEMMA StepFound ==
  ASSUME Good, Kept, \A p \in Process : Found(p), [Next]_vars, NEW q \in Process
  PROVE  Found(q)'
  <1>0. TypeOK /\ Numbered(q) /\ Found(q) /\ (file.format # "invalid" => file'.format # "invalid")
    BY ReadableStays DEF Good
  <1>1. ASSUME NEW p \in Process, Ask(p) \/ Lock(p) PROVE Found(q)'
    <2>1. /\ UNCHANGED <<file, loaded>> /\ at'[p] \in {"lock", "load"}
          /\ q # p => at'[q] = at[q] /\ job'[q] = job[q]
      BY <1>0, <1>1 DEF Ask, Lock, Step, TypeOK
    <2> QED
      BY <1>0, <2>1, FoundKept DEF Found
  <1>2. ASSUME NEW p \in Process, End(p) PROVE Found(q)'
    <2>1. at'[p] = "idle" /\ (q # p => at'[q] = at[q] /\ job'[q] = job[q] /\ loaded'[q] = loaded[q])
      BY <1>0, <1>2 DEF End, Step, TypeOK
    <2> QED
      BY <1>0, <1>2, <2>1, FoundKept DEF Found
  <1>3. ASSUME NEW p \in Process, Load(p), ~End(p) PROVE Found(q)'
    <2>1. file' = file /\ job' = job
      BY <1>3 DEF Load, LoadToEnroll, LoadToRemove, LoadToClear, Continue
    <2>2. CASE q # p
      <3>1. at'[q] = at[q] /\ loaded'[q] = loaded[q]
        BY <1>0, <1>3, <2>2 DEF Load, LoadToEnroll, LoadToRemove, LoadToClear, Continue, Step, TypeOK
      <3> QED
        BY <1>0, <2>1, <3>1, FoundKept
    <2>3. CASE q = p /\ LoadToEnroll(p)
      BY <1>0, <1>3, <2>1, <2>3 DEF LoadToEnroll, Continue, Step, TypeOK, Found
    <2>4. CASE q = p /\ LoadToRemove(p)
      <3> DEFINE remaining == {t \in file.templates : t.id # job[p].id}
      <3>1. /\ remaining # file.templates /\ loaded'[p] = file.templates
            /\ at'[p] = IF remaining = {} THEN "delete" ELSE "mark"
        BY <1>0, <1>3, <2>4 DEF LoadToRemove, Continue, Step, TypeOK
      <3>2. file.templates # {}
        BY <3>1
      <3>3. file.format # "invalid"
        BY <1>3, <3>2 DEF Load, Kept
      <3> QED
        BY <2>1, <2>4, <3>1, <3>2, <3>3 DEF Found
    <2>5. CASE q = p /\ LoadToClear(p)
      BY <1>0, <1>3, <2>1, <2>5 DEF LoadToClear, Continue, Step, TypeOK, Found
    <2> QED
      BY <1>3, <2>2, <2>3, <2>4, <2>5 DEF Load
  <1>4. ASSUME NEW p \in Process, Peek(p) \/ Mark(p) \/ Write(p) PROVE Found(q)'
    <2>1. /\ at[p] \in {"peek", "mark", "write"} /\ UNCHANGED <<file, loaded>>
          /\ at'[p] \in IF at[p] = "peek" THEN {"mark"} ELSE {"write", "replace"}
          /\ job'[p].kind = job[p].kind /\ (at[p] # "peek" => job' = job)
          /\ q # p => at'[q] = at[q] /\ job'[q] = job[q]
      BY <1>0, <1>4 DEF Peek, Mark, Write, Step, TypeOK
    <2>2. at[p] = "peek" => job[p].kind # "remove"
      BY DEF Good, Numbered, Enrolling
    <2> QED
      BY <1>0, <2>1, <2>2, FoundKept DEF Found
  <1>5. CASE DaemonDies
    <2>1. file' = file /\ (at'[q] = "idle" \/ (at'[q] = at[q] /\ job'[q] = job[q] /\ loaded'[q] = loaded[q]))
      BY <1>5 DEF DaemonDies
    <2> QED
      BY <1>0, <2>1, FoundKept DEF Found
  <1>6. CASE UNCHANGED vars
    BY <1>0, <1>6, FoundKept DEF vars
  <1> QED
    BY <1>1, <1>2, <1>3, <1>4, <1>5, <1>6
    DEF Next, Abandon, Load, Replace, Delete, DiskFails, ToolDies

\* What the processes ask for, and what is left of it when one of them is done.
Asked == [p \in Process |-> Wanted(p)]
Unasked == [Nothing EXCEPT !.kind = "none"]
Mark0 == IF file.format = "v2" THEN file.next ELSE 0

\* A process that is done asks for nothing, and the others for what they asked for before.
LEMMA AskedDone ==
  ASSUME Good, NEW p \in Process, End(p)
  PROVE  Asked' = [Asked EXCEPT ![p] = Unasked]
  <1>1. \A q \in Process : at'[q] = (IF q = p THEN "idle" ELSE at[q]) /\ (q # p => job'[q] = job[q])
    BY DEF End, Step, Good, TypeOK
  <1>2. \A q \in Process : Wanted(q)' = IF q = p THEN Unasked ELSE Wanted(q)
    BY <1>1 DEF Wanted, Unasked, Enrolling
  <1> QED
    BY <1>2 DEF Asked

\* A process that goes on still wants what it wanted.
LEMMA AskedKept ==
  ASSUME Good, NEW p \in Process, at[p] # "idle", at'[p] # "idle",
         \A q \in Process : q # p => at'[q] = at[q] /\ job'[q] = job[q],
         job'[p] = job[p] \/ (Enrolling(p) /\ \E id \in Nat : job'[p] = [job[p] EXCEPT !.id = id])
  PROVE  Asked' = Asked
  <1>1. job[p] \in [kind : Kind, id : Nat, space : Space, face : Nat]
    BY DEF Good, TypeOK
  <1>2. \A q \in Process : q # p => Wanted(q)' = Wanted(q)
    BY DEF Wanted, Enrolling
  <1>3. Wanted(p)' = Wanted(p)
    BY <1>1 DEF Wanted, Enrolling
  <1> QED
    BY <1>2, <1>3 DEF Asked

\* os.replace() is the moment of an enrollment, or of a removal that leaves models.
LEMMA ReplaceIsChange ==
  ASSUME Good, Exclusive, NEW p \in Process, Found(p), Replace(p)
  PROVE  Contract!Enroll(p) \/ Contract!Remove(p)
  <1> DEFINE new == [id |-> job[p].id, space |-> job[p].space, face |-> job[p].face]
  <1>1. /\ job[p] \in [kind : Kind, id : Nat, space : Space, face : Nat] /\ mark[p] \in Nat
        /\ loaded[p] = file.templates /\ file.templates \subseteq Template
        /\ at[p] = "replace" /\ job[p].kind \in {"add", "replace", "remove"}
        /\ Below(Content(p), mark[p]) /\ Mark0 <= mark[p] /\ file.format # "invalid"
        /\ Enrolling(p) => Below(loaded[p], job[p].id) /\ Mark0 <= job[p].id
    BY DEF Replace, Good, TypeOK, Kind, Numbered, Exclusive, AsLoaded, Found, Mark0, StoredNextId
  <1>2. /\ file' = Store(Content(p), mark[p]) /\ file'.templates = Content(p) /\ Mark0' = mark[p]
        /\ file'.format # "invalid"
    BY ReplacePuts DEF Store, Mark0
  <1>3. Asked' = [Asked EXCEPT ![p] = Unasked]
    BY AskedDone DEF Replace
  <1>4. Contract!Written
    BY <1>1, <1>2 DEF Contract!Written, Contract!Above, Below, Mark0
  <1>5. CASE Enrolling(p)
    <2>1. Asked[p].kind = job[p].kind /\ Asked[p].space = job[p].space /\ Asked[p].face = job[p].face
      BY <1>1, <1>5 DEF Asked, Wanted
    <2>2. new \in Content(p) /\ Content(p) = {new} \union (IF job[p].kind = "add" THEN file.templates
                                ELSE {m \in file.templates : m.space # job[p].space})
      BY <1>1, <1>5 DEF Content, Enrolling
    <2>3. new.space = Asked[p].space /\ new.face = Asked[p].face /\ new.id >= Mark0
          /\ Contract!Above(new.id, file.templates)
      <3>1. Mark0 \in Nat
        BY DEF Mark0, Good, TypeOK
      <3> QED
        BY <1>1, <1>5, <2>1, <3>1 DEF Contract!Above, Below
    <2> HIDE DEF new
    <2> QED
      BY <1>1, <1>2, <1>3, <1>4, <1>5, <2>1, <2>2, <2>3
      DEF Contract!Enroll, Contract!Done, Asked, Unasked, Enrolling, Mark0
  <1>6. CASE ~Enrolling(p)
    <2>1. job[p].kind = "remove" /\ Asked[p] = job[p]
      BY <1>1, <1>6 DEF Asked, Wanted, Enrolling
    <2>2. Content(p) = {m \in file.templates : m.id # job[p].id} /\ Content(p) \notin {{}, file.templates}
      BY <1>1, <2>1 DEF Content, Found
    <2> QED
      BY <1>2, <1>3, <1>4, <2>1, <2>2 DEF Contract!Remove, Contract!Done, Asked, Unasked
  <1> QED
    BY <1>5, <1>6

\* os.remove() is the moment of a removal of the last model, or of all.
LEMMA DeleteIsChange ==
  ASSUME Good, Exclusive, NEW p \in Process, Found(p), Delete(p)
  PROVE  Contract!Remove(p) \/ Contract!Clear(p)
  <1>1. /\ file' = Absent /\ at[p] = "delete"
        /\ \/ job[p].kind = "clear"
           \/ /\ job[p].kind = "remove" /\ file.templates # {}
              /\ \A t \in file.templates : t.id = job[p].id
    BY DEF Delete, Exclusive, AsLoaded, Found
  <1>2. Asked[p] = job[p]
    BY <1>1 DEF Asked, Wanted, Enrolling
  <1>3. Asked' = [Asked EXCEPT ![p] = Unasked]
    BY AskedDone DEF Delete
  <1>4. Contract!Removed
    BY <1>1 DEF Contract!Removed, Absent
  <1>5. Contract!Done(p)
    BY <1>3 DEF Contract!Done, Asked, Unasked
  <1>6. CASE job[p].kind = "clear"
    BY <1>2, <1>4, <1>5, <1>6 DEF Contract!Clear, Asked
  <1>7. CASE job[p].kind = "remove"
    <2>1. {m \in file.templates : m.id # job[p].id} = {} /\ file.templates # {}
      BY <1>1, <1>7
    <2> QED
      BY <1>2, <1>4, <1>5, <1>7, <2>1 DEF Contract!Remove, Asked
  <1> QED
    BY <1>1, <1>6, <1>7

\* A change that is asked for.
LEMMA AskIsAsk ==
  ASSUME Good, Good', NEW p \in Process, Ask(p)
  PROVE  Contract!Ask(p)
  <1>1. /\ at[p] = "idle" /\ at'[p] \in {"lock", "load"} /\ file' = file
        /\ \A q \in Process : q # p => at'[q] = at[q] /\ job'[q] = job[q]
    BY DEF Ask, Step, Good, TypeOK
  <1>2. Asked[p] = Unasked /\ Asked'[p] \in Contract!Change
    <2>1. job'[p] \in [kind : Kind, id : Nat, space : Space, face : Nat]
      BY DEF Good, TypeOK
    <2> QED
      BY <1>1, <2>1 DEF Asked, Wanted, Unasked, Contract!Change, Kind
  <1>3. Asked' = [Asked EXCEPT ![p] = Asked'[p]]
    <2>1. \A q \in Process : q # p => Wanted(q)' = Wanted(q)
      BY <1>1 DEF Wanted, Enrolling
    <2> QED
      BY <2>1 DEF Asked
  <1> QED
    BY <1>1, <1>2, <1>3 DEF Contract!Ask, Asked, Unasked

\* A process that ends without a change, or is killed.
LEMMA EndIsDrop ==
  ASSUME Good, NEW p \in Process, End(p), file' = file
  PROVE  Contract!Drop({p})
  <1>1. Asked' = [q \in Process |-> IF q \in {p} THEN Unasked ELSE Asked[q]]
    BY AskedDone DEF Asked
  <1> QED
    BY <1>1 DEF Contract!Drop, Asked, Unasked

\* For any number of requests that take the lock, with crashes and a full disk at any
\* point, a change happens in one go to the models that are there, all of what was asked
\* for, or not at all.
THEOREM StoreKeepsContract ==
  ASSUME Tool = {}
  PROVE  Spec => ImplementsFaceModels
  <1> DEFINE AllFound == \A p \in Process : Found(p)
             IInv == Good /\ Exclusive /\ Kept /\ AllFound
  <1>1. Init => IInv
    BY InitGood, InitExclusive, InitFound
  <1>2. IInv /\ [Next]_vars => IInv'
    <2>1. Good /\ Exclusive /\ Kept /\ [Next]_vars => Good' /\ Exclusive' /\ Kept'
      BY StepGood, StepExclusive, StepKept
    <2>2. Good /\ Kept /\ AllFound /\ [Next]_vars => AllFound'
      BY StepFound
    <2> QED
      BY <2>1, <2>2
  <1>3. Init => Contract!Init
    <2> SUFFICES ASSUME Init PROVE Contract!Init
      OBVIOUS
    <2>1. file.templates \subseteq Contract!Model /\ \A t, u \in file.templates : t.id = u.id => t = u
      BY InitGood DEF Good, TypeOK, FileNumbered, Sound, Template, Contract!Model
    <2>2. file.format # "v2" /\ (file.format = "invalid" => file.templates = {})
      BY DEF Init, Absent, Invalid, Legacy
    <2>3. Asked = [p \in Process |-> Unasked]
      BY DEF Init, Asked, Wanted, Unasked
    <2> QED
      BY <2>1, <2>2, <2>3 DEF Contract!Init, Asked, Unasked
  <1>4. IInv /\ IInv' /\ [Next]_vars => [Contract!Next]_(Contract!vars)
    <2> SUFFICES ASSUME Good, Exclusive, AllFound, Good', [Next]_vars
                 PROVE  [Contract!Next]_(Contract!vars)
      OBVIOUS
    <2>1. ASSUME NEW p \in Process, Ask(p) PROVE Contract!Next
      BY <2>1, AskIsAsk DEF Contract!Next
    <2>2. ASSUME NEW p \in Process, Replace(p) PROVE Contract!Next
      BY <2>2, ReplaceIsChange DEF Contract!Next
    <2>3. ASSUME NEW p \in Process, Delete(p) PROVE Contract!Next
      BY <2>3, DeleteIsChange DEF Contract!Next
    <2>4. ASSUME NEW p \in Process, End(p), file' = file PROVE Contract!Next
      BY <2>4, EndIsDrop DEF Contract!Next
    <2>5. CASE DaemonDies
      <3>1. Process = Request
        BY DEF Process
      <3>2. Asked' = [p \in Process |-> Unasked] /\ file' = file
        BY <2>5, <3>1 DEF DaemonDies, Asked, Wanted, Unasked
      <3>3. Contract!Drop(Process)
        BY <3>2 DEF Contract!Drop, Asked, Unasked
      <3> QED
        BY <3>3 DEF Contract!Next
    <2>6. ASSUME file' = file, Asked' = Asked PROVE UNCHANGED Contract!vars
      BY <2>6 DEF Contract!vars, Asked
    <2>7. ASSUME NEW p \in Process, Lock(p) \/ Peek(p) \/ Mark(p) \/ Write(p) \/ (Load(p) /\ ~End(p))
          PROVE  file' = file /\ Asked' = Asked
      <3>1. /\ file' = file /\ at[p] # "idle" /\ at'[p] # "idle"
            /\ \A q \in Process : q # p => at'[q] = at[q] /\ job'[q] = job[q]
            /\ ~Peek(p) => job' = job
        BY <2>7 DEF Lock, Peek, Mark, Write, Load, LoadToEnroll, LoadToRemove, LoadToClear, Continue, Step, Good, TypeOK
      <3>2. CASE ~Peek(p)
        BY <3>1, <3>2, AskedKept
      <3>3. CASE Peek(p)
        <4>1. Enrolling(p) /\ Larger(NextId(loaded[p]), StoredNextId) \in Nat
          <5>1. loaded[p] \in SUBSET Template /\ Sound(loaded[p]) /\ StoredNextId \in Nat /\ Enrolling(p)
            BY <3>3 DEF Peek, Good, TypeOK, Numbered, StoredNextId
          <5> QED
            BY <5>1, MarkAbove
        <4>2. job'[p] = [job[p] EXCEPT !.id = Larger(NextId(loaded[p]), StoredNextId)]
          BY <3>3 DEF Peek, Good, TypeOK
        <4> QED
          BY <3>1, <4>1, <4>2, AskedKept
      <3> QED
        BY <3>2, <3>3
    <2>8. CASE UNCHANGED vars
      <3>1. file' = file /\ Asked' = Asked
        BY <2>8 DEF vars, Asked, Wanted, Enrolling
      <3> QED
        BY <2>6, <3>1
    <2>9. ASSUME NEW p \in Process,
                 \/ Lock(p) \/ Abandon(p) \/ Load(p) \/ Peek(p) \/ Mark(p) \/ Write(p) \/ DiskFails(p) \/ ToolDies(p)
          PROVE  [Contract!Next]_(Contract!vars)
      BY <2>4, <2>6, <2>7, <2>9 DEF Abandon, Load, DiskFails, ToolDies
    <2> QED
      BY <2>1, <2>2, <2>3, <2>5, <2>8, <2>9 DEF Next
  <1> HIDE DEF IInv
  <1> QED
    BY <1>1, <1>2, <1>3, <1>4, PTL DEF Spec, ImplementsFaceModels, Contract!Spec

================================================================================
