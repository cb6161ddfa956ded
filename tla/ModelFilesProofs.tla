--------------------------- MODULE ModelFilesProofs ----------------------------
(***************************************************************************)
(* Theorems about ModelFiles, for any number of runs of fetch-models, of   *)
(* threads, files, backends and faults.                                    *)
(***************************************************************************)
EXTENDS ModelFiles, TLAPS

Stage == {"look", "want", "next", "read", "rename", "unlink", "done", "failed", "killed"}
Busy == {"looks", "ensures", "writes"}
Where == Busy \union {"away", "asks", "got", "failed"}
Reason == {"none", "lacks", "fault", "broken"}

\* What TypeOK leaves out.
Typed ==
  /\ at \in [Fetch -> Stage] /\ name \in [Fetch -> File \union {"none"}]
  /\ place \in [Thread -> Where] /\ reason \in [Thread -> Reason]
  /\ lock \in Thread \union {NoThread} /\ built \in [Key -> Nat]
  /\ opened \in OtherFile \union {"none"}

\* What a run has still to fetch, and what its temporary file is.
Fetched ==
  /\ \A f \in File : files[f] \in {"absent", "whole"}
  /\ \A p \in Fetch :
       /\ at[p] \in {"read", "rename"} => name[p] \in File
       /\ at[p] = "rename" => temp[p] = "whole"
       /\ at[p] = "next" => Missing \subseteq wanted[p]
       /\ at[p] \in {"read", "rename"} => Missing \subseteq wanted[p] \union {name[p]}
       /\ at[p] = "done" => Missing = {}
       /\ at[p] \in {"look", "want", "next", "done", "failed"} => temp[p] = "absent"

\* What a thread that builds knows of the files.
Sighted ==
  \A t \in Thread :
    /\ place[t] = "looks" => /\ key[t] \in DlibKey
                             /\ \A f \in File \ unseen[t] : files[f] = "whole"
                             /\ reason[t] # "lacks" => Missing = {}
    /\ place[t] \in {"ensures", "writes"} =>
         /\ key[t] \in OtherKey
         /\ \A m \in OtherFile \ unseen[t] : model[m] # "absent"
    /\ place[t] = "writes" => opened \in OtherFile /\ model[opened] = "part"

\* The lock's thread is the only one that can change the cache.
Locked ==
  \A t \in Thread :
    /\ place[t] \in Busy <=> lock = t
    /\ lock = t => key[t] \notin cache
    /\ place[t] # "away" => key[t] \in Key

\* A model that was found broken stays what it is, for none is missing and none is written.
Blamed ==
  \A t \in Thread :
    /\ reason[t] = "broken" => /\ place[t] = "failed" /\ key[t] \in OtherKey
                               /\ \E m \in OtherFile : model[m] = "part"
                               /\ \A m \in OtherFile : model[m] # "absent"
                               /\ \A u \in Thread : place[u] # "writes"
    /\ place[t] = "failed" => reason[t] # "none"

Built == \A k \in Key : built[k] = IF k \in cache THEN 1 ELSE 0

Types ==
  /\ files \in [File -> Content] /\ model \in [OtherFile -> Content]
  /\ wanted \in [Fetch -> SUBSET File] /\ temp \in [Fetch -> Content]
  /\ key \in [Thread -> Key \union {"none"}] /\ unseen \in [Thread -> SUBSET (File \union OtherFile)]
  /\ cache \in SUBSET Key

IInv == Types /\ Typed /\ Fetched /\ Sighted /\ Locked /\ Blamed /\ Built

\* It holds at first.
LEMMA InitIInv == Init => IInv
  <1> SUFFICES ASSUME Init PROVE IInv
    OBVIOUS
  <1>1. Types /\ Typed
    BY DEF Init, Types, Typed, Content, Stage, Where, Reason
  <1>2. Fetched
    BY DEF Init, Fetched
  <1>3. Sighted /\ Locked /\ Blamed /\ Built
    BY ThreadAssumption DEF Init, Sighted, Locked, Blamed, Built, Busy
  <1> QED
    BY <1>1, <1>2, <1>3 DEF IInv

--------------------------------------------------------------------------------
(* fetch-models *)

\* No run takes a file away or puts a part of one in place.
LEMMA FilesGrow ==
  ASSUME IInv, NEW p \in Fetch, Fetching(p) \/ Killed(p) \/ Again(p)
  PROVE  /\ files' \in [File -> Content]
         /\ \A f \in File : files'[f] = files[f] \/ files'[f] = "whole"
         /\ UNCHANGED building
  <1>1. CASE Rename(p)
    BY <1>1 DEF Rename, IInv, Types, Fetched, Content
  <1>2. CASE ~Rename(p)
    BY <1>2 DEF Fetching, Killed, Again, Look, Want, Begin, AllFetched, Read, Unlink, IInv, Types
  <1> QED
    BY <1>1, <1>2

LEMMA FetchingTypes ==
  ASSUME IInv, NEW p \in Fetch, Fetching(p) \/ Killed(p) \/ Again(p)
  PROVE  Types' /\ Typed'
  <1> USE DEF IInv, Types, Typed, Go, Ends, Stage, Content
  <1>0. files' \in [File -> Content] /\ UNCHANGED building
    BY FilesGrow
  <1>1. CASE Look(p) \/ Want(p)
    BY <1>0, <1>1 DEF Look, Want, building, Missing
  <1>2. CASE Begin(p)
    BY <1>0, <1>2 DEF Begin, building
  <1>3. CASE AllFetched(p) \/ Unlink(p) \/ Killed(p) \/ Again(p)
    BY <1>0, <1>3 DEF AllFetched, Unlink, Killed, Again, building
  <1>4. CASE Read(p) \/ Rename(p)
    BY <1>0, <1>4 DEF Read, Rename, building
  <1> QED
    BY <1>1, <1>2, <1>3, <1>4 DEF Fetching

\* The files are fewer that a run misses, whoever fetched one.
LEMMA FetchingKeeps ==
  ASSUME IInv, NEW p \in Fetch, Fetching(p) \/ Killed(p) \/ Again(p)
  PROVE  Fetched'
  <1>0. /\ Missing' \subseteq Missing
        /\ \A f \in File : files'[f] \in {"absent", "whole"}
    BY FilesGrow DEF IInv, Fetched, Missing
  <1> SUFFICES ASSUME NEW q \in Fetch
               PROVE  /\ at'[q] \in {"read", "rename"} => name'[q] \in File
                      /\ at'[q] = "rename" => temp'[q] = "whole"
                      /\ at'[q] = "next" => Missing' \subseteq wanted'[q]
                      /\ at'[q] \in {"read", "rename"} => Missing' \subseteq wanted'[q] \union {name'[q]}
                      /\ at'[q] = "done" => Missing' = {}
                      /\ at'[q] \in {"look", "want", "next", "done", "failed"} => temp'[q] = "absent"
    BY <1>0 DEF Fetched
  <1>1. CASE q # p
    <2>1. at'[q] = at[q] /\ wanted'[q] = wanted[q] /\ name'[q] = name[q] /\ temp'[q] = temp[q]
      BY <1>1 DEF Fetching, Killed, Again, Look, Want, Begin, AllFetched, Read, Rename, Unlink,
                  Go, Ends, IInv, Types, Typed
    <2> QED
      BY <1>0, <2>1 DEF IInv, Fetched
  <1>2. CASE q = p
    <2> USE <1>2 DEF IInv, Types, Typed, Fetched, Go, Ends
    <2>1. CASE Look(p) \/ Want(p)
      BY <1>0, <2>1 DEF Look, Want, Missing
    <2>2. CASE Begin(p)
      BY <1>0, <2>2 DEF Begin
    <2>3. CASE AllFetched(p)
      BY <1>0, <2>3 DEF AllFetched
    <2>4. CASE Unlink(p) \/ Killed(p) \/ Again(p)
      BY <1>0, <2>4 DEF Unlink, Killed, Again
    <2>5. CASE Read(p)
      BY <1>0, <2>5 DEF Read, Verified
    <2>6. CASE Rename(p)
      BY <1>0, <2>6 DEF Rename, Missing
    <2> QED
      BY <2>1, <2>2, <2>3, <2>4, <2>5, <2>6 DEF Fetching
  <1> QED
    BY <1>1, <1>2

LEMMA FetchStep ==
  ASSUME IInv, NEW p \in Fetch, Fetching(p) \/ Killed(p) \/ Again(p)
  PROVE  IInv'
  <1>1. /\ UNCHANGED building
        /\ \A f \in File : files'[f] = files[f] \/ files'[f] = "whole"
    BY FilesGrow
  <1>2. Types' /\ Typed' /\ Fetched'
    BY FetchingTypes, FetchingKeeps
  <1>3. Sighted'
    BY <1>1 DEF building, IInv, Sighted, Missing
  <1>4. Locked' /\ Blamed' /\ Built'
    BY <1>1 DEF building, IInv, Locked, Blamed, Built
  <1> QED
    BY <1>2, <1>3, <1>4 DEF IInv

--------------------------------------------------------------------------------
(* create_pipeline() *)

Steps(t) ==
  \/ Building(t) \/ Enter(t) \/ Leave(t) \/ \E k \in Key : Ask(t, k)

\* A thread that builds or asks does nothing to the data directory.
LEMMA ThreadsOnlyRead ==
  ASSUME IInv, NEW t \in Thread, Steps(t)
  PROVE  UNCHANGED <<files, fetching>> /\ Fetched'
  <1>1. UNCHANGED <<files, fetching>>
    BY DEF Steps, Building, Enter, Leave, Ask, LookFor, Ensure, WriteModel, NoNetwork,
           LoadFails, Load
  <1> QED
    BY <1>1 DEF IInv, Fetched, fetching, Missing

\* What one step of a thread leaves to the others.
LEMMA OthersStay ==
  ASSUME IInv, NEW t \in Thread, Steps(t), NEW u \in Thread, u # t
  PROVE  /\ place'[u] = place[u] /\ key'[u] = key[u]
         /\ unseen'[u] = unseen[u] /\ reason'[u] = reason[u]
  BY DEF IInv, Types, Typed, Steps, Building, Enter, Leave, Ask, LookFor, Ensure, WriteModel,
         NoNetwork, LoadFails, Load, Fail, Move

LEMMA StepTypes ==
  ASSUME IInv, NEW t \in Thread, Steps(t)
  PROVE  Types' /\ Typed'
  <1> USE DEF IInv, Types, Typed, Move, Fail, Where, Busy, Reason, Content
  <1>0. UNCHANGED <<files, at, wanted, name, temp>>
    BY ThreadsOnlyRead DEF fetching
  <1>1. CASE \E k \in Key : Ask(t, k)
    BY <1>0, <1>1 DEF Ask
  <1>2. CASE Enter(t)
    BY <1>0, <1>2 DEF Enter
  <1>3. CASE Leave(t)
    BY <1>0, <1>3 DEF Leave
  <1>4. CASE WriteModel(t) \/ \E m \in OtherFile : Ensure(t, m) \/ NoNetwork(t, m)
    BY <1>0, <1>4 DEF Ensure, WriteModel, NoNetwork
  <1>5. CASE LoadFails(t)
    BY <1>0, <1>5 DEF LoadFails
  <1>6. CASE Load(t)
    <2>1. key[t] \in Key
      BY <1>6 DEF Load, Ready, Locked
    <2> QED
      BY <1>0, <1>6, <2>1 DEF Load
  <1>7. CASE \E f \in File : LookFor(t, f)
    <2>1. PICK f \in File : LookFor(t, f)
      BY <1>7
    <2>2. files[f] = "absent" => reason[t] = "lacks"
      BY <2>1 DEF LookFor, Sighted, Missing
    <2> QED
      BY <1>0, <2>1, <2>2 DEF LookFor
  <1> QED
    BY <1>1, <1>2, <1>3, <1>4, <1>5, <1>6, <1>7 DEF Steps, Building

\* Only the thread that has the lock builds, and it is the last to have looked at the cache.
LEMMA StepLocks ==
  ASSUME IInv, NEW t \in Thread, Steps(t)
  PROVE  Locked'
  <1> USE DEF IInv, Types, Typed, Move, Fail
  <1>1. /\ place'[t] \in Busy <=> lock' = t
        /\ lock' = t => key'[t] \notin cache'
        /\ place'[t] # "away" => key'[t] \in Key
    <2> USE ThreadAssumption DEF Locked, Busy
    <2>1. CASE (\E k \in Key : Ask(t, k)) \/ Leave(t)
      BY <2>1 DEF Ask, Leave
    <2>2. CASE Enter(t)
      BY <2>2 DEF Enter
    <2>3. CASE WriteModel(t) \/ \E m \in OtherFile : Ensure(t, m) \/ NoNetwork(t, m)
      BY <2>3 DEF Ensure, WriteModel, NoNetwork
    <2>4. CASE LoadFails(t) \/ Load(t)
      BY <2>4 DEF LoadFails, Load, Ready
    <2>5. CASE \E f \in File : LookFor(t, f)
      BY <2>5 DEF LookFor
    <2> QED
      BY <2>1, <2>2, <2>3, <2>4, <2>5 DEF Steps, Building
  <1>2. /\ lock' # lock => lock \in {t, NoThread} /\ lock' \in {t, NoThread}
        /\ cache' # cache => lock = t
    <2> USE DEF Locked, Busy
    <2>1. CASE (\E k \in Key : Ask(t, k)) \/ Leave(t) \/ Enter(t)
      BY <2>1 DEF Ask, Leave, Enter
    <2>2. CASE WriteModel(t) \/ \E m \in OtherFile : Ensure(t, m) \/ NoNetwork(t, m)
      BY <2>2 DEF Ensure, WriteModel, NoNetwork
    <2>3. CASE LoadFails(t) \/ Load(t) \/ \E f \in File : LookFor(t, f)
      BY <2>3 DEF LoadFails, Load, Ready, LookFor
    <2> QED
      BY <2>1, <2>2, <2>3 DEF Steps, Building
  <1>3. ASSUME NEW u \in Thread, u # t
        PROVE  /\ place'[u] \in Busy <=> lock' = u
               /\ lock' = u => key'[u] \notin cache'
               /\ place'[u] # "away" => key'[u] \in Key
    <2>1. place'[u] = place[u] /\ key'[u] = key[u]
      BY <1>3, OthersStay
    <2> QED
      BY <1>2, <1>3, <2>1, ThreadAssumption DEF Locked
  <1> QED
    BY <1>1, <1>3 DEF Locked

\* A thread that builds has the model files to itself.
LEMMA ModelIsTheBuilders ==
  ASSUME IInv, NEW t \in Thread, Steps(t)
  PROVE  /\ <<model, opened>>' # <<model, opened>> => lock = t
         /\ model' # model => place[t] = "writes" \/ \E m \in OtherFile : model[m] = "absent"
  <1> USE DEF IInv, Locked, Busy
  <1>1. CASE WriteModel(t) \/ \E m \in OtherFile : Ensure(t, m)
    BY <1>1 DEF Ensure, WriteModel
  <1>2. CASE ~WriteModel(t) /\ ~\E m \in OtherFile : Ensure(t, m)
    BY <1>2 DEF Steps, Building, Enter, Leave, Ask, LookFor, NoNetwork, LoadFails, Load
  <1> QED
    BY <1>1, <1>2

\* A dlib build saw every file that it does not look for any more.
LEMMA StepSights ==
  ASSUME IInv, NEW t \in Thread, Steps(t)
  PROVE  Sighted'
  <1> DEFINE Sight(u) ==
        /\ place[u] = "looks" => /\ key[u] \in DlibKey
                                 /\ \A f \in File \ unseen[u] : files[f] = "whole"
                                 /\ reason[u] # "lacks" => Missing = {}
        /\ place[u] \in {"ensures", "writes"} =>
             /\ key[u] \in OtherKey
             /\ \A m \in OtherFile \ unseen[u] : model[m] # "absent"
        /\ place[u] = "writes" => opened \in OtherFile /\ model[opened] = "part"
  <1>0. files' = files /\ Missing' = Missing
    BY ThreadsOnlyRead DEF Missing
  <1>1. Sight(t)'
    <2> USE <1>0 DEF IInv, Types, Typed, Move, Fail, Sighted
    <2>1. CASE (\E k \in Key : Ask(t, k)) \/ Leave(t)
      BY <2>1 DEF Ask, Leave
    <2>2. CASE Enter(t)
      BY <2>2 DEF Enter, Locked, Key
    <2>3. CASE WriteModel(t) \/ \E m \in OtherFile : Ensure(t, m) \/ NoNetwork(t, m)
      BY <2>3 DEF Ensure, WriteModel, NoNetwork
    <2>4. CASE LoadFails(t) \/ Load(t)
      BY <2>4 DEF LoadFails, Load
    <2>5. CASE \E f \in File : LookFor(t, f)
      BY <2>5 DEF LookFor, Fetched
    <2> QED
      BY <2>1, <2>2, <2>3, <2>4, <2>5 DEF Steps, Building
  <1>2. ASSUME NEW u \in Thread, u # t PROVE Sight(u)'
    <2>1. /\ place'[u] = place[u] /\ key'[u] = key[u]
          /\ unseen'[u] = unseen[u] /\ reason'[u] = reason[u]
      BY <1>2, OthersStay
    <2>2. place[u] \in Busy => model' = model /\ opened' = opened
      BY <1>2, ModelIsTheBuilders DEF IInv, Locked
    <2> QED
      BY <1>0, <2>1, <2>2 DEF IInv, Sighted, Busy
  <1> QED
    BY <1>1, <1>2 DEF Sighted

\* What a build is blamed on stays so, and a key is built when it is cached.
LEMMA StepBlames ==
  ASSUME IInv, NEW t \in Thread, Steps(t)
  PROVE  Blamed'
  <1> DEFINE Blame(u) ==
        /\ reason[u] = "broken" => /\ place[u] = "failed" /\ key[u] \in OtherKey
                                   /\ \E m \in OtherFile : model[m] = "part"
                                   /\ \A m \in OtherFile : model[m] # "absent"
                                   /\ \A v \in Thread : place[v] # "writes"
        /\ place[u] = "failed" => reason[u] # "none"
  <1>1. ASSUME NEW u \in Thread, u # t PROVE Blame(u)'
    <2>1. /\ place'[u] = place[u] /\ key'[u] = key[u] /\ reason'[u] = reason[u]
      BY <1>1, OthersStay
    <2>2. ASSUME reason[u] = "broken"
          PROVE  model' = model /\ \A v \in Thread : place'[v] # "writes"
      <3>1. (\A m \in OtherFile : model[m] # "absent") /\ \A v \in Thread : place[v] # "writes"
        BY <2>2 DEF IInv, Blamed
      <3>2. model' = model
        BY <3>1, ModelIsTheBuilders
      <3>3. place'[t] # "writes"
        BY <3>1 DEF IInv, Typed, Steps, Building, Enter, Leave, Ask, LookFor, Ensure, WriteModel,
                    NoNetwork, LoadFails, Load, Fail, Move
      <3> QED
        BY <3>1, <3>2, <3>3, OthersStay
    <2> QED
      BY <2>1, <2>2 DEF IInv, Blamed
  <1>2. Blame(t)'
    <2> USE DEF IInv, Types, Typed, Move, Fail, Blamed
    <2>1. CASE (\E k \in Key : Ask(t, k)) \/ Leave(t) \/ Enter(t)
      BY <2>1 DEF Ask, Leave, Enter
    <2>2. CASE WriteModel(t) \/ \E m \in OtherFile : Ensure(t, m) \/ NoNetwork(t, m)
      BY <2>2 DEF Ensure, WriteModel, NoNetwork
    <2>3. CASE Load(t)
      BY <2>3 DEF Load
    <2>4. CASE LoadFails(t)
      <3>1. lock = t
        BY <2>4 DEF LoadFails, Ready, Locked, Busy
      <3>2. \A v \in Thread : v # t => place[v] # "writes"
        BY <3>1 DEF Locked, Busy
      <3>3. ~Sound(key[t]) => /\ key[t] \in OtherKey
                              /\ \E m \in OtherFile : model[m] = "part"
                              /\ \A m \in OtherFile : model[m] # "absent"
        BY <2>4, KeyAssumption DEF LoadFails, Ready, Sound, Sighted, Content
      <3> QED
        BY <2>4, <3>2, <3>3 DEF LoadFails
    <2>5. CASE \E f \in File : LookFor(t, f)
      BY <2>5 DEF LookFor
    <2> QED
      BY <2>1, <2>2, <2>3, <2>4, <2>5 DEF Steps, Building
  <1> QED
    BY <1>1, <1>2 DEF Blamed

LEMMA StepBuilds ==
  ASSUME IInv, NEW t \in Thread, Steps(t)
  PROVE  Built'
  <1>1. CASE Load(t)
    <2>1. key[t] \in Key /\ key[t] \notin cache
      BY <1>1 DEF Load, Ready, IInv, Locked, Busy
    <2> QED
      BY <1>1, <2>1 DEF Load, IInv, Typed, Built
  <1>2. CASE ~Load(t)
    BY <1>2 DEF IInv, Built, Steps, Building, Enter, Leave, Ask, LookFor, Ensure, WriteModel,
                NoNetwork, LoadFails
  <1> QED
    BY <1>1, <1>2

\* The daemon comes back with nothing cached and the lock free.
LEMMA RestartStep == IInv /\ Restart => IInv'
  <1> SUFFICES ASSUME IInv, Restart PROVE IInv'
    OBVIOUS
  <1>1. Types' /\ Typed'
    BY DEF Restart, IInv, Types, Typed, fetching, Where, Reason
  <1>2. Fetched'
    BY DEF Restart, IInv, Fetched, fetching, Missing
  <1>3. Sighted' /\ Locked' /\ Blamed' /\ Built'
    BY ThreadAssumption DEF Restart, Sighted, Locked, Blamed, Built, Busy
  <1> QED
    BY <1>1, <1>2, <1>3 DEF IInv

--------------------------------------------------------------------------------

LEMMA Stutter == IInv /\ UNCHANGED vars => IInv'
  BY DEF vars, fetching, building, IInv, Types, Typed, Fetched, Sighted, Locked, Blamed, Built,
         Missing

LEMMA StepIInv == IInv /\ [Next]_vars => IInv'
  <1> SUFFICES ASSUME IInv, Next PROVE IInv'
    BY Stutter
  <1>1. CASE \E p \in Fetch : Fetching(p) \/ Killed(p) \/ Again(p)
    BY <1>1, FetchStep
  <1>2. CASE \E t \in Thread : Steps(t)
    <2>1. PICK t \in Thread : Steps(t)
      BY <1>2
    <2>2. Types' /\ Typed' /\ Fetched'
      BY <2>1, StepTypes, ThreadsOnlyRead
    <2>3. Sighted' /\ Locked'
      BY <2>1, StepSights, StepLocks
    <2>4. Blamed' /\ Built'
      BY <2>1, StepBlames, StepBuilds
    <2> QED
      BY <2>2, <2>3, <2>4 DEF IInv
  <1>3. CASE Restart
    BY <1>3, RestartStep
  <1> QED
    BY <1>1, <1>2, <1>3 DEF Next, Steps

\* The invariant holds in every state that is reached.
LEMMA Invariance == Spec => []IInv
  BY InitIInv, StepIInv, PTL DEF Spec

\* The types; and a pipeline is built once for its key while the daemon lives, by the thread
\* that has create_pipeline()'s lock.
THEOREM FilesTypeCorrect == Spec => []TypeOK
  <1>1. IInv => TypeOK
    BY DEF IInv, Types, Locked, Built, Busy, TypeOK
  <1> QED
    BY <1>1, Invariance, PTL

\* However many runs of fetch-models there are at once, and wherever they are stopped, what
\* is found under the name of a dlib file is all of it, and a run that says it is done
\* leaves none missing (fetch_all(), _download_and_verify()).
THEOREM NoBrokenDownload == Spec => []FilesAreWhole
  <1>1. IInv => FilesAreWhole
    BY DEF IInv, Fetched, FilesAreWhole
  <1> QED
    BY <1>1, Invariance, PTL

\* A build fails for a reason it found itself: no failure of an earlier one is kept, and
\* a file that is broken can only be MediaPipe's model (create_pipeline()).
THEOREM FailuresAreNew == Spec => []FailureIsNew
  <1>1. IInv => FailureIsNew
    BY DEF IInv, Typed, Blamed, Reason, FailureIsNew
  <1> QED
    BY <1>1, Invariance, PTL
================================================================================
