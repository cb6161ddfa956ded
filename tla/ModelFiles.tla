------------------------------ MODULE ModelFiles ------------------------------
(***************************************************************************)
(* The files that the recognition backends load: fetch-models, which       *)
(* downloads what is missing for dlib (dlib_models.py), several runs of it *)
(* at once, from a terminal and from the dashboard; and the daemon's       *)
(* threads, which build a pipeline when they first need one                *)
(* (create_pipeline()), where MediaPipe downloads its models itself.       *)
(***************************************************************************)
EXTENDS Naturals, FiniteSets

CONSTANTS
  Fetch,      \* bound: runs of fetch-models
  Thread,     \* bound: threads of the daemon that want a pipeline
  File,       \* FILES: they are fetched and looked for one by one
  DlibKey,    \* cache keys with the dlib backend, with and without use_cnn
  OtherKey,   \* cache keys with the MediaPipe backend
  OtherFile,  \* its models, a detector and a landmarker; the order is left open
  MaxFaults,  \* bound: builds that a library or the network makes fail
  NoThread

ASSUME FileAssumption == IsFiniteSet(File)
ASSUME KeyAssumption == DlibKey \intersect OtherKey = {}
ASSUME FaultAssumption == MaxFaults \in Nat
ASSUME ThreadAssumption == NoThread \notin Thread

Key == DlibKey \union OtherKey

VARIABLES
  files,   \* what is in the data directory under the name of a file
  model,   \* what is in the cache directory under the name of a model of MediaPipe
  opened,  \* the model that is being downloaded
  at,      \* where a run of fetch-models stands
  wanted,  \* the files a run has still to fetch
  name,    \* the file it downloads
  temp,    \* what its temporary file holds
  place,   \* where a thread stands
  key,     \* what it wants a pipeline for
  unseen,  \* the files it has still to look for
  lock,    \* _pipeline_cache_lock
  cache,   \* _pipeline_cache
  built,   \* history: how often a pipeline was built that is cached
  reason,  \* history: what may make the build fail that a thread began
  faults   \* history: builds that were made to fail

fetching == <<at, wanted, name, temp>>
building == <<model, opened, place, key, unseen, lock, cache, built, reason, faults>>
vars == <<files, fetching, building>>

Content == {"absent", "part", "whole"}

Missing == {f \in File : files[f] = "absent"}

Init ==
  /\ files \in [File -> {"absent", "whole"}]
  /\ model \in [OtherFile -> Content] /\ opened = "none"
  /\ at = [p \in Fetch |-> "look"] /\ wanted = [p \in Fetch |-> {}]
  /\ name = [p \in Fetch |-> "none"] /\ temp = [p \in Fetch |-> "absent"]
  /\ place = [t \in Thread |-> "away"] /\ key = [t \in Thread |-> "none"]
  /\ unseen = [t \in Thread |-> {}] /\ lock = NoThread
  /\ cache = {} /\ built = [k \in Key |-> 0]
  /\ reason = [t \in Thread |-> "none"] /\ faults = 0

--------------------------------------------------------------------------------
(* fetch-models *)

Go(p, next) == at' = [at EXCEPT ![p] = next]

\* A run ends, and forgets what it was at.
Ends(p, how) ==
  /\ Go(p, how)
  /\ wanted' = [wanted EXCEPT ![p] = {}] /\ name' = [name EXCEPT ![p] = "none"]

\* Nothing is missing, or missing() is asked once more for what is wanted.
Look(p) ==
  /\ at[p] = "look"
  /\ Go(p, IF Missing = {} THEN "done" ELSE "want")
  /\ UNCHANGED <<files, wanted, name, temp, building>>

Want(p) ==
  /\ at[p] = "want"
  /\ wanted' = [wanted EXCEPT ![p] = Missing]
  /\ Go(p, "next")
  /\ UNCHANGED <<files, name, temp, building>>

\* The next file: mkstemp(), which may fail.
Begin(p) ==
  /\ at[p] = "next" /\ wanted[p] # {}
  /\ \/ /\ \E f \in wanted[p] :
             /\ name' = [name EXCEPT ![p] = f]
             /\ wanted' = [wanted EXCEPT ![p] = @ \ {f}]
        /\ Go(p, "read") /\ temp' = [temp EXCEPT ![p] = "part"]
     \/ Ends(p, "failed") /\ UNCHANGED temp
  /\ UNCHANGED <<files, building>>

AllFetched(p) ==
  /\ at[p] = "next" /\ wanted[p] = {}
  /\ Ends(p, "done")
  /\ UNCHANGED <<files, temp, building>>

\* Variant of Verified that takes what it got.
VerifiedUnseen(content) == content # "absent"

\* The end of the stream was seen, and the checksum is right.
Verified(content) == content = "whole"

\* The download ends: all of it came, or what came was cut short or is something else,
\* or reading, unpacking or writing it raises.
Read(p) ==
  /\ at[p] = "read"
  /\ \/ \E content \in {"part", "whole"} :
          /\ temp' = [temp EXCEPT ![p] = content]
          /\ Go(p, IF Verified(content) THEN "rename" ELSE "unlink")
     \/ Go(p, "unlink") /\ UNCHANGED temp
  /\ UNCHANGED <<files, wanted, name, building>>

\* chmod() and replace(), which may raise.
Rename(p) ==
  /\ at[p] = "rename"
  /\ \/ /\ files' = [files EXCEPT ![name[p]] = temp[p]]
        /\ temp' = [temp EXCEPT ![p] = "absent"]
        /\ Go(p, "next")
     \/ Go(p, "unlink") /\ UNCHANGED <<files, temp>>
  /\ UNCHANGED <<wanted, name, building>>

\* What was raised goes on when the temporary file is gone.
Unlink(p) ==
  /\ at[p] = "unlink"
  /\ temp' = [temp EXCEPT ![p] = "absent"]
  /\ Ends(p, "failed")
  /\ UNCHANGED <<files, building>>

\* The run is killed or interrupted; no handler is there for that.
Killed(p) ==
  /\ at[p] \notin {"done", "failed", "killed"}
  /\ Ends(p, "killed")
  /\ UNCHANGED <<files, temp, building>>

\* It is tried again. A temporary file that a killed run left is not looked at any more.
Again(p) ==
  /\ at[p] \in {"done", "failed", "killed"}
  /\ Go(p, "look") /\ temp' = [temp EXCEPT ![p] = "absent"]
  /\ UNCHANGED <<files, wanted, name, building>>

Fetching(p) ==
  Look(p) \/ Want(p) \/ Begin(p) \/ AllFetched(p) \/ Read(p) \/ Rename(p) \/ Unlink(p)

--------------------------------------------------------------------------------
(* create_pipeline() *)

Move(t, next) == place' = [place EXCEPT ![t] = next]

\* Variant of Fail that leaves the lock locked.
FailLocked(t, why) ==
  /\ Move(t, "failed") /\ unseen' = [unseen EXCEPT ![t] = {}]
  /\ reason' = [reason EXCEPT ![t] = why]
  /\ UNCHANGED lock

\* The build raises, inside the with statement.
Fail(t, why) ==
  /\ Move(t, "failed") /\ unseen' = [unseen EXCEPT ![t] = {}]
  /\ reason' = [reason EXCEPT ![t] = why]
  /\ lock' = NoThread

\* A thread has a request that needs a pipeline; the configuration may have changed.
Ask(t, k) ==
  /\ place[t] = "away"
  /\ key' = [key EXCEPT ![t] = k]
  /\ Move(t, "asks")
  /\ UNCHANGED <<files, fetching, model, opened, unseen, lock, cache, built, reason, faults>>

\* Variant of Enter that does not wait for the lock.
EnterAtOnce(t) ==
  /\ place[t] = "asks"
  /\ IF key[t] \in cache
       THEN Move(t, "got") /\ UNCHANGED <<lock, unseen, reason>>
       ELSE /\ lock' = t
            /\ Move(t, IF key[t] \in DlibKey THEN "looks" ELSE "ensures")
            /\ unseen' = [unseen EXCEPT ![t] = IF key[t] \in DlibKey THEN File ELSE OtherFile]
            /\ reason' = [reason EXCEPT ![t] = IF Missing = {} THEN "none" ELSE "lacks"]
  /\ UNCHANGED <<files, fetching, model, opened, key, cache, built, faults>>

\* The lock is taken and the cache looked at. What is there is returned at once.
Enter(t) ==
  /\ place[t] = "asks" /\ lock = NoThread
  /\ IF key[t] \in cache
       THEN Move(t, "got") /\ UNCHANGED <<lock, unseen, reason>>
       ELSE /\ lock' = t
            /\ Move(t, IF key[t] \in DlibKey THEN "looks" ELSE "ensures")
            /\ unseen' = [unseen EXCEPT ![t] = IF key[t] \in DlibKey THEN File ELSE OtherFile]
            /\ reason' = [reason EXCEPT ![t] = IF Missing = {} THEN "none" ELSE "lacks"]
  /\ UNCHANGED <<files, fetching, model, opened, key, cache, built, faults>>

\* DlibDetector() looks for the files before it loads one.
LookFor(t, f) ==
  /\ place[t] = "looks" /\ f \in unseen[t]
  /\ IF files[f] = "absent"
       THEN Fail(t, IF reason[t] = "lacks" THEN "lacks" ELSE "unexplained")
       ELSE unseen' = [unseen EXCEPT ![t] = @ \ {f}] /\ UNCHANGED <<place, lock, reason>>
  /\ UNCHANGED <<files, fetching, model, opened, key, cache, built, faults>>

\* _ensure_model(): a file that is there is taken as it is. One that is not is opened
\* under its own name.
Ensure(t, m) ==
  /\ place[t] = "ensures" /\ m \in unseen[t]
  /\ unseen' = [unseen EXCEPT ![t] = @ \ {m}]
  /\ IF model[m] = "absent"
       THEN Move(t, "writes") /\ model' = [model EXCEPT ![m] = "part"] /\ opened' = m
       ELSE UNCHANGED <<place, model, opened>>
  /\ UNCHANGED <<files, fetching, key, lock, cache, built, reason, faults>>

\* It is written; or the disk is full.
WriteModel(t) ==
  /\ place[t] = "writes"
  /\ \/ /\ Move(t, "ensures") /\ model' = [model EXCEPT ![opened] = "whole"]
        /\ UNCHANGED <<unseen, lock, reason, faults>>
     \/ faults < MaxFaults /\ Fail(t, "fault") /\ faults' = faults + 1 /\ UNCHANGED model
  /\ opened' = "none"
  /\ UNCHANGED <<files, fetching, key, cache, built>>

\* No connection: nothing was opened.
NoNetwork(t, m) ==
  /\ place[t] = "ensures" /\ m \in unseen[t] /\ model[m] = "absent" /\ faults < MaxFaults
  /\ Fail(t, "fault") /\ faults' = faults + 1
  /\ UNCHANGED <<files, fetching, model, opened, key, cache, built>>

\* All there is to load was found.
Ready(t) == place[t] \in {"looks", "ensures"} /\ unseen[t] = {}

\* What is loaded is whole.
Sound(k) ==
  IF k \in DlibKey THEN \A f \in File : files[f] = "whole"
                   ELSE \A m \in OtherFile : model[m] = "whole"

\* Loading raises: a file is broken, or the library is missing or out of memory.
LoadFails(t) ==
  /\ Ready(t)
  /\ \/ ~Sound(key[t]) /\ Fail(t, "broken") /\ UNCHANGED faults
     \/ faults < MaxFaults /\ Fail(t, "fault") /\ faults' = faults + 1
  /\ UNCHANGED <<files, fetching, model, opened, key, cache, built>>

\* The pipeline is built, cached and returned.
Load(t) ==
  /\ Ready(t) /\ Sound(key[t])
  /\ cache' = cache \union {key[t]}
  /\ built' = [built EXCEPT ![key[t]] = @ + 1]
  /\ Move(t, "got") /\ lock' = NoThread /\ reason' = [reason EXCEPT ![t] = "none"]
  /\ UNCHANGED <<files, fetching, model, opened, key, unseen, faults>>

\* create_pipeline() returned or raised; the thread is free for its next request.
Leave(t) ==
  /\ place[t] \in {"got", "failed"}
  /\ Move(t, "away")
  /\ key' = [key EXCEPT ![t] = "none"] /\ reason' = [reason EXCEPT ![t] = "none"]
  /\ UNCHANGED <<files, fetching, model, opened, unseen, lock, cache, built, faults>>

\* The daemon dies and is started again, at any point of a build.
Restart ==
  /\ faults < MaxFaults /\ faults' = faults + 1
  /\ place' = [t \in Thread |-> "away"] /\ unseen' = [t \in Thread |-> {}]
  /\ key' = [t \in Thread |-> "none"] /\ reason' = [t \in Thread |-> "none"]
  /\ lock' = NoThread /\ opened' = "none" /\ cache' = {} /\ built' = [k \in Key |-> 0]
  /\ UNCHANGED <<files, fetching, model>>

Building(t) ==
  \/ WriteModel(t) \/ LoadFails(t) \/ Load(t)
  \/ \E f \in File : LookFor(t, f)
  \/ \E m \in OtherFile : Ensure(t, m) \/ NoNetwork(t, m)

Next ==
  \/ \E p \in Fetch : Fetching(p) \/ Killed(p) \/ Again(p)
  \/ \E t \in Thread : Building(t) \/ Enter(t) \/ Leave(t) \/ \E k \in Key : Ask(t, k)
  \/ Restart

Spec == Init /\ [][Next]_vars

\* A build comes to an end.
FairSpec == Spec /\ \A t \in Thread : WF_vars(Building(t))

--------------------------------------------------------------------------------

\* Types. A pipeline is built once for its key as long as the daemon lives, and by the
\* thread that has the lock.
TypeOK ==
  /\ files \in [File -> Content] /\ model \in [OtherFile -> Content]
  /\ wanted \in [Fetch -> SUBSET File] /\ temp \in [Fetch -> Content]
  /\ key \in [Thread -> Key \union {"none"}] /\ unseen \in [Thread -> SUBSET (File \union OtherFile)]
  /\ cache \in SUBSET Key
  /\ \A k \in Key : built[k] = IF k \in cache THEN 1 ELSE 0
  /\ \A t \in Thread : place[t] \in {"looks", "ensures", "writes"} <=> lock = t

\* "A broken download never leaves a half written .dat behind": whatever stops a run, and
\* however many run at once, what is found under a file's name is all of it. A run that
\* says it is done leaves none missing, and unless it was killed no temporary file.
FilesAreWhole ==
  /\ \A f \in File : files[f] \in {"absent", "whole"}
  /\ \A p \in Fetch :
       /\ at[p] = "done" => Missing = {}
       /\ at[p] \in {"done", "failed"} => temp[p] = "absent"

\* A build that fails has a reason of its own (create_pipeline(), DlibDetector()). When all
\* files were there as it began, and nothing went wrong in the build itself, only a model
\* that MediaPipe's first download left unfinished can be to blame: after fetch-models the
\* next login has its dlib pipeline, and no failure outlives its cause in the cache.
FailureIsNew ==
  \A t \in Thread : place[t] = "failed" =>
    /\ reason[t] \in {"lacks", "fault", "broken"}
    /\ reason[t] = "broken" => key[t] \in OtherKey /\ \E m \in OtherFile : model[m] = "part"

\* The lock that every login and every session of the daemon needs comes back, also when
\* a build fails.
LockComesBack == lock # NoThread ~> lock = NoThread
================================================================================
