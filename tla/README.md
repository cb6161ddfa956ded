# SecureEye, specified

TLA+ modules for the parts of SecureEye (a face recognition login for Linux)
whose correctness depends on the order in which threads, processes and messages
act, the TLC configurations that check them, and theorems checked by TLAPS.
Every definition is translated from the source; `PROJECT.json` maps it to the
lines it stands for (paths below are relative to `src/secureEye/src/`).

## The system

| Part | State it keeps | Operations | Talks to |
|---|---|---|---|
| PAM module `pam/` | one login's threads, `confirmation_type`, futures | `identify` | daemon (socket), application (conversation), uinput |
| Auth daemon `authd/main.py` | stop event, slots, threads, a pool per login | `serve`, `_handle_client`, `_run_session` | PAM module, GUI, sessions |
| Management `authd/manage.py` | models lock, watcher per request | enroll, test, list, remove, clear, cancel | sessions, template store |
| Camera arbiter `authd/camera.py` | holder, number of logins inside `acquire` | `acquire`, `release` | daemon, `cancel()` of sessions |
| Sessions `auth/session.py`, `enrollment.py`, `recognition_probe.py`, `capture.py` | stream, cancel event, released flag | `run`, `cancel` | camera, template store |
| Template store `auth/template_store.py` | one JSON file per user | `append`, `replace_space`, `save`, `delete` | files |
| Command line `cli/` | none | add, re-enroll, remove, clear, set, disable | template store, `config.ini` |
| Rubber stamps `rubberstamps/` | a timer, a pressed key | `execute`, `nod`, `hotkey` | session, keyboard |
| GUI `gui/src/` | requests, model list, pending edits | Qt slots | daemon, command line tool, systemd |
| Recognition `auth/pipeline.py`, `matching.py`, `detector_factory.py`, `detectors/` | a cache of pipelines and its lock | build, detect, embed, compare | model files |
| Model files `dlib_models.py`, `mediapipe_detector.py` | files in a data and a cache directory | `fetch-models`, download at first use | network, recognition |

A login goes from the PAM module over a Unix socket to a thread of the daemon,
which asks the arbiter for the camera and runs an `AuthSession` in a pool of its
own; the handler answers at its deadline even when that thread is still busy. A
management request runs in its connection's thread, is watched by another one
for a cancel of the client, and loses the camera to any login. Both write
nothing but the template store, which the command line tools write too.

### What is hard, and what makes each part correct

- Arbiter: a condition variable with two classes of waiters. One holder, an exact
  count, no lost wakeup, logins first, management told to yield.
- Sessions: `cancel()` comes from other threads at any moment, before the stream
  exists, while it is read, while it is released. The device must be open only
  for the holder of the camera; the answer must tell what happened.
- Daemon: bounded slots that every path gives back, an end that does not wait for
  a session that hangs.
- Template store: a load, change and save by several writers, one of them without
  the lock; crashes; an id must name one model.
- PAM module: two threads race, the loser is joined, cancelled or woken with a
  fake key press. No thread may outlive the call, no result may be read from a
  cancelled thread, the user must not be stuck without a word.
- GUI configuration: an edit while a save runs, writers of `config.ini` that know
  nothing of each other, a page that must not be stale without a sign.
- GUI clients: requests are dropped, replaced and cancelled while the daemon works
  on them. What the page shows must be what there is, a result must not contradict
  what was written, and nobody who left may keep the camera on.
- A login's search: four timers of three programs (the PAM module's, the handler's,
  the search's, a stamp's), counters whose equality means something, and exits from
  everywhere. Success must be earned, every other end must have its reason.
- Model files: downloads that are cut short or killed, two at a time, and a build
  that fails with a lock held.

`PROJECT.json` lists 40 hazards, each at its line, with the properties that
would catch it. Five have none, with the reason: there the code itself goes wrong, the
model does the same, and the properties leave the case out by name.

## Modules

| Module | Models | State and actions in the code |
|---|---|---|
| `CameraOwnership` | what the arbiter promises | no thread, no condition: an owner, who asked, who was told to yield |
| `CameraArbiter` | `authd/camera.py` | a step is what one thread does between getting the condition's lock and waiting or returning. `Acquire` is the call, `Resume` a notified thread, `TimeOut` a wait that ran out; each takes, gives up or parks. `Release` is `release()` |
| `CameraArbiterProofs` | | the theorems about it |
| `SessionAnswer` | what the daemon promises to who asks for a session | no thread, no device, no lock: a request is refused, told how its own session ended, or given up after the session was told to stop; what the session ends with afterwards changes no answer |
| `CameraSessions` | the three sessions with `_run_session`, `_camera_session`, `_Holder`, `_watch_client`, `FrameStream` | `at` is the handler, `stage` the thread that runs the session, `cancelStep` each call of `cancel()` from another thread, split where it takes `_state_lock`, marks the stream released and closes the device. It instantiates `CameraArbiter` for the monitor: `AskCamera` and `GiveBack` are its steps; `ReturnModels` is the outer `finally` of an enrollment's handler. What may raise ends with "error": the submission to the pool, the way to the camera, and whatever is done with a frame |
| `CameraSessionsProofs` | | the theorems about it |
| `MCCameraSessions` | | symmetry for its largest run |
| `AuthdServer` | `serve`, `_serve_client`, `_handle_client`, `main` | `loop` is the main thread, `place` a connection with its thread, `slots` the semaphore, `pool` the logins whose session still runs |
| `AuthdServerProofs` | | the theorems about it |
| `FaceModels` | what the store promises to who changes it | no lock, no file, no mark that is read twice: a change that was asked for happens in one go or never |
| `TemplateStore` | `auth/template_store.py` with its callers | one process per change: `Lock`, `Load`, `Peek` (the new id), `Mark` (the high-water mark, read once more, and an empty temporary file), `Write` (its last byte), `Replace` (`os.replace`) or `Delete`; `DiskFails`, `DaemonDies` and `ToolDies` between any two, which leave a part of a temporary file. `enrolled`, `gone` and `taken` are history that no guard reads, `given` the ids a client may name |
| `TemplateStoreProofs` | | the theorems about it |
| `MCTemplateStore` | | symmetry for one run |
| `PamIdentify` | `identify` and its helpers | `at` is the application's thread, `auth` and `pass` the two tasks. `Confirm` sets `confirmation_type` under the mutex, `ThreadEnds` notifies, `Unwind` is a `pthread_cancel` that takes effect at a cancellation point |
| `ConfigStore` | `gui/src/core/ConfigStore.cpp` with `PamStatus`, `cli/set.py`, `cli/disable.py` | `doing` is the middle of a function of the GUI's thread, between two accesses to the file: `PatchDocument` and `Commit` are `writeDirectly()`, `LoadDocument` and `LoadBytes` are `load()`. `save` and `switch` are the two processes. `SwitchWrites` copies one line of the file that `SwitchOpens` emptied; it may never come to the last one (`SwitchEnds`). `LeaveAlone`, `Warn` and `Follow` are the branches of `onFileChanged()`. `passedOver` is history |
| `ConfigStoreProofs` | | the theorems about it |
| `LoginSession` | `auth/session.py`, `auth/capture.py` (`read`), `auth/matching.py`, `rubberstamps/`, `_run_session`, the deadline of `pam/main.cc` and its bounds in `authd/protocol.py` | `at` is the session's thread, `handler` the connection's. `LoadTemplates` to `Register` come before the search, whose loop is `top` (`Cancelled`, `RunsOut`, `GoOn`) and `read` (`Passed` for a black or dark frame, `Searched` for one with faces, `SearchFails`); then `Matched` and the rules, one stamp after the other, and `Finally`. `Tick` moves the timers somebody looks at. `matched`, `denied` and `fault` are history |
| `LoginSessionProofs` | | the theorems about it |
| `MCLoginSession` | | the rules of its run |
| `ManageProtocol` | `AuthdRequest.cpp`, `CameraSession.cpp`, `ModelStore.cpp`, `authd/manage.py` | `gui` is the page's end of each connection, `handler` the daemon's; `list`, `change` and `session` are the three requests the page may have at once. `Finish` is `AuthdRequest::finish()` with the slot connected to it, `Reload` is `refresh()`, `Close` and `Cancel` what the user does to a dialog; `Watch` is `_watch_client()`, `Answer` a result that may be lost. `wrote` and `unseen` are history |
| `ClientProofs` | | the theorems about `PamIdentify` and `ManageProtocol`, the two clients of the daemon (their names are distinct, so one module can extend both) |
| `ModelFiles` | `dlib_models.py`, `auth/detector_factory.py`, the constructors in `detectors/` | `at` is a run of `fetch-models`, `place` a thread in `create_pipeline()`; `files`, `temp` and `model` are what the disk holds, `model` the two of MediaPipe, which are looked for one after the other. `Enter` takes the cache's lock, `Fail` and `Load` give it back |
| `ModelFilesProofs` | | the theorems about it |

`CameraSessions` composes sessions, handlers and the arbiter. It and `LoginSession`, one from the
outside and one from the inside, implement the same contract, `SessionAnswer`. In `AuthdServer` a
session is only something that may take for ever, in `TemplateStore` only
something that ends with a new template, because nothing else of it is seen
there. `ManageProtocol` composes the page with the daemon's handlers: there a
session is what it tells the client and whether it wrote. `LoginSession` composes
one login with its handler, which has the camera already; a login cut off by its
deadline meets the same `cancel()` as in `CameraSessions`.

Detectors, embeddings and images have no definition: their outcome is a
nondeterministic choice. So are the contents of messages, except the results a
property tells apart. Time is the choice of when a wait runs out, except in
`LoginSession`, where the lengths of the waits matter and a clock ticks.

Each property that a run checks has a mutated definition in its module (introduced
as a *variant*) that changes the code the way a plausible mistake would, and breaks it.

## Runs

| Run | Instance | Shows |
|---|---|---|
| `camera_arbiter` | 3 logins, 2 management sessions; liveness | the monitor's count, wakeups and progress, and that it implements `CameraOwnership` |
| `camera_sessions` | 1 login, 2 enrollments, symmetric | device, models lock and answers under every interleaving, and that every request is answered as `SessionAnswer` says (508 000 states) |
| `camera_sessions_live` | 1 login, 1 enrollment, numbers of `config.ini` malformed; liveness | a login is answered although its own session may hang; a preempted enrollment yields |
| `template_store` | 2 requests, 2 embedding spaces, faces up to 5 | nothing enrolled is lost and no id repeated while the file lives (but for the one that an older file forgets), with crashes, and the store implements `FaceModels` (233 000 states) |
| `template_store_tools` | 1 request, 1 tool | with a writer that takes no lock, two temporary files and crashes in the middle of them, the file still parses and ids stay distinct (981 000 states) |
| `lost_by_tool` | 1 request, 1 tool, 1 face to enroll | violation: `secureEye remove` takes a face with it that the daemon enrolled after it loaded the list; the trace begins with the two models of an older file |
| `pam_identify` | every workaround, Enter up to 6 times; liveness | threads, results, messages and progress of a login |
| `authd_server` | 3 connections, 2 slots; liveness | slots, threads, the accept loop and its end |
| `config_store` | 2 options, 2 values, a file the user may write or not | stale pages and what becomes of an edit, in any order of 2 processes, the user and another writer, with files that are empty or cut off (2.6 million states) |
| `login_session` | a search of 1 s in ticks of 0.5 s, 3 frames, 2 rules out of five kinds; liveness | success is earned, every end explained, the answer true and as `SessionAnswer` says, and it comes |
| `manage_protocol` | 2 connections at a time, 2 models; liveness | what the page shows and is told, and that the camera comes back (917 000 states) |
| `model_files` | 2 runs, 2 threads, 1 file of dlib and 2 of MediaPipe, both backends, 1 fault or restart; liveness | whole files, failures with a reason of their own, and a lock that comes back (593 000 states) |

Bounds. Two sessions are what it takes to race for the camera, and two of a kind
for the models lock or for a counter; a login beside two enrollments has all of
these at once, and a second login would only meet the first one in the monitor,
which `camera_arbiter` checks with more of both kinds and the proofs for any
number. In `camera_arbiter` a third login makes one
time out while one waits and one holds. Sessions are used again and again
(`Release`, `Forget`), so histories are not bounded by their number. Faces are
bounded by `MaxFaces`: three new ones on top of the two of an old file are
enough for add, re-enroll and remove to meet. `MaxRetries` is the code's 5.
`camera_sessions` has enrollments only: a recognition test takes the same steps
without the models lock and the write, so it is the easier case of each property.
In `config_store` one option is the switch of the dashboard, which both tools
write, and the other one only the page; each process can run again and again.
In `login_session` one tick is half the search, so that each timer runs out before,
with and after each other one; three frames give every relation of the counters
that `RunsOut` compares, and two rules one that follows a denial, a skipped line or
a failure. In `manage_protocol` a connection is used again when both ends are
done; two at a time are a list request and a change, a change and a session, or a
dropped request whose handler works on beside its successor. The third request
of the page would only wait beside them. In `model_files` two runs race for
a file, so that each may find it fetched by the other, and two threads for a
pipeline; the proof has any number of files. A run may be repeated without bound,
and the one fault or restart is what it takes to see the next build succeed.
Deadlock is checked in every run; `AuthdServer` (`Over`) and `PamIdentify`
(`IdentifyOver`) say where the program is over.

## Fairness

- `CameraArbiter`: a notified thread is scheduled. A login's session ends by its
  deadline; a management session ends only once it was cancelled, because its
  loop looks at the event with every frame. No wait has to run out.
- `CameraSessions`: threads run, deadlines pass, cancels go on. Asking for the
  camera and giving it back are strongly fair: the condition's lock is busy now
  and then, but a thread that waits for it gets it. A login's session has no
  fairness at all (`LoginAnswered` is about its hanging); a management session
  has, because its duration and its number of frames are bounded in the code.
- `AuthdServer`: the main thread and the handlers run; a management request and
  the session of a login may hang for ever.
- `LoginSession`: the session, the handler and time go on (`Progress`, `Handler`,
  `Tick`). Neither the user's answers to a stamp nor faults are in `Progress`: a
  stamp ends because its own timer does.
- `ManageProtocol`: the handlers and the watchers run. The user, the page, the
  camera's frames and logins need not do anything, so a session may capture for ever
  unless it is cancelled.
- `ModelFiles`: a build comes to an end. Nobody has to ask for one or to fetch.
- `PamIdentify`: the threads run. Neither the daemon nor the user has to answer.

## Proofs

Proved for every number of logins and management sessions, assuming only that
they are finitely many and distinct from the "nobody" value
(`CameraArbiterProofs`): the types, one holder, the exact counter, no lost
wakeup, that a holder is told to yield, and that the monitor implements
`CameraOwnership`. None of these is inductive alone. That management cannot slip
past a login follows from the counter; that nobody sleeps in front of a free
camera follows from the holder and the counter; so the invariant is their
conjunction, and the proof treats the three ways to leave one pass of the loop in
`acquire()` (`Take`, `GiveUp`, `Park`) in lemmas that `Acquire`, `Resume` and
`TimeOut` share.

Proved for every number of connections and every `MaxClients > 0`
(`AuthdServerProofs`): the semaphore's bounds, that a client is refused only when
`MaxClients` others are served, and that the shutdown knows every thread. The
strengthening is the account of the slots: free slots and connections being
served add up to `MaxClients` as long as the accept loop runs, and to at most
that afterwards (a thread that could not be started keeps its slot, and ends the
loop).

Proved for every finite set of logins, enrollments and tests
(`CameraSessionsProofs`): the models lock spans the enrollment, nothing is
written that the client is told was not, "cancelled" means not preempted, a
cancel is never reported as a broken device, and, provided the numbers of
`config.ini` parse (`~MalformedConfig`; it is false otherwise, see below), the
device is open only for the holder. The argument has layers, each an invariant
under the ones below it. `Held`: a session runs only while it is the holder, at
most one is. `LockHeld` and `Told` rest on it. `Device` accounts for every open
device: either the running session still has to close it, or a `cancel()` that
marked the stream released does, and the handler does not give the camera back
before the calls of `cancel()` it counts are over. `Reading` says that a reader
whose stream is gone finds the event set.

The same module shows that the composition uses the monitor as the monitor expects
(`MonitorComposed`): handlers ask only when they have not asked, only the holder gives
back, and nothing else touches the monitor's variables, which follows from `Held`. So
each theorem about the monitor alone is one about the whole daemon (`MonitorSafe`), and
the daemon implements `CameraOwnership` through it (`DaemonImplementsOwnership`). As
`CameraSessions` and `CameraArbiterProofs` instantiate the monitor separately, `SameMonitor` and
`SameContract` say that the two instances are one. The types (`TypeCorrect`) then need
only that the sets the threads keep contain sessions of the right kind (`Kept`).

Finally, the requests together implement `SessionAnswer` (`SessionsKeepPromise`): the threads of
a session go on unseen until it ends, the handler's steps are the ones a client sees. The mapping reads
where a request stands off `at` and `stage`, so the proof needs that a session which ended has an
outcome (`EndHasOutcome`), that a handler which stops a session had started it (`StoppedWasStarted`),
and that the words of its answer belong to that outcome (`WordIsSaid`). `LoginSession` implements the same
contract (`LoginKeepsPromise`) for its own reasons: its session and its handler share no more than
the code, the stream and the cancel event, and a session that ended has a code (`EndHasCode`).

Proved for every number of writers, spaces and faces (`TemplateStoreProofs`): the
types, and that ids are distinct and below the mark even with tools that take no
lock. The strengthening says the same of what each writer holds in memory, and
that a new id is above those it loaded; that the maximum of the ids exists is
proved from the well-foundedness of the naturals. For the daemon alone
(`Tool = {}`, because `lost_by_tool` refutes it otherwise) nothing enrolled is
lost and no id of the file is given out twice: from its load on a writer has the
lock, and the file is still what it loaded (`AsLoaded`). No step of any writer, crashes included,
makes a readable file unreadable, because a writer that comes to `os.replace()` has written
its temporary file to the end and nobody else opened that. For the ids there is one
exception, named in the property (`Freed`): a file of the older format has no mark, and
forgets its newest id when that model is removed. Again for the daemon alone, the store implements
`FaceModels` (`StoreKeepsContract`): `Load`, `Peek`, `Mark` and `Write` are invisible, `Replace`
and `Delete` are the moment of the change, and a request that is refused, fails or dies
before them is a `Drop`. For this a removal must still find in the file what its load
found (`Found`), and the new id must be at or above the mark, which `Peek` reads from the
file that nobody else changes before `Replace`.

Proved for every `MaxRetries`, every workaround and both ways to ask for a password
(`ClientProofs`): the types of `identify()`, that no thread outlives it, that what it
returns is what the thread said whose answer came first, and that the user is told when
Enter may not have ended the prompt. None is inductive. `Answers` says what a thread has
left behind where it stands, `Started` which threads there are, `Doomed` that a thread is
cancelled only where the other one has won, and `Standing` what the application's thread
knows at each of its steps.

Proved for every set of connections and models (`ClientProofs`): the types of
`ManageProtocol`, that the page shows what there is, and that what it is told is
true. The invariant `PageInv` follows a request from the page to the file and back. `PageAsks`: a
connection is in use exactly when one of the three requests names it. `Serves`: the
models lock and the camera belong to the handler whose step says so. `Wrote`: who
changed the file is about to say so, or said it. `OnTheWay`: what is queued for the page
is "started" followed by an honest result. `Fresh`: the rows are the file's, or a list on
its way is, or a request the page still waits for has changed the file, or the page has lost
sight of one (`unseen`); this needs all the others, because a list that was read before a
change must not be shown after it.

Proved for any set of options and values (`ConfigStoreProofs`): types, that an
edit differs from what was read, and that a stale page is known. The invariant adds that
a load begins by dropping the edits and that the page is not stale unknown in the middle
of a direct save either. It says nothing of what the file holds: `secureEye disable` may
leave any part of it, and `secureEye set` may put a part in place. What becomes of an edit (`EditsAreKept`)
is about steps: the edits go when a load begins, so each way to begin one needs its reason. A
direct save has put them in the file, a change of the file is followed only when there are none, and
a save that failed does not load. What is left is the user and the end of a save that went
well, which drops what was edited while it ran (see below).

Proved for every search time, tick, set of rules and number of frames and faults
(`LoginSessionProofs`), from the assumptions on the constants alone: success is
earned, every end of `run()` has its reason, the client is told the session's own
code or that its time was over, and the handler waits no longer than the request
lets it. `DeadlineFits` is arithmetic about every integer that `config.ini` may
have as the timeout. The invariant counts the frames (a dark one is a valid one,
and the search ends without a face only when no valid frame was a bright one),
says that the stream is open or the cancel event set while the session reads,
that the face was accepted, once, before the rules, that a stamp which denies
ends them, and that the handler answers after it asked.

Proved for every number of runs, threads, files and backends (`ModelFilesProofs`):
files are whole whatever is killed, failures are new, and a pipeline is built once.
For the first, a run's temporary file is whole when it is renamed, and what is
missing is among what the run has still to fetch, because no other run takes a
file away. For the second, a thread that builds saw every file it does not look for
any more, it has the lock and with it MediaPipe's models to itself, and when one was
found unfinished none is missing, so that nobody writes them any more.

Only model-checked: liveness (`WaitersServed`, `HolderYields`, `LoginAnswered`, `LoginEnds`,
`StopEnds`, `ClientIsHeard`, `SessionEnds`, `CameraGivenBack`, `LockComesBack`). Liveness under
fairness, `ENABLED`, and induction over recursive definitions are beyond the backends of
the proof system in use; the modules have no recursive operators. Every safety property
of a passing run is proved, with the hypotheses named above. Some of what is proved is not run
besides (the types of every module but `ModelFiles`, `OneHolder`, `HolderToldToYield`, `DirtyMeansChanged`, the
refinement through the daemon): the theorem says more.

## Where the code and its words differ

- `cli/remove.py:89` saves what it loaded before it asked (`lost_by_tool`), while
  `authd/manage.py:50` wants one writer at a time.

Seen in the code, most of it in counterexamples met while modelling, and not checked
by a run of its own:

- `auth/capture.py:131` and `auth/session.py:116` read numbers of `config.ini`
  when the device is open and outside the block that closes it, while
  `authd/camera.py:26` wants the camera back only from who "actually let go of the
  device". With `MalformedConfig` the model does the same, and violates
  `DeviceHeldByHolder`.
- `pam/main.cc:337` wants a mismatch told always; when the password was typed into the
  prompt it is not (`pam/main.cc:656`).
- `gui/qml/Main.qml:56` never drops unsaved edits silently;
  `gui/src/core/ConfigStore.cpp:271` loads when a save is done and drops those
  made meanwhile.
- `auth/template_store.py:147` wants that "removing the newest model does not free its id",
  and `:273` an id "above any id given out before and since removed". Twice it does. The mark
  goes with a deleted file. And a file of the older format has none: when {0, 1} loses 1, the
  first file of the new format is written with the mark 1, and the next enrollment gets id 1,
  which a page or a tool that still has the old list takes for the model that is gone.
  `gui/src/system/ModelStore.hpp:23` expects "last id + 1" always, which is so only where
  there is no mark. `IdFreshInFile` names both cases.
- `docs/auth-protocol-v2.md:119` says that nothing is written unless the result is `success`,
  but `authd/manage.py:208` sends that result when the template is stored, and when sending
  fails the client is told `internal_error`. `ToldWhatHappened` and `ToldIsTrue` leave
  `internal_error` out for this.
- `secureEye disable` (`cli/disable.py:45`) rewrites `config.ini` in place, and what stops it
  leaves a part of the file. `cli/set.py:65` writes a new file so that "a crash can not leave a
  half written file", but it looks only for the options it was asked for, so it makes such a
  part the whole file.
- `authd/main.py:144` does not want the shutdown to wait for sessions that timed
  out, but the interpreter joins the pool's threads.
- `ConfigStore::load()` reads the document and the bytes it compares with
  separately, so a change between the two is not noticed; the page stays stale when
  the file changed during a save that failed.
- `secureEye disable` writes into a file without a name when another writer replaced
  `config.ini` meanwhile, and reports success.
- The readers of `recorders/ffmpeg_reader.py` and `recorders/pyv4l2_reader.py` return 0 where
  `recorders/video_capture.py:92` expects a true value: with these plugins a login ends
  at its first frame. `EndIsExplained` lists the plugin as a reason of its own.
- `rubberstamps/__init__.py:157` makes a stamp "fail by default", but one that raises is
  logged and the next rule is tried: it denies nothing.
- A `hotkey` stamp does not look at the cancel event. A login whose client was answered long
  ago keeps the camera until the stamp's own time is over.
- `detectors/mediapipe_detector.py:75` writes the model under its own name and takes what is
  there as it is: a part of it stays for ever (`FailureIsNew` has to leave this out).
  `dlib_models.py` uses a temporary file for the same purpose.
- A change that raises in the store (`authd/manage.py:132`, `:140`, `:142`) is answered
  `internal_error` with nothing changed, the same words as for a result that was lost after the
  change.
- A page whose dialog was closed while its enrollment was being written, or that was
  told `internal_error` because the result could not be sent, shows the list from before
  (`unseen` in `PageShowsModels`): it is read again after success only. A "cancelled" that the page
  makes up itself, before the session runs, can race with an enrollment that is stored.
- A request that comes late or that cannot be read is answered like one of protocol v1, and
  the page calls the daemon outdated, a word that `gui/src/system/AuthdRequest.hpp:24` has for one
  that knows version 1 only; `authd/manage.py:58` "Never raises", but its validation and its
  access check run outside the block that makes this true.

## Not modelled, and the plan

Not modelled: recognition itself (floating point on images), framing and JSON of
the protocol, `v4l2.py` and what the device readers do inside, QML, packaging, systemd and
polkit, the job numbers of `GuiBackend` and the property replies of `DaemonController`.
The reasons are with the components in `PROJECT.json`.
`LoginSession` leaves out the frame observer of `AuthSession` (nothing in the program passes
one), messages to the user, and how long each step before the search takes, except that it is
any time. `ManageProtocol` leaves out frame events, the `ModelStore` that an
enrollment dialog has to suggest a label, and a model file that cannot be read.
`TemplateStore` leaves out a read error in `_stored_next_id()`, which counts as no mark
(`auth/template_store.py:290`). `ModelFiles` leaves open in which order the files are looked for.
`ConfigStore` assumes the installed `config.ini` and a backend, as the application
sets them up; the file can always be read, and the moment in which `disable` has
renamed it and not yet made the new one is left out. It has no fairness: its
properties are about what a step does, not about what must come.

Next: `DaemonController` and `GuiBackend`, whose replies may come out of order.
