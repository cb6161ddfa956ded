---------------------------- MODULE CameraSessions -----------------------------
(***************************************************************************)
(* The sessions of the daemon that use the camera, composed with the       *)
(* monitor CameraArbiter: the login handler with its worker thread         *)
(* (authd/main.py, auth/session.py) and the management handler with its    *)
(* client watcher (authd/manage.py, auth/enrollment.py,                    *)
(* auth/recognition_probe.py). A session is cancelled from other threads   *)
(* at any moment: by a waiting login, by the watcher, by the handler whose *)
(* deadline passed. The question is who has the device open, when.         *)
(***************************************************************************)
EXTENDS Naturals, FiniteSets

CONSTANTS
  AuthSession,       \* logins
  EnrollSession,     \* management requests that write a template
  TestSession,       \* management requests that only look
  NoSession,
  MalformedConfig    \* config.ini holds a number that does not parse

ManageSession == EnrollSession \union TestSession
Session == AuthSession \union ManageSession

ASSUME ConfigAssumption == MalformedConfig \in BOOLEAN
ASSUME KindAssumption ==
  /\ EnrollSession \cap TestSession = {}
  /\ AuthSession \cap ManageSession = {}
  /\ NoSession \notin Session
ASSUME FiniteAssumption == IsFiniteSet(AuthSession)

VARIABLES
  holder, authWaiting, pc, cancelled,   \* the monitor
  at,          \* where the handler of the session's request stands
  stage,       \* where the thread that runs the session stands
  outcome,     \* what run() returned or raised
  reply,       \* the last message the client was sent
  modelsLock,  \* who holds _models_lock
  stream,      \* sessions whose _stream is set
  open,        \* sessions that have the device open
  released,    \* sessions whose FrameStream was released
  event,       \* sessions whose _cancel_event is set
  preempted,   \* _Holder.preempted
  cancelStep,  \* the calls of session.cancel(), by who makes them
  watching,    \* the watcher of the request has not returned yet
  stored       \* enrollments that wrote their template

monitor == <<holder, authWaiting, pc, cancelled>>
streamState == <<stream, open, released>>
cancelState == <<event, preempted, cancelStep, watching>>
vars == <<monitor, at, stage, outcome, reply, modelsLock, streamState, cancelState, stored>>

Arbiter == INSTANCE CameraArbiter

Canceller == {"login", "client"}
Handler == {"idle", "models", "camera", "session", "cancel", "sent"}
Stage == {"none", "queued", "run", "opened", "loop", "finally", "captured", "write", "ended"}
Outcome == {"none", "success", "failure", "cancelled", "invalid_device", "error"}
Reply == (Outcome \ {"error"}) \union {"busy", "timeout", "preempted", "internal_error"}

Init ==
  /\ Arbiter!Init
  /\ at = [s \in Session |-> "idle"]
  /\ stage = [s \in Session |-> "none"]
  /\ outcome = [s \in Session |-> "none"]
  /\ reply = [s \in Session |-> "none"]
  /\ modelsLock = NoSession
  /\ stream = {} /\ open = {} /\ released = {} /\ event = {} /\ preempted = {}
  /\ cancelStep = [s \in Session |-> [c \in Canceller |-> "no"]]
  /\ watching = {}
  /\ stored = {}

Move(s, place) == at' = [at EXCEPT ![s] = place]

\* The session's thread goes on, to its end with what it returns or raises.
Step(s, next) == stage' = [stage EXCEPT ![s] = next] /\ UNCHANGED outcome
Leave(s, next, result) ==
  /\ stage' = [stage EXCEPT ![s] = next]
  /\ outcome' = [outcome EXCEPT ![s] = result]
End(s, result) == Leave(s, "ended", result)

--------------------------------------------------------------------------------
(* session.cancel(), the same three methods in AuthSession, EnrollSession and *)
(* RecognitionProbe: set the event, then release the stream under _state_lock. *)

StateLockFree(s) == \A c \in Canceller : cancelStep[s][c] # "closing"

CancelAt(s, c, step) == cancelStep' = [cancelStep EXCEPT ![s][c] = step]

\* The login's call goes through _Holder.cancel(), which set preempted before.
SetEvent(s) ==
  /\ cancelStep[s]["login"] = "called"
  /\ event' = event \union {s}
  /\ CancelAt(s, "login", "lock")
  /\ UNCHANGED <<monitor, at, stage, outcome, reply, modelsLock, streamState,
                 preempted, watching, stored>>

\* _state_lock is taken; the first release() of the stream marks it released.
TakeStateLock(s, c) ==
  /\ cancelStep[s][c] = "lock"
  /\ StateLockFree(s)
  /\ IF s \in stream \ released
       THEN released' = released \union {s} /\ CancelAt(s, c, "closing")
       ELSE UNCHANGED released /\ CancelAt(s, c, "no")
  /\ UNCHANGED <<monitor, at, stage, outcome, reply, modelsLock, stream, open,
                 event, preempted, watching, stored>>

\* The device is let go, then _state_lock is.
CloseDevice(s, c) ==
  /\ cancelStep[s][c] = "closing"
  /\ open' = open \ {s}
  /\ CancelAt(s, c, "no")
  /\ UNCHANGED <<monitor, at, stage, outcome, reply, modelsLock, stream, released,
                 event, preempted, watching, stored>>

Cancelling(s) == SetEvent(s) \/ \E c \in Canceller : TakeStateLock(s, c) \/ CloseDevice(s, c)

\* The watcher reads a cancel message, garbage or the end of the connection. A
\* call that comes when run() is over changes nothing that is looked at again.
ClientCancels(s) ==
  /\ s \in watching
  /\ stage[s] # "ended"
  /\ watching' = watching \ {s}
  /\ event' = event \union {s}
  /\ CancelAt(s, "client", "lock")
  /\ UNCHANGED <<monitor, at, stage, outcome, reply, modelsLock, streamState, preempted, stored>>

--------------------------------------------------------------------------------
(* The thread that runs the session *)

\* AuthSession.run, EnrollSession.run and RecognitionProbe.run up to the camera:
\* the user's models, the detector, the device may all be missing, or looking for
\* them may raise.
Prepare(s) ==
  /\ stage[s] = "run"
  /\ \/ /\ \E result \in {"failure", "invalid_device", "error"} : End(s, result)
        /\ UNCHANGED streamState
     \/ Step(s, "opened") /\ open' = open \union {s} /\ UNCHANGED <<stream, released>>
     \* FrameStream.__init__ reads max_height when the device is open
     \/ MalformedConfig /\ End(s, "error") /\ open' = open \union {s}
                        /\ UNCHANGED <<stream, released>>
  /\ UNCHANGED <<monitor, at, reply, modelsLock, cancelState, stored>>

\* The stream becomes visible to cancel(), which may have run before.
Register(s) ==
  /\ stage[s] = "opened"
  /\ StateLockFree(s)
  /\ stream' = stream \union {s}
  /\ \/ /\ Step(s, "loop")
        /\ IF s \in event
             THEN released' = released \union {s} /\ open' = open \ {s}
             ELSE UNCHANGED <<released, open>>
     \* AuthSession reads exposure before its try block
     \/ MalformedConfig /\ s \in AuthSession /\ End(s, "error") /\ UNCHANGED <<released, open>>
  /\ UNCHANGED <<monitor, at, reply, modelsLock, cancelState, stored>>

\* A frame is read and shown to the client, which fails: the observer raises, and
\* the session cancels itself (only management sessions have an observer).
FrameNotSent(s) ==
  /\ stage[s] = "loop" /\ s \in ManageSession \cap (open \ event)
  /\ StateLockFree(s)
  /\ event' = event \union {s}
  /\ released' = released \union {s} /\ open' = open \ {s}
  /\ UNCHANGED <<monitor, at, stage, outcome, reply, modelsLock, stream,
                 preempted, cancelStep, watching, stored>>

\* Variant: any failed read is taken for a broken device.
ReadFailsBlindly(s) ==
  /\ stage[s] = "loop"
  /\ Leave(s, "finally", "invalid_device")
  /\ UNCHANGED <<monitor, at, reply, modelsLock, streamState, cancelState, stored>>

\* VideoCapture exits when a read fails, and raises when the frame does not convert.
\* AuthSession lets that out; the others look whether cancel() has just released the
\* camera.
ReadFails(s) ==
  /\ stage[s] = "loop"
  /\ IF s \in ManageSession /\ s \in event
       THEN Leave(s, "finally", "cancelled")
       ELSE \E result \in {"invalid_device", "error"} : Leave(s, "finally", result)
  /\ UNCHANGED <<monitor, at, reply, modelsLock, streamState, cancelState, stored>>

\* The loop sees the event, or ends by its own limit or with what it looked for: a
\* management session looks at the event once more then, a login does not. What is
\* done with a frame (detect, embed, match, rubberstamps) may raise at any time.
LoopEnds(s) ==
  /\ stage[s] = "loop"
  /\ \/ s \in event /\ Leave(s, "finally", "cancelled")
     \/ /\ s \in AuthSession \/ s \notin event
        /\ \E result \in {"success", "failure"} : Leave(s, "finally", result)
     \/ Leave(s, "finally", "error")
  /\ UNCHANGED <<monitor, at, reply, modelsLock, streamState, cancelState, stored>>

\* Where run() goes after its finally block.
AfterFinally(s) ==
  Step(s, IF s \in EnrollSession /\ outcome[s] = "success" THEN "captured" ELSE "ended")

\* Variant that forgets the stream without _state_lock.
FinallyUnlocked(s) ==
  /\ stage[s] = "finally"
  /\ stream' = stream \ {s}
  /\ released' = released \union {s}
  /\ open' = IF s \in released THEN open ELSE open \ {s}
  /\ AfterFinally(s)
  /\ UNCHANGED <<monitor, at, reply, modelsLock, cancelState, stored>>

\* The finally block: _stream is None from here on, so that no later cancel()
\* sees it, and the stream is released unless cancel() did that already.
Finally(s) ==
  /\ stage[s] = "finally"
  /\ StateLockFree(s)
  /\ stream' = stream \ {s}
  /\ released' = released \union {s}
  /\ open' = IF s \in released THEN open ELSE open \ {s}
  /\ AfterFinally(s)
  /\ UNCHANGED <<monitor, at, reply, modelsLock, cancelState, stored>>

\* A cancel that lands after the capture still must not write anything.
Captured(s) ==
  /\ stage[s] = "captured"
  /\ IF s \in event THEN End(s, "cancelled") ELSE Step(s, "write")
  /\ UNCHANGED <<monitor, at, reply, modelsLock, streamState, cancelState, stored>>

\* Variant that looks at the cancel event when the template is written.
WriteThenLook(s) ==
  /\ stage[s] = "write"
  /\ End(s, IF s \in event THEN "cancelled" ELSE "success")
  /\ stored' = stored \union {s}
  /\ UNCHANGED <<monitor, at, reply, modelsLock, streamState, cancelState>>

\* The template is written, or the store refuses it.
Write(s) ==
  /\ stage[s] = "write"
  /\ \/ End(s, "success") /\ stored' = stored \union {s}
     \/ End(s, "error") /\ UNCHANGED stored
  /\ UNCHANGED <<monitor, at, reply, modelsLock, streamState, cancelState>>

Running(s) == Prepare(s) \/ Register(s) \/ FrameNotSent(s) \/ ReadFails(s) \/ LoopEnds(s)
                \/ Finally(s) \/ Captured(s) \/ Write(s)

--------------------------------------------------------------------------------
(* The camera is asked for, granted and given back *)

\* cancel() is called with the monitor's lock held: the monitor stands still.
MonitorFree == \A s \in ManageSession : cancelStep[s]["login"] = "no"

\* A request reaches its handler. An enrollment takes _models_lock first.
Request(s) ==
  /\ at[s] = "idle"
  /\ Move(s, IF s \in EnrollSession THEN "models" ELSE "camera")
  /\ UNCHANGED <<monitor, stage, outcome, reply, modelsLock, streamState, cancelState, stored>>

LockModels(s) ==
  /\ at[s] = "models"
  /\ \/ modelsLock = NoSession /\ modelsLock' = s /\ Move(s, "camera") /\ UNCHANGED reply
     \/ /\ modelsLock # NoSession
        /\ reply' = [reply EXCEPT ![s] = "busy"] /\ Move(s, "sent")
        /\ UNCHANGED modelsLock
  /\ UNCHANGED <<monitor, stage, outcome, streamState, cancelState, stored>>

\* Variant that keeps the lock of an enrollment that never ran.
UnlockModelsAfterRun(s) ==
  modelsLock' = IF modelsLock = s /\ stage[s] = "ended" THEN NoSession ELSE modelsLock

UnlockModels(s) == modelsLock' = IF modelsLock = s THEN NoSession ELSE modelsLock

\* A login that can not take the camera calls _Holder.cancel() of a management
\* holder, again and again: every time it looks.
CancelHolder(s) ==
  IF s \in AuthSession /\ holder' \in ManageSession
    THEN /\ cancelStep' = [cancelStep EXCEPT ![holder']["login"] = "called"]
         /\ preempted' = preempted \union {holder'}
    ELSE UNCHANGED <<cancelStep, preempted>>

\* One pass of acquire(), and what its caller does with the answer.
AskCamera(s) ==
  /\ at[s] = "camera" /\ stage[s] = "none"
  /\ MonitorFree
  /\ Arbiter!Acquire(s) \/ Arbiter!Resume(s) \/ Arbiter!TimeOut(s)
  /\ CancelHolder(s)
  /\ CASE pc'[s] = "holding" -> Move(s, "session") /\ UNCHANGED <<reply, modelsLock>>
       [] pc'[s] = "idle"    -> /\ Move(s, "sent")
                                /\ reply' = [reply EXCEPT ![s] =
                                     IF s \in AuthSession THEN "timeout" ELSE "busy"]
                                /\ UnlockModels(s)
       [] OTHER              -> UNCHANGED <<at, reply, modelsLock>>
  /\ UNCHANGED <<stage, outcome, streamState, event, watching, stored>>

\* The login is submitted to a pool of its own; a management session runs in its
\* handler once the client was sent "started" and has its watcher. Each may fail.
Start(s) ==
  /\ at[s] = "session" /\ stage[s] = "none"
  /\ \/ s \in AuthSession /\ Step(s, "queued") /\ UNCHANGED watching
     \/ s \in ManageSession /\ Step(s, "run") /\ watching' = watching \union {s}
     \/ End(s, "error") /\ UNCHANGED watching
  /\ UNCHANGED <<monitor, at, reply, modelsLock, streamState, event, preempted, cancelStep, stored>>

PoolStarts(s) ==
  /\ stage[s] = "queued"
  /\ Step(s, "run")
  /\ UNCHANGED <<monitor, at, reply, modelsLock, streamState, cancelState, stored>>

\* Nobody looks at the cancel state of a session again whose run() is over.
Retire(s) ==
  /\ event' = event \ {s} /\ released' = released \ {s} /\ watching' = watching \ {s}
  /\ UNCHANGED <<stream, open, preempted, cancelStep>>

\* Variant: a session that raises skips release().
GiveBackUnlessError(s) ==
  /\ pc[s] = "holding"
  /\ stage[s] = "ended" /\ outcome[s] # "error"
  /\ MonitorFree
  /\ Arbiter!Release(s)
  /\ Retire(s)
  /\ UNCHANGED <<at, stage, outcome, reply, modelsLock, stored>>

\* The callback of the finished future, or the inner finally block of the handler.
GiveBack(s) ==
  /\ pc[s] = "holding"
  /\ stage[s] = "ended"
  /\ MonitorFree
  /\ Arbiter!Release(s)
  /\ Retire(s)
  /\ UNCHANGED <<at, stage, outcome, reply, modelsLock, stored>>

\* The outer finally block of an enrollment's handler.
ReturnModels(s) ==
  /\ modelsLock = s
  /\ at[s] = "session" /\ stage[s] = "ended" /\ pc[s] = "idle"
  /\ modelsLock' = NoSession
  /\ UNCHANGED <<monitor, at, stage, outcome, reply, streamState, cancelState, stored>>

--------------------------------------------------------------------------------
(* The handlers answer *)

Answer(s) == CASE outcome[s] = "error" -> "internal_error"
               [] outcome[s] = "cancelled" /\ s \in AuthSession -> "timeout"
               [] outcome[s] = "cancelled" /\ s \in preempted -> "preempted"
               [] OTHER -> outcome[s]

\* Variant of Finish that answers a login when run() is about to return.
FinishEarly(s) ==
  /\ at[s] = "session" /\ stage[s] \in {"finally", "ended"}
  /\ s \in ManageSession => pc[s] = "idle" /\ modelsLock # s
  /\ \E last \in {Answer(s)} \union (IF s \in ManageSession THEN {"internal_error"} ELSE {}) :
       reply' = [reply EXCEPT ![s] = last]
  /\ Move(s, "sent")
  /\ UNCHANGED <<monitor, stage, outcome, modelsLock, streamState, cancelState, stored>>

\* A login is answered as soon as its future is done, a management request when
\* the camera and the lock are given back. When writing the result raises, the
\* handler tries to write an error in its place.
Finish(s) ==
  /\ at[s] = "session" /\ stage[s] = "ended"
  /\ s \in ManageSession => pc[s] = "idle" /\ modelsLock # s
  /\ \E last \in {Answer(s)} \union (IF s \in ManageSession THEN {"internal_error"} ELSE {}) :
       reply' = [reply EXCEPT ![s] = last]
  /\ Move(s, "sent")
  /\ UNCHANGED <<monitor, stage, outcome, modelsLock, streamState, cancelState, stored>>

\* Variant of the wait for the future that has no deadline.
DeadlineNever(s) == FALSE /\ UNCHANGED vars

\* The deadline passes: the handler cancels the session and, if the pool never
\* came to start it, the future.
Deadline(s) ==
  /\ s \in AuthSession /\ at[s] = "session" /\ stage[s] \notin {"none", "ended"}
  /\ event' = event \union {s}
  /\ CancelAt(s, "client", "lock")
  /\ Move(s, "cancel")
  /\ UNCHANGED <<monitor, stage, outcome, reply, modelsLock, streamState,
                 preempted, watching, stored>>

DeadlineAnswer(s) ==
  /\ at[s] = "cancel" /\ cancelStep[s]["client"] = "no"
  /\ IF stage[s] = "queued" THEN End(s, "cancelled") ELSE UNCHANGED <<stage, outcome>>
  /\ reply' = [reply EXCEPT ![s] = "timeout"]
  /\ Move(s, "sent")
  /\ UNCHANGED <<monitor, modelsLock, streamState, cancelState, stored>>

\* All threads of the request are gone; a device nobody let go of is closed when
\* its object is collected. The name stands for a later request from here on.
Forget(s) ==
  /\ at[s] = "sent" /\ pc[s] = "idle" /\ stage[s] \in {"none", "ended"}
  /\ \A c \in Canceller : cancelStep[s][c] = "no"
  /\ Move(s, "idle")
  /\ Leave(s, "none", "none")
  /\ reply' = [reply EXCEPT ![s] = "none"]
  /\ stream' = stream \ {s} /\ open' = open \ {s}
  /\ preempted' = preempted \ {s}
  /\ stored' = stored \ {s}
  /\ UNCHANGED <<monitor, modelsLock, released, event, cancelStep, watching>>

Next ==
  \E s \in Session :
    \/ Request(s) \/ LockModels(s) \/ AskCamera(s) \/ Start(s) \/ PoolStarts(s)
    \/ Running(s) \/ ClientCancels(s) \/ Cancelling(s)
    \/ GiveBack(s) \/ ReturnModels(s) \/ Finish(s) \/ Deadline(s) \/ DeadlineAnswer(s) \/ Forget(s)

Spec == Init /\ [][Next]_vars

\* Threads are scheduled, waits for the camera and deadlines run out, and a thread
\* that wants the monitor's lock gets it although logins keep taking it. A login's
\* own session may hang in its camera; a management session reads frames at most
\* for its duration or number of frames.
Fairness ==
  \A s \in Session :
    /\ SF_vars(AskCamera(s) /\ at'[s] # "camera") /\ WF_vars(Start(s))
    /\ WF_vars(Cancelling(s)) /\ SF_vars(GiveBack(s))
    /\ WF_vars(ReturnModels(s)) /\ WF_vars(Finish(s))
    /\ WF_vars(Deadline(s)) /\ WF_vars(DeadlineAnswer(s))
    /\ s \in ManageSession => WF_vars(Running(s))

FairSpec == Spec /\ Fairness

--------------------------------------------------------------------------------
(* Properties *)

\* Types; _stream and the released flag belong to a session that is running.
TypeOK ==
  /\ Arbiter!TypeOK
  /\ at \in [Session -> Handler]
  /\ stage \in [Session -> Stage]
  /\ outcome \in [Session -> Outcome]
  /\ reply \in [Session -> Reply]
  /\ modelsLock \in EnrollSession \union {NoSession}
  /\ stream \in SUBSET Session /\ open \in SUBSET Session
  /\ released \in SUBSET Session /\ event \in SUBSET Session
  /\ preempted \in SUBSET ManageSession
  /\ cancelStep \in [Session -> [Canceller -> {"no", "called", "lock", "closing"}]]
  /\ watching \in SUBSET ManageSession
  /\ stored \in SUBSET EnrollSession

\* Whoever has the device open holds the camera: release() of the monitor is
\* called "only once they have actually let go of the device" (camera.py), also by
\* a login whose handler answered long ago and by a session that another thread
\* is closing the device for.
DeviceHeldByHolder == open \subseteq {holder}

\* A management session whose camera is taken away by a cancel is never reported
\* as one with a broken device: its failed read finds the event set.
NoFalseDeviceError ==
  [][\A s \in ManageSession :
       stage[s] = "loop" /\ outcome'[s] = "invalid_device" => s \in open]_vars

\* The models lock is with an enrollment from before it asks for the camera until
\* it gave it back, on every path, and with nobody whose request is not under way:
\* two enrollments are never between reading and writing a model file, and no path
\* to an answer leaks the lock.
ModelsLockSpansEnrollment ==
  \A s \in EnrollSession :
    /\ at[s] = "camera" \/ pc[s] = "holding" => modelsLock = s
    /\ modelsLock = s => at[s] \in {"camera", "session"}

\* Who is told that the session was stopped, refused or failed has no new model,
\* wherever the cancel or the login hit the enrollment.
ToldNothingWritten ==
  \A s \in stored :
    reply[s] \notin {"cancelled", "preempted", "busy", "failure", "invalid_device"}

\* A client is told "cancelled" only when no login took the camera: the answer is
\* made up when no login can call _Holder.cancel() any more.
CancelledMeansNotPreempted == \A s \in ManageSession : reply[s] = "cancelled" => s \notin preempted

\* The client of a management session is told what happened to the file and who stopped it.
ToldWhatHappened == ToldNothingWritten /\ CancelledMeansNotPreempted

\* Every login is answered, even if its own session hangs in the camera.
LoginAnswered == \A a \in AuthSession : (at[a] = "camera") ~> (at[a] = "sent")

\* A management session that a login cancelled gives the camera back.
HolderYields == \A s \in ManageSession : (s \in cancelled) ~> (holder # s)

--------------------------------------------------------------------------------

\* What a client may be told about a session: how it ended, where who stopped it decides
\* about the word, and of a management session also that the result could not be sent.
Words(s, result) ==
  CASE result = "error" -> {"internal_error"}
    [] result = "cancelled" /\ s \in AuthSession -> {"timeout"}
    [] result = "cancelled" /\ s \notin AuthSession -> {"cancelled", "preempted", "internal_error"}
    [] OTHER -> IF s \in AuthSession THEN {result} ELSE {result, "internal_error"}

\* The requests as SessionAnswer sees them.
Phase(s) ==
  CASE at[s] = "idle" -> "away"
    [] at[s] \in {"models", "camera"} -> "asking"
    [] at[s] = "session" -> "served"
    [] at[s] = "cancel" -> "stopped"
    [] OTHER -> IF stage[s] = "none" THEN "refused" ELSE "answered"

EndOf(s) == IF stage[s] = "ended" THEN outcome[s] ELSE "none"

Promise == INSTANCE SessionAnswer WITH
  Ending <- Outcome \ {"none"}, Refusal <- {"busy", "timeout"}, TimeOver <- "timeout", None <- "none",
  Says <- [s \in Session |-> [result \in Outcome |-> Words(s, result)]],
  phase <- [s \in Session |-> Phase(s)],
  ending <- [s \in Session |-> EndOf(s)],
  answer <- reply

\* Every session's client is told how its own session ended, or that it gets no camera or no
\* more time, once; a session that its handler gave up may end whenever it likes.
KeepsPromise == Promise!Spec

================================================================================
