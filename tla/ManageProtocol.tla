---------------------------- MODULE ManageProtocol ----------------------------
(***************************************************************************)
(* The page with the face models (ModelStore, CameraSession and their      *)
(* AuthdRequests) and the daemon's handlers of its requests (manage.py),   *)
(* each request on a connection of its own, answered by a handler of its   *)
(* own. What a session does with the camera and a writer with the file is  *)
(* in CameraSessions and TemplateStore; here they take a step each. Frame  *)
(* events only feed the preview and are left out; the file is readable.    *)
(***************************************************************************)
EXTENDS Naturals, Sequences

CONSTANTS
  Request,    \* bound: connections at a time, used again when both ends are done
  Model,      \* face models the user may have
  NoRequest

ASSUME RequestAssumption == NoRequest \notin Request

VARIABLES
  ask,      \* what a request asks for
  gui,      \* the AuthdRequest at the page's end of a connection
  handler,  \* the handler at the daemon's end
  list,     \* m_listRequest
  change,   \* m_changeRequest
  session,  \* the request of the dialog's CameraSession
  rows,     \* the models on the page
  error,    \* m_error is set
  store,    \* the models in the user's file
  lock,     \* whose _models_lock is
  camera,   \* whose the camera is
  up,       \* the daemon runs
  wrote,    \* history: the requests that changed the file
  unseen    \* history: the file was changed and nobody will make the page look again

requests == <<ask, gui, handler, wrote>>
page == <<list, change, session, rows, error>>
daemon == <<store, lock, camera, up>>
vars == <<requests, page, daemon, unseen>>

Kind == {"list", "remove", "clear", "enroll", "test"}

\* What the daemon says of a request that changed nothing.
Refusal == {"forbidden", "busy", "no_models", "model_not_found", "no_face",
            "cancelled", "preempted"}

NoAsk == [kind |-> "none", model |-> "none"]
NoClient == [state |-> "none", inbox |-> <<>>, cancels |-> FALSE]
NoHandler == [at |-> "none", result |-> "none", cancelled |-> "no"]

Message(type, result, models) == [type |-> type, result |-> result, models |-> models]
Result(result) == Message("result", result, {})
Garbage == Message("garbage", "none", {})

\* What a daemon answers that read no valid request: a failed login of protocol v1.
AuthResponse == Message("auth_response", "none", {})

Gone(r) == gui[r].state = "none"
Idle(r) == handler[r].at = "none"

\* Connections that a request can be made with when the deleted ones are over.
Free(deleted) == {r \in Request : (Gone(r) \/ r \in deleted) /\ Idle(r)}

--------------------------------------------------------------------------------
(* The page *)

\* Requests are deleted, which closes their connections, and one may be started.
Turn(deleted, new, kind, model) ==
  LET over == {r \in deleted \ {NoRequest} : Idle(r)} IN
  /\ gui' = [r \in Request |-> IF r = new THEN [NoClient EXCEPT !.state = "connecting"]
                               ELSE IF r \in deleted THEN NoClient ELSE gui[r]]
  /\ ask' = [r \in Request |-> IF r = new THEN [kind |-> kind, model |-> model]
                               ELSE IF r \in over THEN NoAsk ELSE ask[r]]
  /\ wrote' = wrote \ over
  /\ UNCHANGED <<handler, daemon>>

Delete(deleted) == Turn(deleted, NoRequest, "none", "none")

\* Variant of Reload that lets a list request finish that is on its way.
ReloadKeeping(deleted) ==
  /\ unseen' = FALSE
  /\ IF list = NoRequest
       THEN \E new \in Free(deleted) : Turn(deleted, new, "list", "none") /\ list' = new
       ELSE Delete(deleted) /\ UNCHANGED list

\* ModelStore::refresh(): a list request that is on its way is deleted.
Reload(deleted) ==
  \E new \in Free(deleted \union {list}) :
    /\ Turn(deleted \union {list}, new, "list", "none")
    /\ list' = new /\ unseen' = FALSE

\* onListFinished(): rows that could not be read again are not shown.
ListEnds(r, result, models) ==
  /\ Delete({r})
  /\ list' = NoRequest
  /\ rows' = IF result = "success" THEN models ELSE {}
  /\ error' = (result # "success")
  /\ UNCHANGED <<change, session, unseen>>

\* The list is read again after every change, also one that failed.
ChangeEnds(r) ==
  /\ Reload({r})
  /\ change' = NoRequest
  /\ UNCHANGED <<session, rows, error>>

\* After a session it is read again only if a model was saved.
SessionEnds(r, result) ==
  /\ IF result = "success"
       THEN Reload({r})
       ELSE Delete({r}) /\ unseen' = (unseen \/ r \in wrote) /\ UNCHANGED list
  /\ session' = NoRequest
  /\ UNCHANGED <<change, rows, error>>

\* AuthdRequest::finish() with the slot that is connected to it.
Finish(r, result, models) ==
  \/ r = list /\ ListEnds(r, result, models)
  \/ r = change /\ ChangeEnds(r)
  \/ r = session /\ SessionEnds(r, result)

\* The daemon takes the connection, or has no slot for it and closes it.
Connect(r) ==
  /\ gui[r].state = "connecting"
  /\ \/ /\ up
        /\ gui' = [gui EXCEPT ![r].state = "waiting"]
        /\ \E at \in {"read", "none"} : handler' = [handler EXCEPT ![r].at = at]
        /\ UNCHANGED <<ask, wrote, page, daemon, unseen>>
     \/ ~up /\ Finish(r, "daemon_unavailable", {})

\* onReadyRead() and handleMessage()
Receive(r) ==
  /\ gui[r].inbox # <<>>
  /\ LET message == Head(gui[r].inbox) IN
     \/ /\ message.type = "started"
        /\ gui' = [gui EXCEPT ![r].state = "running", ![r].inbox = Tail(@)]
        /\ UNCHANGED <<ask, handler, wrote, page, daemon, unseen>>
     \/ message.type = "result" /\ Finish(r, message.result, message.models)
     \/ message.type = "auth_response" /\ Finish(r, "daemon_outdated", {})
     \/ message.type = "garbage" /\ Finish(r, "protocol_error", {})

\* What was sent before the connection was closed is read first.
Disconnect(r) ==
  /\ gui[r].state \in {"waiting", "running"} /\ gui[r].inbox = <<>> /\ Idle(r)
  /\ Finish(r, "connection_lost", {})

\* The timer is stopped by nothing but the end of the request.
IdleTimeout(r) == ~Gone(r) /\ Finish(r, "timeout", {})

Refresh ==
  /\ list = NoRequest /\ session = NoRequest
  /\ Reload({})
  /\ UNCHANGED <<change, session, rows, error>>

\* startChange(): one change at a time. The dialog that asks first keeps what the page showed
\* when it was opened, and the rows may have been read again when it is confirmed.
Change(kind, model) ==
  /\ change = NoRequest /\ session = NoRequest
  /\ \/ kind = "remove" /\ model \in Model
     \/ kind = "clear" /\ model = "none"
  /\ \E new \in Free({}) : Turn({}, new, kind, model) /\ change' = new
  /\ UNCHANGED <<list, session, rows, error, unseen>>

\* The dialogs are modal. The page without models opens the one that enrolls also while a
\* change is on its way.
Start(kind) ==
  /\ session = NoRequest
  /\ \/ kind = "enroll"
     \/ kind = "test" /\ rows # {}
  /\ \E new \in Free({}) : Turn({}, new, kind, "none") /\ session' = new
  /\ UNCHANGED <<list, change, rows, error, unseen>>

\* A session that runs is asked to stop; before that the request is dropped.
Cancel(r) ==
  /\ r = session
  /\ \/ /\ gui[r].state = "running" /\ ~gui[r].cancels
        /\ gui' = [gui EXCEPT ![r].cancels = TRUE]
        /\ UNCHANGED <<ask, handler, wrote, page, daemon, unseen>>
     \/ gui[r].state \in {"connecting", "waiting"} /\ Finish(r, "cancelled", {})

\* The dialog is closed, and CameraSession::reset() deletes the request.
Close(r) ==
  /\ r = session
  /\ Delete({r})
  /\ session' = NoRequest /\ unseen' = (unseen \/ r \in wrote)
  /\ UNCHANGED <<list, change, rows, error>>

User ==
  \/ Refresh \/ Change("clear", "none") \/ \E m \in Model : Change("remove", m)
  \/ Start("enroll") \/ Start("test")
  \/ \E r \in Request : Cancel(r) \/ Close(r)

Gui(r) == Connect(r) \/ Receive(r) \/ Disconnect(r) \/ IdleTimeout(r)

--------------------------------------------------------------------------------
(* The daemon *)

Go(r, at) == handler' = [handler EXCEPT ![r].at = at]

Send(r, messages) == gui' = IF Gone(r) THEN gui ELSE [gui EXCEPT ![r].inbox = @ \o messages]

\* Handlers are over, and their connections are closed.
Over(ended, written) ==
  LET forgotten == {r \in ended : Gone(r)} IN
  /\ handler' = [r \in Request |-> IF r \in ended THEN NoHandler ELSE handler[r]]
  /\ ask' = [r \in Request |-> IF r \in forgotten THEN NoAsk ELSE ask[r]]
  /\ wrote' = (wrote \union written) \ forgotten

\* The result is sent. When that fails another one may get through, or part of it.
Answer(r, message, written) ==
  /\ \E messages \in {<<message>>, <<Result("internal_error")>>, <<Garbage>>, <<>>} :
       Send(r, messages)
  /\ Over({r}, written)

FreeIf(r, owner) == IF owner = r THEN NoRequest ELSE owner

\* A frame comes late or incomplete, which is answered like one of protocol v1.
ReadFails(r) ==
  /\ handler[r].at = "read"
  /\ Answer(r, AuthResponse, {})
  /\ UNCHANGED <<page, daemon, unseen>>

\* may_act_for() knows no such user, or another one.
Refuse(r) ==
  /\ handler[r].at = "read"
  /\ Answer(r, Result("forbidden"), {})
  /\ UNCHANGED <<page, daemon, unseen>>

\* A valid request goes to _models_request() or to _camera_session().
Read(r) ==
  /\ handler[r].at = "read"
  /\ Go(r, CASE ask[r].kind = "list" -> "list"
              [] ask[r].kind = "test" -> "camera"
              [] OTHER -> "lock")
  /\ UNCHANGED <<ask, gui, wrote, page, daemon, unseen>>

ListModels(r) ==
  /\ handler[r].at = "list"
  /\ Answer(r, Message("result", "success", store), {})
  /\ UNCHANGED <<page, daemon, unseen>>

\* A change and an enrollment have the lock in time, or the lock stays somebody's.
Lock(r) ==
  /\ handler[r].at = "lock"
  /\ IF lock = NoRequest
       THEN /\ lock' = r
            /\ Go(r, IF ask[r].kind = "enroll" THEN "camera" ELSE "change")
            /\ UNCHANGED <<ask, gui, wrote>>
       ELSE Answer(r, Result("busy"), {}) /\ UNCHANGED lock
  /\ UNCHANGED <<page, store, camera, up, unseen>>

\* The file becomes models. Who asked for it may be gone.
Store(r, models) == store' = models /\ unseen' = (unseen \/ Gone(r))

\* _change_models(), and the lock is released before the result is sent. Reading the file,
\* saving or deleting it may raise, which leaves it as it was.
ChangeModels(r) ==
  /\ handler[r].at = "change"
  /\ lock' = NoRequest
  /\ LET kept == IF ask[r].kind = "clear" THEN {} ELSE store \ {ask[r].model} IN
     \/ kept # store /\ Store(r, kept) /\ Answer(r, Result("success"), {r})
     \/ /\ kept = store
        /\ Answer(r, Result(IF store = {} THEN "no_models" ELSE "model_not_found"), {})
        /\ UNCHANGED <<store, unseen>>
     \/ Answer(r, Result("internal_error"), {}) /\ UNCHANGED <<store, unseen>>
  /\ UNCHANGED <<page, camera, up>>

\* The session has the camera in time, or it stays another's, a login's also.
AcquireCamera(r) ==
  /\ handler[r].at = "camera"
  /\ \/ /\ camera = NoRequest /\ camera' = r
        /\ Go(r, "started")
        /\ UNCHANGED <<ask, gui, wrote, lock>>
     \/ Answer(r, Result("busy"), {}) /\ lock' = FreeIf(r, lock) /\ UNCHANGED camera
  /\ UNCHANGED <<page, store, up, unseen>>

\* run() returns, or something before it raises.
End(r, result) == handler' = [handler EXCEPT ![r].at = "release", ![r].result = result]

\* Writing to a client that is gone raises.
SendStarted(r) ==
  /\ handler[r].at = "started"
  /\ IF Gone(r) THEN End(r, "internal_error") ELSE Go(r, "session")
  /\ Send(r, <<Message("started", "none", {})>>)
  /\ UNCHANGED <<ask, wrote, page, daemon, unseen>>

\* The session can be cancelled, but heeds it only until it writes.
InSession(r) == handler[r].at \in {"session", "captured", "write"}

Stopped(r) == handler[r].cancelled # "no"

CancelFor(r, reason) ==
  /\ handler' = [handler EXCEPT ![r].cancelled = reason]
  /\ UNCHANGED <<ask, gui, wrote, page, daemon, unseen>>

\* Variant of Watch that looks for the end of the connection only.
WatchForEnd(r) == InSession(r) /\ Gone(r) /\ ~Stopped(r) /\ CancelFor(r, "client")

\* _watch_client() reads a cancel message or the end of the connection; when that is
\* closed, the next frame that _FrameSender sends cancels, too.
Watch(r) ==
  /\ InSession(r) /\ (Gone(r) \/ gui[r].cancels) /\ ~Stopped(r)
  /\ CancelFor(r, "client")

\* A login takes the camera away, and the holder remembers that it was a login.
Preempt(r) == camera = r /\ handler[r].cancelled # "login" /\ CancelFor(r, "login")

\* An enrollment captures the face or finds none, a test completes; or something raises.
SessionRuns(r) ==
  /\ handler[r].at = "session" /\ ~Stopped(r)
  /\ \/ ask[r].kind = "test" /\ \E result \in {"completed", "no_models"} : End(r, result)
     \/ ask[r].kind = "enroll" /\ (End(r, "no_face") \/ Go(r, "captured"))
     \/ End(r, "internal_error")
  /\ UNCHANGED <<ask, gui, wrote, page, daemon, unseen>>

\* The loop and the check that follows the capture.
SessionStops(r) ==
  /\ handler[r].at \in {"session", "captured"} /\ Stopped(r)
  /\ End(r, "cancelled")
  /\ UNCHANGED <<ask, gui, wrote, page, daemon, unseen>>

\* Nobody cancelled before the template is stored.
Captured(r) ==
  /\ handler[r].at = "captured" /\ ~Stopped(r)
  /\ Go(r, "write")
  /\ UNCHANGED <<ask, gui, wrote, page, daemon, unseen>>

\* A template is added or takes the place of the others; or storing it raises.
WriteModel(r) ==
  /\ handler[r].at = "write"
  /\ \/ /\ \E m \in Model : \E models \in {store \union {m}, {m}} :
              models # store /\ Store(r, models)
        /\ wrote' = wrote \union {r}
        /\ End(r, "success")
     \/ End(r, "internal_error") /\ UNCHANGED <<store, wrote, unseen>>
  /\ UNCHANGED <<ask, gui, page, lock, camera, up>>

\* Variant of Outcome that asks whether somebody cancelled.
OutcomeByEvent(r) ==
  CASE handler[r].cancelled = "login" -> "preempted"
    [] handler[r].cancelled = "client" -> "cancelled"
    [] OTHER -> handler[r].result

\* A session that was cancelled says so when it was for a login.
Outcome(r) ==
  IF handler[r].result = "cancelled" /\ handler[r].cancelled = "login"
    THEN "preempted" ELSE handler[r].result

\* The two finally blocks, on every path, and then the result.
Release(r) ==
  /\ handler[r].at = "release"
  /\ camera' = FreeIf(r, camera) /\ lock' = FreeIf(r, lock)
  /\ Answer(r, Result(Outcome(r)), {})
  /\ UNCHANGED <<page, store, up, unseen>>

\* The daemon is stopped or dies in the middle of anything, and may come back.
Dies ==
  /\ up
  /\ up' = FALSE /\ lock' = NoRequest /\ camera' = NoRequest
  /\ Over(Request, {})
  /\ UNCHANGED <<gui, page, store, unseen>>

Comes ==
  /\ ~up /\ up' = TRUE
  /\ UNCHANGED <<requests, page, store, lock, camera, unseen>>

Handling(r) ==
  \/ ReadFails(r) \/ Refuse(r) \/ Read(r) \/ ListModels(r)
  \/ Lock(r) \/ ChangeModels(r) \/ AcquireCamera(r) \/ SendStarted(r) \/ SessionStops(r) \/ Captured(r) \/ WriteModel(r) \/ Release(r)

--------------------------------------------------------------------------------

\* The page is loaded and reads the list.
Init ==
  /\ list \in Request /\ change = NoRequest /\ session = NoRequest /\ rows = {} /\ error = FALSE
  /\ gui = [r \in Request |-> IF r = list THEN [NoClient EXCEPT !.state = "connecting"]
                                          ELSE NoClient]
  /\ ask = [r \in Request |-> IF r = list THEN [NoAsk EXCEPT !.kind = "list"] ELSE NoAsk]
  /\ handler = [r \in Request |-> NoHandler] /\ wrote = {}
  /\ store \in SUBSET Model /\ lock = NoRequest /\ camera = NoRequest /\ up = TRUE
  /\ unseen = FALSE

Next ==
  \/ User \/ Dies \/ Comes
  \/ \E r \in Request : Gui(r) \/ Handling(r) \/ Watch(r) \/ SessionRuns(r) \/ Preempt(r)

Spec == Init /\ [][Next]_vars

\* The threads of the daemon run; each of their steps changes the handler. Nothing makes
\* the user, the camera or a login act.
FairSpec ==
  Spec /\ \A r \in Request : WF_(handler[r])(Handling(r)) /\ WF_(handler[r])(Watch(r))

--------------------------------------------------------------------------------

\* Types; the requests that are there are those of the page, and a handler holds the lock or
\* the camera only while it is at work.
TypeOK ==
  /\ \A r \in Request :
       /\ gui[r].state \in {"none", "connecting", "waiting", "running"} /\ Len(gui[r].inbox) <= 2
       /\ ask[r].kind \in Kind \union {"none"} /\ ask[r].model \in Model \union {"none"}
       /\ Gone(r) <=> r \notin {list, change, session}
       /\ r \in {lock, camera} => ~Idle(r)
  /\ {list, change, session, lock, camera} \subseteq Request \union {NoRequest}
  /\ rows \subseteq Model /\ store \subseteq Model /\ wrote \subseteq Request
  /\ error \in BOOLEAN /\ up \in BOOLEAN /\ unseen \in BOOLEAN

\* When nothing is on its way, the page shows the models there are: no list that was read
\* before a change is shown after it. It may be out of date only when it says so, or when
\* the file was changed for a request that was gone by then, or for a session that did not
\* end with success on the page (ModelStore, EnrollDialog).
PageShowsModels ==
  /\ list = NoRequest /\ change = NoRequest /\ session = NoRequest
  /\ ~error /\ ~unseen
  => rows = store

\* What the daemon tells the page is what happened to the file. Success means that it was
\* changed, and every way it declines, stops or does not understand means that it was not,
\* whenever a cancel or a login came. The results that the page makes up itself, and the
\* error that takes the place of a result that could not be sent, leave that open.
ToldIsTrue ==
  \A r \in Request : gui[r].inbox # <<>> /\ ask[r].kind \in {"remove", "clear", "enroll"} =>
    LET message == Head(gui[r].inbox) IN
    /\ message.result = "success" => r \in wrote
    /\ message.result \in Refusal \/ message = AuthResponse => r \notin wrote

\* "A closed dialog or a quitting app can never leave the camera on", nor can a session
\* that was asked to stop, although nobody knows when it would end by itself.
CameraGivenBack ==
  (\E r \in Request : camera = r /\ (Gone(r) \/ gui[r].cancels)) ~> camera = NoRequest

================================================================================
