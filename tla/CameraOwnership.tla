---------------------------- MODULE CameraOwnership ----------------------------
(***************************************************************************)
(* What the camera arbiter of the daemon promises to its callers, without  *)
(* saying how: one owner at a time, logins before management sessions, and *)
(* a management owner that is told to yield as soon as a login queues.     *)
(* CameraArbiter, the monitor that authd/camera.py implements, refines it. *)
(***************************************************************************)
CONSTANTS
  AuthSession,    \* sessions of PAM logins          (CameraUse.AUTH)
  ManageSession,  \* enrollment and test sessions    (CameraUse.MANAGE)
  NoSession       \* the camera is free

VARIABLES
  owner,   \* the session that has the camera, or NoSession
  queue,   \* the sessions whose request was not answered yet
  told     \* the owner, once it was asked to yield

vars == <<owner, queue, told>>

Session == AuthSession \union ManageSession

Init ==
  /\ owner = NoSession
  /\ queue = {}
  /\ told = {}

\* A request that is not answered at once; a login tells a management owner.
Ask(s) ==
  /\ s \notin queue
  /\ s # owner
  /\ owner = NoSession => s \in ManageSession /\ queue \cap AuthSession # {}
  /\ queue' = queue \union {s}
  /\ told' = told \union (IF s \in AuthSession THEN {owner} \cap ManageSession ELSE {})
  /\ UNCHANGED owner

\* The camera goes to a session, never to a management one past a queued login.
Grant(s) ==
  /\ owner = NoSession
  /\ s \in ManageSession => queue \cap AuthSession = {}
  /\ owner' = s
  /\ queue' = queue \ {s}
  /\ UNCHANGED told

\* A request is refused, only while the camera is not available to it. Even a
\* login that does not wait at all has told a management owner by then.
Refuse(s) ==
  /\ s # owner
  /\ owner = NoSession => s \in ManageSession /\ queue \cap AuthSession # {}
  /\ queue' = queue \ {s}
  /\ told' = told \union (IF s \in AuthSession THEN {owner} \cap ManageSession ELSE {})
  /\ UNCHANGED owner

\* Only the owner gives the camera back.
GiveBack(s) ==
  /\ owner = s
  /\ owner' = NoSession
  /\ told' = told \ {s}
  /\ UNCHANGED queue

Next == \E s \in Session : Ask(s) \/ Grant(s) \/ Refuse(s) \/ GiveBack(s)

Spec == Init /\ [][Next]_vars

================================================================================
