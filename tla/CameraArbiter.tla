----------------------------- MODULE CameraArbiter -----------------------------
(***************************************************************************)
(* The camera monitor of the daemon, authd/camera.py: one condition        *)
(* variable that guards the holder and the number of logins inside         *)
(* acquire(). A step is what one thread does from the moment it gets the   *)
(* condition's lock to the moment it waits or returns: nothing else reads  *)
(* or writes the monitor in between. Time is the choice of when a wait     *)
(* runs out; CameraOwnership says what the monitor is for.                 *)
(***************************************************************************)
EXTENDS Naturals, FiniteSets

CONSTANTS
  AuthSession,    \* sessions of PAM logins          (CameraUse.AUTH)
  ManageSession,  \* enrollment and test sessions    (CameraUse.MANAGE)
  NoSession       \* the value of _holder while the camera is free

Session == AuthSession \union ManageSession

ASSUME SessionAssumption ==
  /\ IsFiniteSet(AuthSession)
  /\ AuthSession \cap ManageSession = {}
  /\ NoSession \notin Session

VARIABLES
  holder,       \* _holder: the session that was granted the camera
  authWaiting,  \* _auth_waiting: logins inside acquire()
  pc,           \* where the thread that serves the session stands
  cancelled     \* sessions whose cancel() the monitor has called

vars == <<holder, authWaiting, pc, cancelled>>

\* "parked" is in the waiter list of the condition, "notified" has left it and
\* is about to take the lock again, "holding" has seen acquire() return True.
Place == {"idle", "parked", "notified", "holding"}

Waiting(s) == pc[s] \in {"parked", "notified"}

Init ==
  /\ holder = NoSession
  /\ authWaiting = 0
  /\ pc = [s \in Session |-> "idle"]
  /\ cancelled = {}

--------------------------------------------------------------------------------
(* acquire() *)

\* Variant of _can_take in which anybody passes a queued login.
CanTakePastLogin(s, counted) == holder = NoSession

\* _can_take, where counted is _auth_waiting with the caller counted in.
CanTake(s, counted) ==
  /\ holder = NoSession
  /\ s \in AuthSession \/ counted = 0

\* _cond.notify_all()
NotifyAll == [s \in Session |-> IF pc[s] = "parked" THEN "notified" ELSE pc[s]]

\* Variant of the end of acquire() in which a request that timed out stays counted.
LeaveCounted(s, place, counted) ==
  /\ pc' = IF s \in AuthSession THEN [NotifyAll EXCEPT ![s] = place]
                                ELSE [pc EXCEPT ![s] = place]
  /\ authWaiting' = IF s \in AuthSession /\ place = "holding" THEN counted - 1 ELSE counted

\* acquire() returns and its finally block runs: a login uncounts itself, and a
\* management request that only this login held back must look again.
Leave(s, place, counted) ==
  /\ pc' = IF s \in AuthSession THEN [NotifyAll EXCEPT ![s] = place]
                                ELSE [pc EXCEPT ![s] = place]
  /\ authWaiting' = IF s \in AuthSession THEN counted - 1 ELSE counted

\* Variant of the loop of acquire() that waits without cancelling anyone.
PreemptNobody(s) == UNCHANGED cancelled

\* A login cancels the management session it waits for.
Preempt(s) ==
  cancelled' = cancelled \union (IF s \in AuthSession THEN {holder} \cap ManageSession ELSE {})

\* One pass of the loop of acquire(): take the camera, give up when the time is
\* over, or wait (again).
Take(s, counted) ==
  /\ CanTake(s, counted)
  /\ holder' = s
  /\ Leave(s, "holding", counted)
  /\ UNCHANGED cancelled

GiveUp(s, counted) ==
  /\ ~CanTake(s, counted)
  /\ Preempt(s)
  /\ Leave(s, "idle", counted)
  /\ UNCHANGED holder

Park(s, counted) ==
  /\ ~CanTake(s, counted)
  /\ Preempt(s)
  /\ pc' = [pc EXCEPT ![s] = "parked"]
  /\ authWaiting' = counted
  /\ UNCHANGED holder

\* acquire() is called. A timeout of zero gives up without waiting.
Acquire(s) ==
  LET counted == IF s \in AuthSession THEN authWaiting + 1 ELSE authWaiting IN
  /\ pc[s] = "idle"
  /\ Take(s, counted) \/ GiveUp(s, counted) \/ Park(s, counted)

\* A notified thread gets the lock back; its time may be over by then.
Resume(s) ==
  /\ pc[s] = "notified"
  /\ Take(s, authWaiting) \/ GiveUp(s, authWaiting) \/ Park(s, authWaiting)

\* wait(remaining) runs out: the camera is still taken if it happens to be free.
TimeOut(s) ==
  /\ pc[s] = "parked"
  /\ Take(s, authWaiting) \/ GiveUp(s, authWaiting)

--------------------------------------------------------------------------------
(* release() *)

\* Variant of release() without notify_all().
ReleaseSilently(s) ==
  /\ pc[s] = "holding"
  /\ holder' = IF holder = s THEN NoSession ELSE holder
  /\ pc' = [pc EXCEPT ![s] = "idle"]
  /\ cancelled' = cancelled \ {s}
  /\ UNCHANGED authWaiting

\* The session let go of the device. Only the holder's call has an effect; its
\* name stands for the session of a later request from here on.
Release(s) ==
  /\ pc[s] = "holding"
  /\ IF holder = s
       THEN holder' = NoSession /\ pc' = [NotifyAll EXCEPT ![s] = "idle"]
       ELSE UNCHANGED holder /\ pc' = [pc EXCEPT ![s] = "idle"]
  /\ cancelled' = cancelled \ {s}
  /\ UNCHANGED authWaiting

Next == \E s \in Session : Acquire(s) \/ Resume(s) \/ TimeOut(s) \/ Release(s)

Spec == Init /\ [][Next]_vars

\* A notified thread is scheduled, a login ends by its own deadline, and a
\* cancelled management session ends because its loop looks at the cancel event
\* for every frame. No wait needs to run out, no one needs to ask.
Fairness ==
  \A s \in Session :
    /\ WF_vars(Resume(s))
    /\ WF_vars(Release(s) /\ (s \in AuthSession \/ s \in cancelled))

FairSpec == Spec /\ Fairness

--------------------------------------------------------------------------------
(* Properties *)

\* Types; only a management session that has the camera is ever cancelled.
TypeOK ==
  /\ holder \in Session \union {NoSession}
  /\ authWaiting \in Nat
  /\ pc \in [Session -> Place]
  /\ cancelled \subseteq {holder} \cap ManageSession

\* The session that acquire() told to go on is the one the monitor protects: two
\* sessions never believe to have the camera (rule "one session at a time").
OneHolder == \A s \in Session : pc[s] = "holding" <=> holder = s

\* The counter is exactly the logins inside acquire(), whatever way they leave:
\* one left over shuts management out for good, one missing lets it jump ahead.
AuthWaitingExact == authWaiting = Cardinality({s \in AuthSession : Waiting(s)})

\* No lost wakeup: whoever sleeps in the condition could not take the camera. A
\* change that would let it is always followed by a notification.
NoLostWakeup == \A s \in Session : pc[s] = "parked" => ~CanTake(s, authWaiting)

\* While a login waits, a management holder has been cancelled, no matter
\* which of the two came first or how many logins came and went.
HolderToldToYield ==
  (\E a \in AuthSession : Waiting(a)) /\ holder \in ManageSession => holder \in cancelled

\* The monitor implements its contract: every step is a step of CameraOwnership,
\* so a management session is never granted the camera past a queued login and no
\* request is refused while the camera is there for it.
Ownership == INSTANCE CameraOwnership
  WITH owner <- holder, queue <- {s \in Session : Waiting(s)}, told <- cancelled

ImplementsOwnership == Ownership!Spec

\* A waiting login gets the camera or sees another login get it, even though no
\* management holder would ever end by itself and no wait runs out.
LoginsProgress ==
  \A a \in AuthSession : Waiting(a) ~> (~Waiting(a) \/ holder \in AuthSession)

\* The camera does not stay free while somebody waits for it.
FreeCameraIsTaken ==
  (holder = NoSession /\ \E s \in Session : Waiting(s))
    ~> (holder # NoSession \/ \A s \in Session : ~Waiting(s))

\* The monitor's progress: nobody waits in front of a camera that could be theirs.
WaitersServed == LoginsProgress /\ FreeCameraIsTaken

================================================================================
