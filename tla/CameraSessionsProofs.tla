------------------------- MODULE CameraSessionsProofs --------------------------
(***************************************************************************)
(* Safety of the camera sessions for any number of logins, enrollments and *)
(* tests. The invariant says where threads can be, and is built in layers: *)
(* who holds the camera, what the client was told, who may touch the       *)
(* device. Only the last one needs a configuration whose numbers parse.    *)
(***************************************************************************)
EXTENDS CameraSessions, TLAPS

--------------------------------------------------------------------------------
(* Who holds the camera *)

\* The types the proofs rest on.
Types ==
  /\ holder \in Session \union {NoSession}
  /\ pc \in [Session -> Arbiter!Place]
  /\ at \in [Session -> Handler]
  /\ stage \in [Session -> Stage]
  /\ outcome \in [Session -> Outcome]
  /\ reply \in [Session -> Reply]
  /\ cancelStep \in [Session -> [Canceller -> {"no", "called", "lock", "closing"}]]
  /\ watching \in SUBSET ManageSession

\* The monitor's holder is the one that acquire() told to go on.
HolderIsOne == \A s \in Session : pc[s] = "holding" <=> holder = s

\* A session runs for a handler that was granted the camera, and the camera is not
\* given back before it ended. Only a login's handler cancels at its deadline, and
\* only that of an enrollment takes the lock of the model files.
RunsAsHolder ==
  \A s \in Session :
    /\ at[s] \in {"idle", "models", "camera"} => stage[s] = "none"
    /\ at[s] = "session" /\ stage[s] = "none" => pc[s] = "holding"
    /\ stage[s] \notin {"none", "ended"} => pc[s] = "holding"
    /\ at[s] = "cancel" => s \in AuthSession
    /\ at[s] = "models" => s \in EnrollSession

Held == Types /\ HolderIsOne /\ RunsAsHolder

\* A pass of acquire() lets a session in front of a free camera have it, and takes
\* it from nobody.
LEMMA AskStep ==
  ASSUME Held, NEW s \in Session, AskCamera(s)
  PROVE  /\ holder' \in Session \union {NoSession}
         /\ pc' \in [Session -> Arbiter!Place]
         /\ pc[s] # "holding" /\ pc'[s] \in {"idle", "parked", "holding"}
         /\ pc'[s] = "holding" => holder = NoSession /\ holder' = s
         /\ pc'[s] # "holding" => holder' = holder
         /\ \A t \in Session : t # s => (pc'[t] = "holding" <=> pc[t] = "holding")
  <1>1. Arbiter!Session = Session
    BY DEF Arbiter!Session, Session
  <1>2. pc[s] \in {"idle", "notified", "parked"} /\ \E counted :
           Arbiter!Take(s, counted) \/ Arbiter!GiveUp(s, counted) \/ Arbiter!Park(s, counted)
    BY DEF AskCamera, Arbiter!Acquire, Arbiter!Resume, Arbiter!TimeOut
  <1>3. PICK counted :
           Arbiter!Take(s, counted) \/ Arbiter!GiveUp(s, counted) \/ Arbiter!Park(s, counted)
    BY <1>2
  <1>4. CASE Arbiter!Take(s, counted)
    BY <1>1, <1>2, <1>4 DEF Arbiter!Take, Arbiter!CanTake, Arbiter!Leave, Arbiter!NotifyAll,
                            Arbiter!Place, Held, Types
  <1>5. CASE Arbiter!GiveUp(s, counted)
    BY <1>1, <1>2, <1>5 DEF Arbiter!GiveUp, Arbiter!Leave, Arbiter!NotifyAll, Arbiter!Place, Held, Types
  <1>6. CASE Arbiter!Park(s, counted)
    BY <1>1, <1>2, <1>6 DEF Arbiter!Park, Arbiter!Place, Held, Types
  <1> QED
    BY <1>3, <1>4, <1>5, <1>6

\* release() frees the camera of its holder.
LEMMA GiveBackStep ==
  ASSUME Held, NEW s \in Session, GiveBack(s)
  PROVE  /\ holder = s /\ holder' = NoSession
         /\ pc' \in [Session -> Arbiter!Place] /\ pc[s] = "holding" /\ pc'[s] = "idle"
         /\ \A t \in Session : t # s => pc[t] # "holding" /\ pc'[t] # "holding"
  <1>1. Arbiter!Session = Session
    BY DEF Arbiter!Session, Session
  <1>2. pc[s] = "holding" /\ holder = s /\ Arbiter!Release(s)
    BY DEF GiveBack, Held, HolderIsOne
  <1>3. holder' = NoSession /\ pc' = [Arbiter!NotifyAll EXCEPT ![s] = "idle"]
    BY <1>2 DEF Arbiter!Release
  <1> QED
    BY <1>1, <1>2, <1>3 DEF Arbiter!NotifyAll, Arbiter!Place, Held, Types, HolderIsOne

\* The daemon starts with a free camera and no session.
LEMMA InitHeld == Init => Held
  <1>1. Arbiter!Session = Session
    BY DEF Arbiter!Session, Session
  <1> SUFFICES ASSUME Init PROVE Held
    OBVIOUS
  <1>2. Types
    BY <1>1 DEF Init, Types, Arbiter!Init, Arbiter!Place, Handler, Stage, Outcome, Reply, Canceller
  <1>3. HolderIsOne /\ RunsAsHolder
    BY <1>1, KindAssumption DEF Init, Arbiter!Init, HolderIsOne, RunsAsHolder, Types
  <1> QED
    BY <1>2, <1>3 DEF Held

\* A step of one call of cancel() leaves the other calls alone.
LEMMA CancelAtType ==
  ASSUME Types, NEW s \in Session, NEW c \in Canceller,
         NEW step \in {"no", "called", "lock", "closing"}, CancelAt(s, c, step)
  PROVE  /\ cancelStep' \in [Session -> [Canceller -> {"no", "called", "lock", "closing"}]]
         /\ cancelStep'[s][c] = step
         /\ \A d \in Canceller : d # c => cancelStep'[s][d] = cancelStep[s][d]
         /\ \A t \in Session : t # s => cancelStep'[t] = cancelStep[t]
  BY DEF Types, CancelAt

\* What a step of a cancelling thread does to the calls of cancel().
LEMMA CancelStep ==
  ASSUME Types, NEW s \in Session, Cancelling(s)
  PROVE  /\ cancelStep' \in [Session -> [Canceller -> {"no", "called", "lock", "closing"}]]
         /\ UNCHANGED <<monitor, at, stage, outcome, reply, modelsLock, stream, preempted, watching, stored>>
  <1>1. CASE SetEvent(s)
    BY <1>1, CancelAtType DEF SetEvent, Canceller, streamState
  <1>2. ASSUME NEW c \in Canceller, TakeStateLock(s, c)
        PROVE  /\ cancelStep' \in [Session -> [Canceller -> {"no", "called", "lock", "closing"}]]
               /\ UNCHANGED <<monitor, at, stage, outcome, reply, modelsLock, stream, preempted, watching, stored>>
    BY <1>2, CancelAtType DEF TakeStateLock
  <1>3. ASSUME NEW c \in Canceller, CloseDevice(s, c)
        PROVE  /\ cancelStep' \in [Session -> [Canceller -> {"no", "called", "lock", "closing"}]]
               /\ UNCHANGED <<monitor, at, stage, outcome, reply, modelsLock, stream, preempted, watching, stored>>
    BY <1>3, CancelAtType DEF CloseDevice
  <1> QED
    BY <1>1, <1>2, <1>3 DEF Cancelling

\* The types survive every step.
LEMMA StepTypes ==
  ASSUME Held, NEW s \in Session,
         \/ Request(s) \/ LockModels(s) \/ Start(s) \/ PoolStarts(s) \/ Running(s) \/ ClientCancels(s)
         \/ Cancelling(s) \/ ReturnModels(s) \/ Finish(s) \/ Deadline(s) \/ DeadlineAnswer(s) \/ Forget(s)
  PROVE  Types' /\ UNCHANGED monitor
  <1> USE DEF Held, Types, Handler, Stage, Outcome, Reply, Canceller, monitor
  <1>1. CASE Request(s) \/ LockModels(s) \/ ReturnModels(s)
    BY <1>1 DEF Request, LockModels, ReturnModels, Move, cancelState
  <1>2. CASE Start(s) \/ PoolStarts(s)
    <2>1. s \in ManageSession \/ s \in AuthSession
      BY DEF Session
    <2> QED
      BY <1>2, <2>1 DEF Start, PoolStarts, Step, End, Leave, cancelState
  <1>6. CASE Running(s)
    <2>1. /\ UNCHANGED <<monitor, at, reply, cancelStep, watching>>
          /\ \E next \in Stage : stage' = [stage EXCEPT ![s] = next]
          /\ outcome' = outcome \/ \E result \in Outcome : outcome' = [outcome EXCEPT ![s] = result]
      <3>1. CASE Prepare(s) \/ Register(s) \/ FrameNotSent(s)
        BY <1>6, <3>1 DEF Prepare, Register, FrameNotSent, Step, End, Leave, cancelState
      <3>2. CASE ReadFails(s) \/ LoopEnds(s)
        BY <1>6, <3>2 DEF ReadFails, LoopEnds, Leave, cancelState
      <3>3. CASE Finally(s) \/ Captured(s) \/ Write(s)
        BY <1>6, <3>3 DEF Finally, AfterFinally, Captured, Write, Step, End, Leave, cancelState
      <3> QED
        BY <1>6, <3>1, <3>2, <3>3 DEF Running
    <2>2. stage' \in [Session -> Stage]
      BY <2>1
    <2>3. outcome' \in [Session -> Outcome]
      BY <2>1
    <2> QED
      BY <2>1, <2>2, <2>3
  <1>3. CASE Cancelling(s)
    BY <1>3, CancelStep
  <1>7. CASE ClientCancels(s)
    <2>1. CancelAt(s, "client", "lock") /\ "client" \in Canceller
      BY <1>7 DEF ClientCancels
    <2>2. cancelStep' \in [Session -> [Canceller -> {"no", "called", "lock", "closing"}]]
      BY <2>1, CancelAtType
    <2> QED
      BY <1>7, <2>2 DEF ClientCancels
  <1>4. CASE Finish(s)
    <2>1. Answer(s) \in Reply
      BY DEF Answer
    <2> QED
      BY <1>4, <2>1 DEF Finish, Move, cancelState
  <1>5. CASE Deadline(s)
    <2>1. CancelAt(s, "client", "lock") /\ "client" \in Canceller
      BY <1>5 DEF Deadline
    <2>2. cancelStep' \in [Session -> [Canceller -> {"no", "called", "lock", "closing"}]]
      BY <2>1, CancelAtType
    <2> QED
      BY <1>5, <2>2 DEF Deadline, Move
  <1>8. CASE DeadlineAnswer(s)
    BY <1>8 DEF DeadlineAnswer, Move, End, Leave, cancelState
  <1>9. CASE Forget(s)
    BY <1>9 DEF Forget, Move, Leave, cancelState
  <1> QED
    BY <1>1, <1>2, <1>3, <1>4, <1>5, <1>6, <1>7, <1>8, <1>9

\* Every step keeps the layer.
LEMMA StepHeld == Held /\ [Next]_vars => Held'
  <1> SUFFICES ASSUME Held, [Next]_vars PROVE Held'
    OBVIOUS
  <1> USE DEF RunsAsHolder, HolderIsOne
  <1>1. CASE UNCHANGED vars
    BY <1>1 DEF vars, monitor, cancelState, Held, Types
  <1>2. ASSUME NEW s \in Session, AskCamera(s) PROVE Held'
    <2>1. /\ at[s] = "camera" /\ stage[s] = "none" /\ UNCHANGED <<stage, outcome, watching>>
          /\ pc'[s] = "holding" => at' = [at EXCEPT ![s] = "session"] /\ reply' = reply
          /\ pc'[s] = "idle" => at' = [at EXCEPT ![s] = "sent"]
                /\ \E r \in {"timeout", "busy"} : reply' = [reply EXCEPT ![s] = r]
          /\ pc'[s] = "parked" => at' = at /\ reply' = reply
      BY <1>2, AskStep DEF AskCamera, Move
    <2>2. cancelStep' \in [Session -> [Canceller -> {"no", "called", "lock", "closing"}]]
      <3>1. ASSUME NEW t \in Session, cancelStep' = [cancelStep EXCEPT ![t]["login"] = "called"]
            PROVE  cancelStep' \in [Session -> [Canceller -> {"no", "called", "lock", "closing"}]]
        BY <3>1, CancelAtType DEF Canceller, CancelAt, Held
      <3> QED
        BY <1>2, <3>1 DEF AskCamera, CancelHolder, Held, Types, Session
    <2>3. Types'
      <3> DEFINE Answered == at' \in [Session -> Handler] /\ reply' \in [Session -> Reply]
      <3>1. pc'[s] = "parked" => Answered
        BY <2>1 DEF Held, Types
      <3>2. pc'[s] = "holding" => Answered
        BY <2>1 DEF Held, Types, Handler
      <3>3. ASSUME pc'[s] = "idle" PROVE Answered
        <4>1. PICK r \in {"timeout", "busy"} : reply' = [reply EXCEPT ![s] = r]
          BY <2>1, <3>3
        <4>2. r \in Reply
          BY DEF Reply
        <4>3. reply' \in [Session -> Reply]
          BY <4>1, <4>2 DEF Held, Types
        <4>4. at' \in [Session -> Handler]
          BY <2>1, <3>3 DEF Held, Types, Handler
        <4> QED
          BY <4>3, <4>4
      <3>4. Answered
        BY <3>1, <3>2, <3>3, <1>2, AskStep
      <3> QED
        BY <2>1, <2>2, <3>4, <1>2, AskStep DEF Held, Types
    <2>4. HolderIsOne'
      BY <1>2, AskStep, KindAssumption DEF Held
    <2>5. RunsAsHolder'
      BY <2>1, <1>2, AskStep DEF Held, Types
    <2> QED
      BY <2>3, <2>4, <2>5 DEF Held
  <1>3. ASSUME NEW s \in Session, GiveBack(s) PROVE Held'
    <2>1. stage[s] = "ended" /\ UNCHANGED <<at, stage, outcome, reply, cancelStep>> /\ watching' \subseteq watching
      BY <1>3 DEF GiveBack, Retire
    <2>2. Types'
      BY <1>3, <2>1, GiveBackStep DEF Held, Types
    <2>3. HolderIsOne'
      BY <1>3, GiveBackStep, KindAssumption DEF Held
    <2>4. RunsAsHolder'
      BY <1>3, <2>1, GiveBackStep DEF Held
    <2> QED
      BY <2>2, <2>3, <2>4 DEF Held
  <1>4. ASSUME NEW s \in Session,
               \/ Request(s) \/ LockModels(s) \/ Start(s) \/ PoolStarts(s) \/ Running(s)
               \/ ClientCancels(s) \/ Cancelling(s) \/ ReturnModels(s) \/ Finish(s) \/ Deadline(s)
               \/ DeadlineAnswer(s) \/ Forget(s)
        PROVE  Held'
    <2>1. Types' /\ UNCHANGED monitor
      BY <1>4, StepTypes
    <2>2. HolderIsOne'
      BY <2>1 DEF Held, monitor
    <2>3. RunsAsHolder'
      <3> USE <2>1 DEF Held, Types, monitor
      <3>1. CASE Request(s) \/ LockModels(s) \/ ReturnModels(s)
        BY <3>1 DEF Request, LockModels, ReturnModels, Move
      <3>2. CASE Start(s) \/ PoolStarts(s)
        BY <3>2 DEF Start, PoolStarts, Step, End, Leave
      <3>3. CASE Running(s)
        <4>1. /\ stage[s] \notin {"none", "ended"} /\ at' = at
              /\ \E next \in Stage \ {"none"} : stage' = [stage EXCEPT ![s] = next]
          <5> USE DEF Stage
          <5>1. CASE Prepare(s) \/ Register(s) \/ FrameNotSent(s)
            BY <5>1 DEF Prepare, Register, FrameNotSent, Step, End, Leave
          <5>2. CASE ReadFails(s) \/ LoopEnds(s)
            BY <5>2 DEF ReadFails, LoopEnds, Leave
          <5>3. CASE Finally(s) \/ Captured(s) \/ Write(s)
            BY <5>3 DEF Finally, AfterFinally, Captured, Write, Step, End, Leave
          <5> QED
            BY <3>3, <5>1, <5>2, <5>3 DEF Running
        <4> QED
          BY <4>1
      <3>4. CASE ClientCancels(s) \/ Cancelling(s)
        BY <3>4, CancelStep DEF ClientCancels
      <3>5. CASE Finish(s)
        BY <3>5 DEF Finish, Move
      <3>6. CASE Deadline(s)
        BY <3>6 DEF Deadline, Move
      <3>7. CASE DeadlineAnswer(s)
        BY <3>7 DEF DeadlineAnswer, Move, End, Leave
      <3>8. CASE Forget(s)
        BY <3>8 DEF Forget, Move, Leave
      <3> QED
        BY <1>4, <3>1, <3>2, <3>3, <3>4, <3>5, <3>6, <3>7, <3>8
    <2> QED
      BY <2>1, <2>2, <2>3 DEF Held
  <1> QED
    BY <1>1, <1>2, <1>3, <1>4 DEF Next

--------------------------------------------------------------------------------
(* What the client was told *)

\* The lock of the model files, by where its enrollment stands.
LockHeld ==
  /\ modelsLock \in EnrollSession \union {NoSession}
  /\ ModelsLockSpansEnrollment

\* At the start nobody has the lock of the model files.
LEMMA InitLockHeld == Init => LockHeld
  <1>1. Arbiter!Session = Session
    BY DEF Arbiter!Session, Session
  <1> QED
    BY <1>1, KindAssumption DEF Init, Arbiter!Init, LockHeld, ModelsLockSpansEnrollment, Session, ManageSession

\* Every step keeps the lock with its enrollment.
LEMMA StepLockHeld == Held /\ LockHeld /\ [Next]_vars => LockHeld'
  <1> SUFFICES ASSUME Held, LockHeld, [Next]_vars PROVE LockHeld'
    OBVIOUS
  <1>0. EnrollSession \subseteq Session /\ NoSession \notin EnrollSession
    BY KindAssumption DEF Session, ManageSession
  <1> USE <1>0 DEF LockHeld, ModelsLockSpansEnrollment
  <1>1. CASE UNCHANGED vars
    BY <1>1 DEF vars, monitor
  <1>2. ASSUME NEW s \in Session, AskCamera(s) PROVE LockHeld'
    <2>1. /\ at[s] = "camera"
          /\ pc'[s] = "holding" => at' = [at EXCEPT ![s] = "session"] /\ modelsLock' = modelsLock
          /\ pc'[s] = "idle" => at' = [at EXCEPT ![s] = "sent"] /\ UnlockModels(s)
          /\ pc'[s] = "parked" => at' = at /\ modelsLock' = modelsLock
      BY <1>2, AskStep DEF AskCamera, Move
    <2>2. CASE pc'[s] = "idle"
      BY <2>1, <2>2, <1>2, AskStep DEF UnlockModels, Held, Types
    <2>3. CASE pc'[s] # "idle"
      BY <2>1, <2>3, <1>2, AskStep DEF Held, Types
    <2> QED
      BY <2>2, <2>3
  <1>3. ASSUME NEW s \in Session, GiveBack(s) PROVE LockHeld'
    <2>1. UNCHANGED <<at, modelsLock>>
      BY <1>3 DEF GiveBack
    <2> QED
      BY <1>3, <2>1, GiveBackStep
  <1>4. ASSUME NEW s \in Session, LockModels(s) \/ ReturnModels(s) PROVE LockHeld'
    <2>1. UNCHANGED monitor
      BY <1>4, StepTypes
    <2>2. CASE LockModels(s)
      BY <2>1, <2>2 DEF LockModels, Move, Held, Types, RunsAsHolder, monitor
    <2>3. CASE ReturnModels(s)
      BY <2>1, <2>3 DEF ReturnModels, Held, Types, monitor
    <2> QED
      BY <1>4, <2>2, <2>3
  <1>5. ASSUME NEW s \in Session,
               \/ Request(s) \/ Start(s) \/ PoolStarts(s) \/ Running(s) \/ ClientCancels(s)
               \/ Cancelling(s) \/ Finish(s) \/ Deadline(s) \/ DeadlineAnswer(s) \/ Forget(s)
        PROVE  LockHeld'
    <2>1. UNCHANGED monitor
      BY <1>5, StepTypes
    <2>2. modelsLock' = modelsLock
      <3>1. CASE Request(s) \/ Start(s) \/ PoolStarts(s)
        BY <3>1 DEF Request, Start, PoolStarts
      <3>2. CASE Running(s)
        BY <3>2 DEF Running, Prepare, Register, FrameNotSent, ReadFails, LoopEnds, Finally, Captured, Write
      <3>3. CASE ClientCancels(s) \/ Cancelling(s)
        BY <3>3, CancelStep DEF ClientCancels, Held
      <3>4. CASE Finish(s) \/ Deadline(s) \/ DeadlineAnswer(s) \/ Forget(s)
        BY <3>4 DEF Finish, Deadline, DeadlineAnswer, Forget
      <3> QED
        BY <1>5, <3>1, <3>2, <3>3, <3>4
    <2>3. \A t \in EnrollSession :
            /\ at'[t] = "camera" <=> at[t] = "camera"
            /\ modelsLock = t /\ at[t] = "session" => at'[t] = "session"
      <3> USE DEF Held, Types
      <3>1. CASE Request(s)
        BY <3>1 DEF Request, Move
      <3>2. CASE Start(s) \/ PoolStarts(s) \/ Running(s)
        BY <3>2 DEF Start, PoolStarts, Running, Prepare, Register, FrameNotSent, ReadFails, LoopEnds,
                    Finally, Captured, Write
      <3>3. CASE ClientCancels(s) \/ Cancelling(s)
        BY <3>3, CancelStep DEF ClientCancels
      <3>4. CASE Finish(s) \/ Deadline(s) \/ DeadlineAnswer(s) \/ Forget(s)
        <4>1. Finish(s) \/ Deadline(s) => modelsLock # s
          BY KindAssumption DEF Finish, Deadline, ManageSession, Session
        <4> QED
          BY <3>4, <4>1 DEF Finish, Deadline, DeadlineAnswer, Forget, Move
      <3> QED
        BY <1>5, <3>1, <3>2, <3>3, <3>4
    <2> QED
      BY <2>1, <2>2, <2>3 DEF monitor
  <1> QED
    BY <1>1, <1>2, <1>3, <1>4, <1>5 DEF Next

\* For any number of sessions, the lock of the model files is with an enrollment
\* from before it asks for the camera until it gave it back, and with nobody whose
\* request is not under way.
THEOREM ModelsLockHeld == Spec => []ModelsLockSpansEnrollment
  <1>1. LockHeld => ModelsLockSpansEnrollment
    BY DEF LockHeld
  <1> QED
    BY <1>1, InitHeld, StepHeld, InitLockHeld, StepLockHeld, PTL DEF Spec

\* What the client was told. An answer comes when the session is over and, for a
\* management request, when nobody can preempt it any more.
Told ==
  /\ stored \subseteq EnrollSession
  /\ \A s \in Session :
       /\ at[s] # "sent" => reply[s] = "none"
       /\ at[s] \in {"idle", "models", "camera"} => pc[s] # "holding"
       /\ at[s] = "sent" /\ s \in ManageSession => stage[s] \in {"none", "ended"} /\ pc[s] # "holding"
       /\ stage[s] \in {"captured", "write"} => s \in EnrollSession
       /\ s \in stored => stage[s] = "ended" /\ outcome[s] = "success"
       /\ s \in stored => reply[s] \in {"none", "success", "internal_error"}
       /\ s \in ManageSession /\ reply[s] = "cancelled" => s \notin preempted

\* At the start nobody was told anything.
LEMMA InitTold == Init => Told
  <1>1. Arbiter!Session = Session
    BY DEF Arbiter!Session, Session
  <1> QED
    BY <1>1 DEF Init, Arbiter!Init, Told

\* Every step keeps what was told true.
LEMMA StepTold == Held /\ Told /\ [Next]_vars => Told'
  <1> SUFFICES ASSUME Held, Told, [Next]_vars PROVE Told'
    OBVIOUS
  <1>0. /\ EnrollSession \subseteq ManageSession /\ ManageSession \subseteq Session
        /\ AuthSession \intersect ManageSession = {}
    BY KindAssumption DEF Session, ManageSession
  <1> USE <1>0 DEF Told, Held, Types, RunsAsHolder
  <1>1. CASE UNCHANGED vars
    BY <1>1 DEF vars, monitor, cancelState
  <1>2. ASSUME NEW s \in Session, AskCamera(s) PROVE Told'
    <2>1. /\ at[s] = "camera" /\ stage[s] = "none" /\ UNCHANGED <<stage, outcome, stored>>
          /\ pc'[s] = "holding" => at' = [at EXCEPT ![s] = "session"] /\ reply' = reply
          /\ pc'[s] = "idle" => at' = [at EXCEPT ![s] = "sent"]
                /\ \E r \in {"timeout", "busy"} : reply' = [reply EXCEPT ![s] = r]
          /\ pc'[s] = "parked" => at' = at /\ reply' = reply
      BY <1>2, AskStep DEF AskCamera, Move
    <2>2. \A t \in Session : t \in preempted' \ preempted => pc[t] = "holding" /\ t # s
      <3>1. preempted' \subseteq preempted \union ({holder'} \intersect ManageSession)
        BY <1>2 DEF AskCamera, CancelHolder
      <3>2. preempted' # preempted => s \in AuthSession
        BY <1>2 DEF AskCamera, CancelHolder
      <3> QED
        BY <3>1, <3>2, <1>2, AskStep DEF HolderIsOne
    <2>3. \A t \in Session : at'[t] # "sent" => reply'[t] = "none"
      BY <2>1, <1>2, AskStep
    <2>4. \A t \in Session : t # s => at'[t] = at[t] /\ reply'[t] = reply[t]
      BY <2>1, <1>2, AskStep
    <2>5. at'[s] \in {"idle", "models", "camera", "sent"} => pc'[s] # "holding"
      BY <2>1, <1>2, AskStep
    <2>6. reply'[s] # "cancelled" /\ s \notin stored
      BY <2>1, <1>2, AskStep
    <2> QED
      BY <2>1, <2>2, <2>3, <2>4, <2>5, <2>6, <1>2, AskStep
  <1>3. ASSUME NEW s \in Session, GiveBack(s) PROVE Told'
    <2>1. UNCHANGED <<at, stage, outcome, reply, stored, preempted>>
      BY <1>3 DEF GiveBack, Retire
    <2> QED
      BY <1>3, <2>1, GiveBackStep
  <1>4. ASSUME NEW s \in Session, Finish(s) PROVE Told'
    <2>1. s \in ManageSession /\ Answer(s) = "cancelled" => s \notin preempted
      BY DEF Answer
    <2>2. s \in stored => Answer(s) = "success"
      BY DEF Answer
    <2> QED
      BY <1>4, <2>1, <2>2 DEF Finish, Move, monitor, cancelState
  <1>5. ASSUME NEW s \in Session, Running(s) PROVE Told'
    <2>1. UNCHANGED <<monitor, at, reply, preempted>>
      BY <1>5 DEF Running, Prepare, Register, FrameNotSent, ReadFails, LoopEnds, Finally, Captured,
                  Write, cancelState
    <2>2. CASE Write(s)
      BY <2>1, <2>2 DEF Write, End, Leave, monitor
    <2>3. CASE Finally(s) \/ Captured(s)
      BY <2>1, <2>3 DEF Finally, AfterFinally, Captured, Step, End, Leave, monitor
    <2>4. CASE Prepare(s) \/ Register(s)
      BY <2>1, <2>4 DEF Prepare, Register, Step, End, Leave, monitor
    <2>5. CASE FrameNotSent(s) \/ ReadFails(s) \/ LoopEnds(s)
      BY <2>1, <2>5 DEF FrameNotSent, ReadFails, LoopEnds, Leave, monitor
    <2> QED
      BY <1>5, <2>2, <2>3, <2>4, <2>5 DEF Running
  <1>6. ASSUME NEW s \in Session,
               \/ Request(s) \/ LockModels(s) \/ Start(s) \/ PoolStarts(s) \/ ClientCancels(s)
               \/ Cancelling(s) \/ ReturnModels(s) \/ Deadline(s) \/ DeadlineAnswer(s) \/ Forget(s)
        PROVE  Told'
    <2>1. CASE Request(s) \/ LockModels(s) \/ ReturnModels(s)
      BY <2>1 DEF Request, LockModels, ReturnModels, Move, monitor, cancelState
    <2>2. CASE Start(s) \/ PoolStarts(s)
      BY <2>2 DEF Start, PoolStarts, Step, End, Leave, monitor, cancelState
    <2>3. CASE ClientCancels(s) \/ Cancelling(s)
      BY <2>3, CancelStep DEF ClientCancels, monitor
    <2>4. CASE Deadline(s) \/ DeadlineAnswer(s) \/ Forget(s)
      BY <2>4 DEF Deadline, DeadlineAnswer, Forget, Move, End, Leave, monitor, cancelState
    <2> QED
      BY <1>6, <2>1, <2>2, <2>3, <2>4
  <1> QED
    BY <1>1, <1>2, <1>3, <1>4, <1>5, <1>6 DEF Next

\* For any number of sessions, a client is told what happened: nothing was written when the
\* answer is that the session was stopped, refused or failed, and "cancelled" means that no
\* login took the camera.
THEOREM AnswersAreTrue == Spec => []ToldWhatHappened
  <1>1. Held /\ Told => ToldNothingWritten
    BY DEF Told, ToldNothingWritten, Session, ManageSession
  <1>2. Told => CancelledMeansNotPreempted
    BY DEF Told, CancelledMeansNotPreempted, Session
  <1>3. Held /\ Told => ToldWhatHappened
    BY <1>1, <1>2 DEF ToldWhatHappened
  <1> QED
    BY <1>3, InitHeld, StepHeld, InitTold, StepTold, PTL DEF Spec

--------------------------------------------------------------------------------
(* Who touches the device *)

\* The calls of cancel() that come from outside the session: the watcher calls once
\* and only while the camera is held, a login's handler at its deadline.
CallsCounted ==
  \A s \in Session :
    /\ s \in watching => pc[s] = "holding" /\ stage[s] # "none" /\ cancelStep[s]["client"] = "no"
    /\ s \in ManageSession /\ stage[s] = "none" => cancelStep[s]["client"] = "no"
    /\ s \in AuthSession /\ cancelStep[s]["client"] # "no" => at[s] = "cancel"

\* The device is open only where the session has it, or while another thread that
\* marked the stream released is still closing it under _state_lock.
DeviceAccounted ==
  \A s \in Session :
    /\ s \in open => stage[s] \in {"opened", "loop", "finally"}
    /\ s \in stream => stage[s] \in {"loop", "finally"}
    /\ s \in released => pc[s] = "holding" /\ stage[s] \notin {"none", "queued", "run", "opened"}
    /\ s \in released /\ s \in open => ~StateLockFree(s)

Device == open \subseteq Session /\ CallsCounted /\ DeviceAccounted

\* At the start the device is closed.
LEMMA InitDevice == Init => Device
  BY DEF Init, Device, CallsCounted, DeviceAccounted, Session, Canceller

\* With numbers that parse, every step keeps the account of the device.
LEMMA StepDevice ==
  ASSUME ~MalformedConfig
  PROVE  Held /\ Device /\ [Next]_vars => Device'
  <1> SUFFICES ASSUME Held, Device, [Next]_vars PROVE Device'
    OBVIOUS
  <1>0. AuthSession \intersect ManageSession = {} /\ ManageSession \subseteq Session /\ AuthSession \subseteq Session
    BY KindAssumption DEF Session
  <1>00. "client" \in Canceller /\ "login" \in Canceller /\ \A c \in Canceller : c \in {"client", "login"}
    BY DEF Canceller
  <1> USE <1>0, <1>00 DEF Held, Types, RunsAsHolder, Device, CallsCounted, DeviceAccounted, StateLockFree
  <1>1. CASE UNCHANGED vars
    BY <1>1 DEF vars, monitor, streamState, cancelState
  <1>2. ASSUME NEW s \in Session, AskCamera(s) PROVE Device'
    <2>1. /\ at[s] = "camera" /\ stage[s] = "none"
          /\ UNCHANGED <<stage, stream, open, released, watching>>
          /\ \A t \in Session : t # s => at'[t] = at[t]
      BY <1>2, AskStep DEF AskCamera, Move, streamState
    <2>2. \A t \in Session : /\ cancelStep'[t]["client"] = cancelStep[t]["client"]
                             /\ cancelStep[t]["login"] = "closing" => cancelStep'[t]["login"] = "closing"
      <3>1. CASE UNCHANGED cancelStep
        BY <3>1
      <3>2. CASE holder' \in ManageSession /\ cancelStep' = [cancelStep EXCEPT ![holder']["login"] = "called"]
        <4>1. cancelStep[holder']["login"] = "no"
          BY <1>2, <3>2 DEF AskCamera, MonitorFree
        <4> QED
          BY <3>2, <4>1, CancelAtType DEF CancelAt
      <3> QED
        BY <1>2, <3>1, <3>2 DEF AskCamera, CancelHolder
    <2>3. \A t \in Session : pc[t] = "holding" => pc'[t] = "holding"
      BY <1>2, AskStep
    <2>4. CallsCounted'
      BY <2>1, <2>2, <2>3
    <2>5. DeviceAccounted'
      BY <2>1, <2>2, <2>3
    <2> QED
      BY <2>1, <2>4, <2>5
  <1>3. ASSUME NEW s \in Session, GiveBack(s) PROVE Device'
    <2>1. /\ stage[s] = "ended" /\ UNCHANGED <<at, stage, stream, open, cancelStep>>
          /\ released' = released \ {s} /\ watching' = watching \ {s}
      BY <1>3 DEF GiveBack, Retire
    <2>2. \A t \in Session : t # s => pc[t] # "holding"
      BY <1>3, GiveBackStep
    <2> QED
      BY <2>1, <2>2
  <1>4. ASSUME NEW s \in Session, Running(s) PROVE Device'
    <2>1. UNCHANGED <<monitor, at, cancelStep, watching>> /\ pc[s] = "holding" /\ pc' = pc
      BY <1>4 DEF Running, Prepare, Register, FrameNotSent, ReadFails, LoopEnds, Finally, Captured,
                  Write, cancelState, monitor
    <2>2. CASE Prepare(s)
      BY <2>1, <2>2 DEF Prepare, Step, End, Leave, streamState
    <2>3. CASE Register(s)
      <3>1. CallsCounted'
        BY <2>1, <2>3 DEF Register, Step, End, Leave
      <3>2. DeviceAccounted'
        BY <2>1, <2>3 DEF Register, Step, End, Leave
      <3> QED
        BY <2>1, <2>3, <3>1, <3>2 DEF Register
    <2>4. CASE FrameNotSent(s)
      BY <2>1, <2>4 DEF FrameNotSent
    <2>5. CASE ReadFails(s) \/ LoopEnds(s)
      <3>1. /\ UNCHANGED <<stream, open, released>> /\ stage[s] = "loop"
            /\ stage' = [stage EXCEPT ![s] = "finally"]
        BY <2>5 DEF ReadFails, LoopEnds, Leave, streamState
      <3>2. CallsCounted'
        BY <2>1, <3>1
      <3>3. DeviceAccounted'
        BY <2>1, <3>1
      <3> QED
        BY <3>1, <3>2, <3>3
    <2>6. CASE Finally(s)
      BY <2>1, <2>6 DEF Finally, AfterFinally, Step
    <2>7. CASE Captured(s) \/ Write(s)
      <3>1. /\ UNCHANGED <<stream, open, released>> /\ stage[s] \in {"captured", "write"}
            /\ \E next \in {"write", "ended"} : stage' = [stage EXCEPT ![s] = next]
        BY <2>7 DEF Captured, Write, Step, End, Leave, streamState
      <3>2. CallsCounted'
        BY <2>1, <3>1
      <3>3. DeviceAccounted'
        BY <2>1, <3>1
      <3> QED
        BY <2>1, <3>1, <3>2, <3>3
    <2> QED
      BY <1>4, <2>2, <2>3, <2>4, <2>5, <2>6, <2>7 DEF Running
  <1>5. ASSUME NEW s \in Session, NEW c \in Canceller, TakeStateLock(s, c) PROVE Device'
    <2>1. UNCHANGED <<monitor, at, stage, stream, open, watching>> /\ pc' = pc
      BY <1>5 DEF TakeStateLock, monitor
    <2>2. PICK step \in {"no", "closing"} : CancelAt(s, c, step) /\ (s \in released' \ released => step = "closing")
      BY <1>5 DEF TakeStateLock
    <2>3. \A d \in Canceller : d # c => cancelStep[s][d] # "closing"
      BY <1>5 DEF TakeStateLock
    <2>4. released' \ released \subseteq {s} /\ (released' # released => s \in stream)
      BY <1>5 DEF TakeStateLock
    <2>5. /\ cancelStep'[s][c] = step /\ cancelStep[s][c] = "lock"
          /\ \A d \in Canceller : d # c => cancelStep'[s][d] = cancelStep[s][d]
          /\ \A t \in Session : t # s => cancelStep'[t] = cancelStep[t]
      BY <1>5, <2>2, CancelAtType DEF TakeStateLock
    <2>6. CallsCounted'
      BY <2>1, <2>5
    <2>7. DeviceAccounted'
      <3>1. ASSUME NEW t \in Session, t \in released' PROVE pc'[t] = "holding" /\ stage'[t] \notin {"none", "queued", "run", "opened"}
        BY <3>1, <2>1, <2>4
      <3>2. ASSUME NEW t \in Session, t \in released', t \in open' PROVE ~StateLockFree(t)'
        <4>1. CASE t \in released
          BY <3>2, <4>1, <2>1, <2>3, <2>5
        <4>2. CASE t = s /\ t \notin released
          BY <3>2, <4>2, <2>2, <2>5
        <4> QED
          BY <3>2, <4>1, <4>2, <2>4
      <3>3. \A t \in Session : /\ t \in open' => stage'[t] \in {"opened", "loop", "finally"}
                               /\ t \in stream' => stage'[t] \in {"loop", "finally"}
        BY <2>1
      <3> QED
        BY <3>1, <3>2, <3>3
    <2> QED
      BY <2>1, <2>6, <2>7
  <1>6. ASSUME NEW s \in Session, NEW c \in Canceller, CloseDevice(s, c) PROVE Device'
    <2>1. UNCHANGED <<monitor, at, stage, stream, released, watching>> /\ pc' = pc /\ open' = open \ {s}
      BY <1>6 DEF CloseDevice, monitor
    <2>2. /\ cancelStep'[s][c] = "no"
          /\ \A d \in Canceller : d # c => cancelStep'[s][d] = cancelStep[s][d]
          /\ \A t \in Session : t # s => cancelStep'[t] = cancelStep[t]
      BY <1>6, CancelAtType DEF CloseDevice
    <2>3. CallsCounted'
      BY <2>1, <2>2
    <2>4. DeviceAccounted'
      BY <2>1, <2>2
    <2> QED
      BY <2>1, <2>3, <2>4
  <1>7. ASSUME NEW s \in Session, SetEvent(s) PROVE Device'
    <2>1. UNCHANGED <<monitor, at, stage, stream, open, released, watching>> /\ pc' = pc
      BY <1>7 DEF SetEvent, monitor, streamState
    <2>2. /\ cancelStep'[s]["client"] = cancelStep[s]["client"] /\ cancelStep[s]["login"] = "called"
          /\ \A t \in Session : t # s => cancelStep'[t] = cancelStep[t]
          /\ cancelStep'[s]["login"] # "closing"
      BY <1>7, CancelAtType DEF SetEvent
    <2>3. CallsCounted'
      BY <2>1, <2>2
    <2>4. DeviceAccounted'
      BY <2>1, <2>2
    <2> QED
      BY <2>1, <2>3, <2>4
  <1>8. ASSUME NEW s \in Session, ClientCancels(s) \/ Deadline(s) PROVE Device'
    <2>1. /\ UNCHANGED <<monitor, stage, stream, open, released>> /\ pc' = pc
          /\ cancelStep[s]["client"] = "no" /\ stage[s] # "none"
          /\ watching' \subseteq watching /\ s \notin watching'
      BY <1>8 DEF ClientCancels, Deadline, monitor, streamState
    <2>2. /\ cancelStep'[s]["login"] = cancelStep[s]["login"]
          /\ \A t \in Session : t # s => cancelStep'[t] = cancelStep[t]
      BY <1>8, CancelAtType DEF ClientCancels, Deadline
    <2>3. /\ s \in AuthSession => at'[s] = "cancel"
          /\ \A t \in Session : t # s => at'[t] = at[t]
      BY <1>8 DEF ClientCancels, Deadline, Move
    <2>4. CallsCounted'
      BY <2>1, <2>2, <2>3
    <2>5. DeviceAccounted'
      BY <2>1, <2>2
    <2> QED
      BY <2>1, <2>4, <2>5
  <1>9. ASSUME NEW s \in Session,
               \/ Request(s) \/ LockModels(s) \/ Start(s) \/ PoolStarts(s) \/ ReturnModels(s) \/ Finish(s)
               \/ DeadlineAnswer(s) \/ Forget(s)
        PROVE  Device'
    <2>1. UNCHANGED monitor /\ pc' = pc
      BY <1>9, StepTypes DEF monitor
    <2>2. CASE Request(s) \/ LockModels(s) \/ ReturnModels(s) \/ Finish(s)
      BY <2>1, <2>2 DEF Request, LockModels, ReturnModels, Finish, Move, streamState, cancelState
    <2>3. CASE Start(s) \/ PoolStarts(s)
      <3>1. UNCHANGED <<at, stream, open, released, cancelStep>>
        BY <2>3 DEF Start, PoolStarts, streamState, cancelState
      <3>2. stage[s] \in {"none", "queued"} /\ pc[s] = "holding"
        BY <2>3 DEF Start, PoolStarts
      <3>3. PICK next \in {"queued", "run", "ended"} : stage' = [stage EXCEPT ![s] = next]
        BY <2>3 DEF Start, PoolStarts, Step, End, Leave
      <3>4. /\ watching' \subseteq watching \union {s}
            /\ s \in watching' \ watching => s \in ManageSession /\ stage[s] = "none"
        BY <2>3 DEF Start, PoolStarts, cancelState, Session
      <3>5. CallsCounted'
        BY <2>1, <3>1, <3>2, <3>3, <3>4
      <3>6. DeviceAccounted'
        BY <2>1, <3>1, <3>2, <3>3
      <3> QED
        BY <3>1, <3>5, <3>6
    <2>4. CASE DeadlineAnswer(s)
      <3>1. /\ UNCHANGED <<stream, open, released, cancelStep, watching>>
            /\ cancelStep[s]["client"] = "no" /\ \A t \in Session : t # s => at'[t] = at[t]
        BY <2>4 DEF DeadlineAnswer, Move, streamState, cancelState
      <3>4. stage' = stage \/ (stage[s] = "queued" /\ stage' = [stage EXCEPT ![s] = "ended"])
        BY <2>4 DEF DeadlineAnswer, End, Leave
      <3>2. CallsCounted'
        BY <2>1, <3>1, <3>4
      <3>3. DeviceAccounted'
        BY <2>1, <3>1, <3>4
      <3> QED
        BY <3>1, <3>2, <3>3
    <2>5. CASE Forget(s)
      BY <2>1, <2>5 DEF Forget, Move, Leave
    <2> QED
      BY <1>9, <2>2, <2>3, <2>4, <2>5
  <1> QED
    BY <1>1, <1>2, <1>3, <1>4, <1>5, <1>6, <1>7, <1>8, <1>9 DEF Next, Cancelling

\* For any number of sessions, whoever has the device open holds the camera, as
\* long as the numbers of config.ini parse.
THEOREM DeviceExclusive ==
  ASSUME ~MalformedConfig
  PROVE  Spec => []DeviceHeldByHolder
  <1>1. Held /\ Device => DeviceHeldByHolder
    BY DEF Held, HolderIsOne, RunsAsHolder, Device, DeviceAccounted, DeviceHeldByHolder
  <1>2. Held /\ Device /\ [Next]_vars => Device'
    BY StepDevice
  <1> QED
    BY <1>1, <1>2, InitHeld, StepHeld, InitDevice, PTL DEF Spec

--------------------------------------------------------------------------------
(* What a failed read means *)

\* A management session that reads has its device, unless somebody set its event
\* before closing it. A thread is about to close only a stream that is known.
Reading ==
  \A s \in ManageSession :
    /\ stage[s] \in {"none", "queued", "run", "opened", "loop"} => outcome[s] = "none"
    /\ \A c \in Canceller :
         /\ cancelStep[s][c] \in {"lock", "closing"} => s \in event \/ stage[s] = "ended"
         /\ cancelStep[s][c] = "closing" => stage[s] \in {"loop", "finally"}
    /\ s \in stream => stage[s] \in {"loop", "finally"}
    /\ stage[s] = "opened" => s \in open
    /\ stage[s] = "loop" /\ s \notin event => s \in open

\* At the start nobody reads.
LEMMA InitReading == Init => Reading
  BY DEF Init, Reading, Session

\* Every step keeps the device open under a read that nobody cancelled.
LEMMA StepReading == Held /\ Reading /\ [Next]_vars => Reading'
  <1> SUFFICES ASSUME Held, Reading, [Next]_vars PROVE Reading'
    OBVIOUS
  <1>0. AuthSession \intersect ManageSession = {} /\ ManageSession \subseteq Session
    BY KindAssumption DEF Session
  <1>00. "client" \in Canceller /\ "login" \in Canceller
    BY DEF Canceller
  <1> USE <1>0, <1>00 DEF Held, Types, RunsAsHolder, Reading
  <1>1. CASE UNCHANGED vars
    BY <1>1 DEF vars, streamState, cancelState
  <1>2. ASSUME NEW s \in Session, AskCamera(s) PROVE Reading'
    <2>1. UNCHANGED <<stage, outcome, stream, open, event>>
      BY <1>2 DEF AskCamera, streamState
    <2>2. \A t \in Session, c \in Canceller : cancelStep'[t][c] \in {cancelStep[t][c], "called"}
      <3>1. CASE holder' \in ManageSession /\ cancelStep' = [cancelStep EXCEPT ![holder']["login"] = "called"]
        BY <3>1, CancelAtType DEF CancelAt
      <3> QED
        BY <1>2, <3>1 DEF AskCamera, CancelHolder
    <2> QED
      BY <2>1, <2>2
  <1>3. ASSUME NEW s \in Session, GiveBack(s) PROVE Reading'
    <2>1. stage[s] = "ended" /\ UNCHANGED <<stage, outcome, stream, open, cancelStep>> /\ event' = event \ {s}
      BY <1>3 DEF GiveBack, Retire
    <2> QED
      BY <2>1
  <1>4. ASSUME NEW s \in Session, Running(s) PROVE Reading'
    <2>1. cancelStep' = cancelStep /\ (~FrameNotSent(s) => event' = event)
      BY <1>4 DEF Running, Prepare, Register, FrameNotSent, ReadFails, LoopEnds, Finally, Captured,
                  Write, cancelState
    <2>2. CASE Prepare(s)
      BY <2>1, <2>2 DEF Prepare, FrameNotSent, Step, End, Leave, streamState
    <2>3. CASE Register(s)
      BY <2>1, <2>3 DEF Register, FrameNotSent, Step, End, Leave, StateLockFree
    <2>4. CASE FrameNotSent(s)
      BY <2>1, <2>4 DEF FrameNotSent
    <2>5. CASE ReadFails(s) \/ LoopEnds(s)
      BY <2>1, <2>5 DEF ReadFails, LoopEnds, Leave, streamState, cancelState
    <2>6. CASE Finally(s)
      BY <2>1, <2>6 DEF Finally, AfterFinally, Step, FrameNotSent, StateLockFree
    <2>7. CASE Captured(s) \/ Write(s)
      BY <2>1, <2>7 DEF Captured, Write, Step, End, Leave, streamState, cancelState
    <2> QED
      BY <1>4, <2>2, <2>3, <2>4, <2>5, <2>6, <2>7 DEF Running
  <1>5. ASSUME NEW s \in Session, Cancelling(s) PROVE Reading'
    <2>1. UNCHANGED <<stage, outcome, stream>>
      BY <1>5, CancelStep
    <2>2. CASE SetEvent(s)
      <3>1. open' = open /\ event' = event \union {s} /\ CancelAt(s, "login", "lock")
        BY <2>2 DEF SetEvent, streamState
      <3>2. /\ \A d \in Canceller : d # "login" => cancelStep'[s][d] = cancelStep[s][d]
            /\ cancelStep'[s]["login"] = "lock"
            /\ \A t \in Session : t # s => cancelStep'[t] = cancelStep[t]
        BY <3>1, CancelAtType
      <3> QED
        BY <2>1, <3>1, <3>2
    <2>3. ASSUME NEW c \in Canceller, TakeStateLock(s, c) PROVE Reading'
      <3>1. /\ UNCHANGED <<open, event>> /\ cancelStep[s][c] = "lock"
            /\ cancelStep'[s][c] \in {"no", "closing"} /\ (cancelStep'[s][c] = "closing" => s \in stream)
            /\ \A d \in Canceller : d # c => cancelStep'[s][d] = cancelStep[s][d]
            /\ \A t \in Session : t # s => cancelStep'[t] = cancelStep[t]
        BY <2>3, CancelAtType DEF TakeStateLock
      <3> QED
        BY <2>1, <3>1
    <2>4. ASSUME NEW c \in Canceller, CloseDevice(s, c) PROVE Reading'
      <3>1. /\ open' = open \ {s} /\ event' = event /\ cancelStep[s][c] = "closing" /\ cancelStep'[s][c] = "no"
            /\ \A d \in Canceller : d # c => cancelStep'[s][d] = cancelStep[s][d]
            /\ \A t \in Session : t # s => cancelStep'[t] = cancelStep[t]
        BY <2>4, CancelAtType DEF CloseDevice
      <3> QED
        BY <2>1, <3>1
    <2> QED
      BY <1>5, <2>2, <2>3, <2>4 DEF Cancelling
  <1>6. ASSUME NEW s \in Session, ClientCancels(s) \/ Deadline(s) PROVE Reading'
    <2>1. /\ UNCHANGED <<stage, outcome, stream, open>> /\ event' = event \union {s}
          /\ CancelAt(s, "client", "lock") /\ stage[s] # "ended"
      BY <1>6 DEF ClientCancels, Deadline, streamState
    <2>2. /\ cancelStep'[s]["client"] = "lock"
          /\ \A d \in Canceller : d # "client" => cancelStep'[s][d] = cancelStep[s][d]
          /\ \A t \in Session : t # s => cancelStep'[t] = cancelStep[t]
      BY <2>1, CancelAtType
    <2> QED
      BY <2>1, <2>2
  <1>7. ASSUME NEW s \in Session,
               \/ Request(s) \/ LockModels(s) \/ Start(s) \/ PoolStarts(s) \/ ReturnModels(s) \/ Finish(s)
               \/ DeadlineAnswer(s) \/ Forget(s)
        PROVE  Reading'
    <2>1. UNCHANGED <<event, cancelStep>>
      BY <1>7 DEF Request, LockModels, Start, PoolStarts, ReturnModels, Finish, DeadlineAnswer, Forget,
                  cancelState
    <2>2. CASE Request(s) \/ LockModels(s) \/ ReturnModels(s) \/ Finish(s)
      BY <2>1, <2>2 DEF Request, LockModels, ReturnModels, Finish, streamState
    <2>3. CASE Start(s) \/ PoolStarts(s)
      BY <2>1, <2>3 DEF Start, PoolStarts, Step, End, Leave, streamState
    <2>4. CASE DeadlineAnswer(s)
      BY <2>1, <2>4 DEF DeadlineAnswer, End, Leave, streamState
    <2>5. CASE Forget(s)
      BY <2>1, <2>5 DEF Forget, Leave
    <2> QED
      BY <1>7, <2>2, <2>3, <2>4, <2>5
  <1> QED
    BY <1>1, <1>2, <1>3, <1>4, <1>5, <1>6, <1>7 DEF Next

\* For any number of sessions, a cancelled management session never reports a broken
\* device.
THEOREM CancelIsNoDeviceError == Spec => NoFalseDeviceError
  <1> DEFINE Broken == \A s \in ManageSession :
                         stage[s] = "loop" /\ outcome'[s] = "invalid_device" => s \in open
  <1>1. Held /\ Reading /\ [Next]_vars => [Broken]_vars
    <2> SUFFICES ASSUME Held, Reading, Next, NEW t \in ManageSession,
                        stage[t] = "loop", outcome'[t] = "invalid_device"
                 PROVE  t \in open
      BY DEF vars
    <2> USE DEF Held, Types, Reading
    <2>1. outcome[t] = "none" /\ t \in Session
      BY DEF Session
    <2>2. PICK s \in Session :
            \/ Request(s) \/ LockModels(s) \/ AskCamera(s) \/ Start(s) \/ PoolStarts(s)
            \/ Running(s) \/ ClientCancels(s) \/ Cancelling(s)
            \/ GiveBack(s) \/ ReturnModels(s) \/ Finish(s) \/ Deadline(s) \/ DeadlineAnswer(s) \/ Forget(s)
      BY DEF Next
    <2>3. CASE Running(s)
      <3>1. CASE ReadFails(s)
        BY <2>1, <3>1 DEF ReadFails, Leave
      <3>2. CASE LoopEnds(s)
        BY <2>1, <3>2 DEF LoopEnds, Leave
      <3>3. CASE Prepare(s) \/ Register(s) \/ FrameNotSent(s) \/ Finally(s) \/ Captured(s) \/ Write(s)
        <4>1. outcome'[t] = outcome[t]
          BY <2>1, <3>3 DEF Prepare, Register, FrameNotSent, Finally, AfterFinally, Captured, Write,
                            Step, End, Leave
        <4> QED
          BY <2>1, <4>1
      <3> QED
        BY <2>3, <3>1, <3>2, <3>3 DEF Running
    <2>4. CASE Start(s) \/ DeadlineAnswer(s) \/ Forget(s)
      <3>1. outcome'[t] = outcome[t] \/ outcome'[t] # "invalid_device"
        BY <2>1, <2>4 DEF Start, DeadlineAnswer, Forget, Step, End, Leave
      <3> QED
        BY <2>1, <3>1
    <2>5. CASE \/ Request(s) \/ LockModels(s) \/ AskCamera(s) \/ PoolStarts(s) \/ ClientCancels(s)
               \/ Cancelling(s) \/ GiveBack(s) \/ ReturnModels(s) \/ Finish(s) \/ Deadline(s)
      <3>1. outcome' = outcome
        BY <2>5, CancelStep DEF Request, LockModels, AskCamera, PoolStarts, Step, ClientCancels,
                                GiveBack, ReturnModels, Finish, Deadline
      <3> QED
        BY <2>1, <3>1
    <2> QED
      BY <2>2, <2>3, <2>4, <2>5
  <1> QED
    BY <1>1, InitHeld, StepHeld, InitReading, StepReading, PTL DEF Spec, NoFalseDeviceError

--------------------------------------------------------------------------------
(* The monitor inside the daemon *)

\* The monitor with what is proved about it alone.
Proved == INSTANCE CameraArbiterProofs

\* It is the monitor that the sessions of this module use, definition for definition.
LEMMA SameMonitor ==
  /\ Arbiter!Init <=> Proved!Init
  /\ Arbiter!Next <=> Proved!Next
  /\ Arbiter!TypeOK <=> Proved!TypeOK
  /\ Arbiter!OneHolder <=> Proved!OneHolder
  /\ Arbiter!AuthWaitingExact <=> Proved!AuthWaitingExact
  /\ Arbiter!NoLostWakeup <=> Proved!NoLostWakeup
  /\ Arbiter!HolderToldToYield <=> Proved!HolderToldToYield
  <1> USE DEF Arbiter!Session, Proved!Session, Arbiter!Place, Proved!Place,
              Arbiter!Waiting, Proved!Waiting, Arbiter!CanTake, Proved!CanTake
  <1>1. Arbiter!NotifyAll = Proved!NotifyAll
    BY DEF Arbiter!NotifyAll, Proved!NotifyAll
  <1>2. \A s, place, counted : Arbiter!Leave(s, place, counted) <=> Proved!Leave(s, place, counted)
    BY <1>1 DEF Arbiter!Leave, Proved!Leave
  <1>3. \A s : Arbiter!Preempt(s) <=> Proved!Preempt(s)
    BY DEF Arbiter!Preempt, Proved!Preempt
  <1>4. \A s, counted : /\ Arbiter!Take(s, counted) <=> Proved!Take(s, counted)
                        /\ Arbiter!GiveUp(s, counted) <=> Proved!GiveUp(s, counted)
                        /\ Arbiter!Park(s, counted) <=> Proved!Park(s, counted)
    BY <1>2, <1>3 DEF Arbiter!Take, Proved!Take, Arbiter!GiveUp, Proved!GiveUp, Arbiter!Park, Proved!Park
  <1>5. \A s : /\ Arbiter!Acquire(s) <=> Proved!Acquire(s)
               /\ Arbiter!Resume(s) <=> Proved!Resume(s)
               /\ Arbiter!TimeOut(s) <=> Proved!TimeOut(s)
    BY <1>4 DEF Arbiter!Acquire, Proved!Acquire, Arbiter!Resume, Proved!Resume, Arbiter!TimeOut, Proved!TimeOut
  <1>6. \A s : Arbiter!Release(s) <=> Proved!Release(s)
    BY <1>1 DEF Arbiter!Release, Proved!Release
  <1>7. Arbiter!Next <=> Proved!Next
    BY <1>5, <1>6 DEF Arbiter!Next, Proved!Next
  <1>8. /\ Arbiter!Init <=> Proved!Init
        /\ Arbiter!TypeOK <=> Proved!TypeOK
    BY DEF Arbiter!Init, Proved!Init, Arbiter!TypeOK, Proved!TypeOK
  <1>9. /\ Arbiter!OneHolder <=> Proved!OneHolder
        /\ Arbiter!NoLostWakeup <=> Proved!NoLostWakeup
        /\ Arbiter!HolderToldToYield <=> Proved!HolderToldToYield
    BY DEF Arbiter!OneHolder, Proved!OneHolder, Arbiter!NoLostWakeup, Proved!NoLostWakeup,
           Arbiter!HolderToldToYield, Proved!HolderToldToYield
  <1>10. Arbiter!AuthWaitingExact <=> Proved!AuthWaitingExact
    <2>1. \A S : Arbiter!Cardinality(S) = Proved!Cardinality(S)
      BY DEF Arbiter!Cardinality, Proved!Cardinality, Arbiter!IsFiniteSet, Proved!IsFiniteSet
    <2> QED
      BY <2>1 DEF Arbiter!AuthWaitingExact, Proved!AuthWaitingExact
  <1> QED
    BY <1>7, <1>8, <1>9, <1>10

\* Its assumption is met by the logins and the management sessions.
LEMMA MonitorAssumption == Proved!SessionAssumption
  <1>1. IsFiniteSet(AuthSession) => Proved!IsFiniteSet(AuthSession)
    BY DEF IsFiniteSet, Proved!IsFiniteSet
  <1> QED
    BY <1>1, FiniteAssumption, KindAssumption DEF Proved!SessionAssumption, Proved!Session, Session

\* A step of the daemon is a step of the monitor or leaves it alone: the handlers call it
\* as it expects to be called, and nobody else touches what it keeps.
LEMMA StepMonitor == Held /\ [Next]_vars => [Arbiter!Next]_(Arbiter!vars)
  <1> SUFFICES ASSUME Held, [Next]_vars PROVE [Arbiter!Next]_(Arbiter!vars)
    OBVIOUS
  <1>0. Arbiter!Session = Session
    BY DEF Arbiter!Session, Session
  <1>1. CASE UNCHANGED vars
    BY <1>1 DEF vars, monitor, Arbiter!vars
  <1>2. ASSUME NEW s \in Session, AskCamera(s) \/ GiveBack(s) PROVE Arbiter!Next
    BY <1>0, <1>2 DEF AskCamera, GiveBack, Arbiter!Next
  <1>3. ASSUME NEW s \in Session,
               \/ Request(s) \/ LockModels(s) \/ Start(s) \/ PoolStarts(s) \/ Running(s)
               \/ ClientCancels(s) \/ Cancelling(s) \/ ReturnModels(s) \/ Finish(s) \/ Deadline(s)
               \/ DeadlineAnswer(s) \/ Forget(s)
        PROVE  UNCHANGED Arbiter!vars
    BY <1>3, StepTypes DEF monitor, Arbiter!vars
  <1> QED
    BY <1>1, <1>2, <1>3 DEF Next

\* The daemon with its sessions, cancels and watchers never uses the monitor in a way
\* that is not a behaviour of the monitor alone.
THEOREM MonitorComposed == Spec => Arbiter!Spec
  <1>1. Init => Arbiter!Init
    BY DEF Init
  <1> QED
    BY <1>1, InitHeld, StepHeld, StepMonitor, PTL DEF Spec, Arbiter!Spec

\* The same with the monitor that things are proved about.
LEMMA ProvedComposed == Spec => Proved!Spec
  <1>1. Init => Proved!Init
    BY SameMonitor DEF Init
  <1>2. Held /\ [Next]_vars => [Proved!Next]_(Proved!vars)
    BY StepMonitor, SameMonitor DEF Arbiter!vars, Proved!vars
  <1> QED
    BY <1>1, <1>2, InitHeld, StepHeld, PTL DEF Spec, Proved!Spec

\* What the monitor keeps true by itself.
MonitorSafety ==
  /\ Arbiter!TypeOK /\ Arbiter!OneHolder /\ Arbiter!AuthWaitingExact
  /\ Arbiter!NoLostWakeup /\ Arbiter!HolderToldToYield

\* So what is proved of the monitor alone holds in the daemon: one holder, logins that are
\* counted right, no sleeper that the camera is there for, and a management session that
\* was told to yield when a login waits for it.
THEOREM MonitorSafe == Spec => []MonitorSafety
  <1>1. Proved!Spec => []Proved!TypeOK
    BY MonitorAssumption, Proved!TypeCorrect
  <1>2. Proved!Spec => []Proved!OneHolder
    BY MonitorAssumption, Proved!MutualExclusion
  <1>3. Proved!Spec => []Proved!AuthWaitingExact
    BY MonitorAssumption, Proved!CounterCorrect
  <1>4. Proved!Spec => []Proved!NoLostWakeup
    BY MonitorAssumption, Proved!NoWakeupIsLost
  <1>5. Proved!Spec => []Proved!HolderToldToYield
    BY MonitorAssumption, Proved!LoginsPreempt
  <1>6. Proved!TypeOK /\ Proved!OneHolder /\ Proved!AuthWaitingExact /\ Proved!NoLostWakeup
          /\ Proved!HolderToldToYield => MonitorSafety
    BY SameMonitor DEF MonitorSafety
  <1> QED
    BY <1>1, <1>2, <1>3, <1>4, <1>5, <1>6, ProvedComposed, PTL

\* The contract of the monitor is stated the same way in both.
LEMMA SameContract ==
  /\ Arbiter!Ownership!Init <=> Proved!Ownership!Init
  /\ [Arbiter!Ownership!Next]_(Arbiter!Ownership!vars) <=> [Proved!Ownership!Next]_(Proved!Ownership!vars)
  <1>1. {s \in Arbiter!Session : Arbiter!Waiting(s)} = {s \in Proved!Session : Proved!Waiting(s)}
    BY DEF Arbiter!Session, Proved!Session, Arbiter!Waiting, Proved!Waiting
  <1>2. {s \in Arbiter!Session : Arbiter!Waiting(s)}' = {s \in Proved!Session : Proved!Waiting(s)}'
    BY DEF Arbiter!Session, Proved!Session, Arbiter!Waiting, Proved!Waiting
  <1>3. Arbiter!Ownership!Session = Proved!Ownership!Session
    BY DEF Arbiter!Ownership!Session, Proved!Ownership!Session
  <1>4. \A s : /\ Arbiter!Ownership!Ask(s) <=> Proved!Ownership!Ask(s)
               /\ Arbiter!Ownership!Grant(s) <=> Proved!Ownership!Grant(s)
               /\ Arbiter!Ownership!Refuse(s) <=> Proved!Ownership!Refuse(s)
               /\ Arbiter!Ownership!GiveBack(s) <=> Proved!Ownership!GiveBack(s)
    BY <1>1, <1>2 DEF Arbiter!Ownership!Ask, Proved!Ownership!Ask, Arbiter!Ownership!Grant,
       Proved!Ownership!Grant, Arbiter!Ownership!Refuse, Proved!Ownership!Refuse,
       Arbiter!Ownership!GiveBack, Proved!Ownership!GiveBack
  <1>5. Arbiter!Ownership!Next <=> Proved!Ownership!Next
    BY <1>3, <1>4 DEF Arbiter!Ownership!Next, Proved!Ownership!Next
  <1> QED
    BY <1>1, <1>2, <1>5 DEF Arbiter!Ownership!vars, Proved!Ownership!vars,
                            Arbiter!Ownership!Init, Proved!Ownership!Init

\* The whole daemon implements the contract of the camera: no management session is granted
\* it past a login that waits, no request is refused while the camera is there for it, and
\* only the owner gives it back, whatever the sessions and their watchers do.
THEOREM DaemonImplementsOwnership == Spec => Arbiter!ImplementsOwnership
  <1>1. Proved!Spec => Proved!ImplementsOwnership
    BY MonitorAssumption, Proved!RefinesOwnership
  <1> QED
    BY <1>1, ProvedComposed, SameContract, PTL
    DEF Arbiter!ImplementsOwnership, Proved!ImplementsOwnership, Arbiter!Ownership!Spec, Proved!Ownership!Spec

--------------------------------------------------------------------------------
(* The types of all of it *)

\* The sets of sessions that the threads keep.
Kept ==
  /\ stream \subseteq Session /\ open \subseteq Session
  /\ released \subseteq Session /\ event \subseteq Session
  /\ preempted \subseteq ManageSession

\* At the start they are empty.
LEMMA InitKept == Init => Kept
  BY DEF Init, Kept

\* Every step adds a session of its kind.
LEMMA StepKept == Held /\ Kept /\ [Next]_vars => Kept'
  <1> SUFFICES ASSUME Held, Kept, [Next]_vars PROVE Kept'
    OBVIOUS
  <1> USE DEF Kept, streamState, cancelState
  <1>1. CASE UNCHANGED vars
    BY <1>1 DEF vars
  <1>2. ASSUME NEW s \in Session, AskCamera(s) \/ GiveBack(s) PROVE Kept'
    <2>1. UNCHANGED <<stream, open>> /\ released' \subseteq released /\ event' \subseteq event
          /\ preempted' \subseteq preempted \union ({holder'} \intersect ManageSession)
      BY <1>2 DEF AskCamera, CancelHolder, GiveBack, Retire
    <2> QED
      BY <2>1
  <1>3. ASSUME NEW s \in Session, Running(s) PROVE Kept'
    <2>1. CASE Prepare(s) \/ Register(s) \/ FrameNotSent(s)
      BY <2>1 DEF Prepare, Register, FrameNotSent
    <2>2. CASE ReadFails(s) \/ LoopEnds(s) \/ Finally(s) \/ Captured(s) \/ Write(s)
      BY <2>2 DEF ReadFails, LoopEnds, Finally, Captured, Write
    <2> QED
      BY <1>3, <2>1, <2>2 DEF Running
  <1>4. ASSUME NEW s \in Session, Cancelling(s) \/ ClientCancels(s) \/ Deadline(s) PROVE Kept'
    BY <1>4 DEF Cancelling, SetEvent, TakeStateLock, CloseDevice, ClientCancels, Deadline
  <1>5. ASSUME NEW s \in Session,
               \/ Request(s) \/ LockModels(s) \/ Start(s) \/ PoolStarts(s) \/ ReturnModels(s) \/ Finish(s)
               \/ DeadlineAnswer(s) \/ Forget(s)
        PROVE  Kept'
    BY <1>5 DEF Request, LockModels, Start, PoolStarts, ReturnModels, Finish, DeadlineAnswer, Forget
  <1> QED
    BY <1>1, <1>2, <1>3, <1>4, <1>5 DEF Next

\* For any number of sessions, the state of the daemon is of its type, that of the monitor
\* with it.
THEOREM TypeCorrect == Spec => []TypeOK
  <1>1. Held /\ LockHeld /\ Told /\ Kept /\ MonitorSafety => TypeOK
    BY DEF Held, Types, LockHeld, Told, Kept, MonitorSafety, TypeOK
  <1> QED
    BY <1>1, InitHeld, StepHeld, InitLockHeld, StepLockHeld, InitTold, StepTold,
       InitKept, StepKept, MonitorSafe, PTL DEF Spec
--------------------------------------------------------------------------------
(* The promise to the clients *)

\* A session that ended, or is about to, has an outcome.
EndHasOutcome == \A s \in Session : stage[s] \in {"finally", "ended"} => outcome[s] # "none"

\* The steps of a session that get it, and those that do not touch it.
LEMMA StepOutcome == Held /\ EndHasOutcome /\ [Next]_vars => EndHasOutcome'
  <1> SUFFICES ASSUME Held, EndHasOutcome, [Next]_vars PROVE EndHasOutcome'
    OBVIOUS
  <1>0. stage \in [Session -> Stage] /\ outcome \in [Session -> Outcome]
    BY DEF Held, Types
  <1>1. CASE UNCHANGED <<stage, outcome>>
    BY <1>1 DEF EndHasOutcome
  <1>2. ASSUME NEW s \in Session, NEW next, Step(s, next),
               next \notin {"finally", "ended"} \/ stage[s] = "finally"
        PROVE  EndHasOutcome'
    BY <1>0, <1>2 DEF EndHasOutcome, Step
  <1>3. ASSUME NEW s \in Session, NEW next, NEW result, Leave(s, next, result),
               next = "none" \/ result # "none"
        PROVE  EndHasOutcome'
    BY <1>0, <1>3 DEF EndHasOutcome, Leave
  <1>4. ASSUME NEW s \in Session, Running(s) PROVE EndHasOutcome'
    <2>1. CASE Prepare(s)
      BY <1>2, <1>3, <2>1 DEF Prepare, End
    <2>2. CASE Register(s)
      BY <1>2, <1>3, <2>2 DEF Register, End
    <2>3. CASE FrameNotSent(s)
      BY <1>1, <2>3 DEF FrameNotSent
    <2>4. CASE ReadFails(s)
      BY <1>3, <2>4 DEF ReadFails
    <2>5. CASE LoopEnds(s)
      BY <1>3, <2>5 DEF LoopEnds
    <2>6. CASE Finally(s)
      BY <1>2, <2>6 DEF Finally, AfterFinally
    <2>7. CASE Captured(s)
      BY <1>2, <1>3, <2>7 DEF Captured, End
    <2>8. CASE Write(s)
      BY <1>3, <2>8 DEF Write, End
    <2> QED
      BY <1>4, <2>1, <2>2, <2>3, <2>4, <2>5, <2>6, <2>7, <2>8 DEF Running
  <1>5. ASSUME NEW s \in Session, Start(s) \/ PoolStarts(s) PROVE EndHasOutcome'
    BY <1>2, <1>3, <1>5 DEF Start, PoolStarts, End
  <1>6. ASSUME NEW s \in Session, DeadlineAnswer(s) PROVE EndHasOutcome'
    BY <1>1, <1>3, <1>6 DEF DeadlineAnswer, End
  <1>7. ASSUME NEW s \in Session, Forget(s) PROVE EndHasOutcome'
    BY <1>3, <1>7 DEF Forget
  <1>8. ASSUME NEW s \in Session,
               \/ Request(s) \/ LockModels(s) \/ AskCamera(s) \/ GiveBack(s) \/ ReturnModels(s)
               \/ Finish(s) \/ ClientCancels(s) \/ Cancelling(s) \/ Deadline(s)
        PROVE  EndHasOutcome'
    <2>1. Held => Types
      BY DEF Held
    <2>2. UNCHANGED <<stage, outcome>>
      BY <1>8, <2>1, CancelStep
      DEF Request, LockModels, AskCamera, GiveBack, ReturnModels, Finish, ClientCancels, Deadline
    <2> QED
      BY <1>1, <2>2
  <1>9. CASE UNCHANGED vars
    BY <1>1, <1>9 DEF vars
  <1> QED
    BY <1>4, <1>5, <1>6, <1>7, <1>8, <1>9 DEF Next

\* A session that is told to stop was started.
StoppedWasStarted == \A s \in Session : at[s] = "cancel" => stage[s] # "none"

\* Only Deadline comes to a handler's cancel, and a request is forgotten after its answer.
LEMMA StepStopped == Held /\ StoppedWasStarted /\ [Next]_vars => StoppedWasStarted'
  <1> SUFFICES ASSUME Held, StoppedWasStarted, [Next]_vars PROVE StoppedWasStarted'
    OBVIOUS
  <1> USE DEF StoppedWasStarted, Held, Types
  <1>1. CASE UNCHANGED vars
    BY <1>1 DEF vars
  <1>2. ASSUME NEW s \in Session, Running(s) \/ PoolStarts(s) \/ Start(s) PROVE StoppedWasStarted'
    <2>1. at' = at /\ \A t \in Session : stage[t] # "none" => stage'[t] # "none"
      <3> USE DEF Step, End, Leave
      <3>1. CASE Start(s) \/ PoolStarts(s)
        BY <3>1 DEF Start, PoolStarts
      <3>2. CASE Prepare(s) \/ Register(s) \/ FrameNotSent(s)
        BY <3>2 DEF Prepare, Register, FrameNotSent
      <3>3. CASE ReadFails(s) \/ LoopEnds(s)
        BY <3>3 DEF ReadFails, LoopEnds
      <3>4. CASE Finally(s) \/ Captured(s) \/ Write(s)
        BY <3>4 DEF Finally, AfterFinally, Captured, Write
      <3> QED
        BY <1>2, <3>1, <3>2, <3>3, <3>4 DEF Running
    <2> QED
      BY <2>1
  <1>3. ASSUME NEW s \in Session, ClientCancels(s) \/ Cancelling(s) \/ GiveBack(s)
        PROVE  StoppedWasStarted'
    BY <1>3, CancelStep DEF ClientCancels, GiveBack
  <1>4. ASSUME NEW s \in Session, Request(s) \/ LockModels(s) \/ ReturnModels(s) \/ Finish(s)
        PROVE  StoppedWasStarted'
    BY <1>4 DEF Request, LockModels, ReturnModels, Finish, Move
  <1>5. ASSUME NEW s \in Session, AskCamera(s) PROVE StoppedWasStarted'
    <2>1. pc'[s] \in {"idle", "parked", "holding"}
      BY <1>5, AskStep
    <2> QED
      BY <1>5, <2>1 DEF AskCamera, Move
  <1>6. ASSUME NEW s \in Session, Deadline(s) \/ DeadlineAnswer(s) \/ Forget(s)
        PROVE  StoppedWasStarted'
    BY <1>6 DEF Deadline, DeadlineAnswer, Forget, Move, End, Leave
  <1> QED
    BY <1>1, <1>2, <1>3, <1>4, <1>5, <1>6 DEF Next

\* What a step that concerns one request does to the contract's variables.
LEMMA OneRequest ==
  ASSUME NEW s \in Session,
         \A t \in Session : t # s => at'[t] = at[t] /\ stage'[t] = stage[t] /\ outcome'[t] = outcome[t]
  PROVE  /\ [t \in Session |-> Phase(t)]' = [[t \in Session |-> Phase(t)] EXCEPT ![s] = Phase(s)']
         /\ [t \in Session |-> EndOf(t)]' = [[t \in Session |-> EndOf(t)] EXCEPT ![s] = EndOf(s)']
  <1>1. \A t \in Session : t # s => Phase(t)' = Phase(t)
    BY DEF Phase
  <1>2. \A t \in Session : t # s => EndOf(t)' = EndOf(t)
    BY DEF EndOf
  <1> QED
    BY <1>1, <1>2

\* A step that only moves a session on before its end is not one of the contract.
LEMMA Unseen ==
  ASSUME UNCHANGED reply, \A t \in Session : Phase(t)' = Phase(t) /\ EndOf(t)' = EndOf(t)
  PROVE  UNCHANGED Promise!vars
  BY DEF Promise!vars

\* The session's thread: it goes on unseen, or it ends.
LEMMA RunningPromise ==
  ASSUME Held, Held', EndHasOutcome', NEW s \in Session,
         Running(s) \/ PoolStarts(s) \/ Start(s)
  PROVE  [Promise!Next]_(Promise!vars)
  <1>1. /\ UNCHANGED <<at, reply>>
        /\ stage[s] # "ended" /\ (stage[s] = "none" => at[s] = "session") /\ stage'[s] # "none"
        /\ \A t \in Session : t # s => stage'[t] = stage[t] /\ outcome'[t] = outcome[t]
    <2> USE DEF Held, Types, Step, End, Leave
    <2>1. CASE Start(s)
      BY <2>1 DEF Start
    <2>2. CASE PoolStarts(s)
      BY <2>2 DEF PoolStarts
    <2>3. CASE Prepare(s) \/ Register(s) \/ FrameNotSent(s)
      BY <2>3 DEF Prepare, Register, FrameNotSent
    <2>4. CASE ReadFails(s) \/ LoopEnds(s)
      BY <2>4 DEF ReadFails, LoopEnds
    <2>5. CASE Finally(s) \/ Captured(s) \/ Write(s)
      BY <2>5 DEF Finally, AfterFinally, Captured, Write
    <2> QED
      BY <2>1, <2>2, <2>3, <2>4, <2>5 DEF Running
  <1>2. Phase(s)' = Phase(s) /\ Phase(s) \in {"served", "stopped", "answered"}
    <2>1. at[s] \notin {"idle", "models", "camera"} /\ at'[s] = at[s]
      BY <1>1 DEF Held, RunsAsHolder
    <2>2. at[s] \in Handler
      BY DEF Held, Types
    <2>3. stage[s] = "none" => at[s] # "sent"
      BY <1>1
    <2> QED
      BY <1>1, <2>1, <2>2, <2>3 DEF Phase, Handler
  <1>3. \A t \in Session : t # s => Phase(t)' = Phase(t) /\ EndOf(t)' = EndOf(t)
    BY <1>1 DEF Phase, EndOf
  <1>4. EndOf(s) = "none"
    BY <1>1 DEF EndOf
  <1>5. CASE stage'[s] # "ended"
    <2>1. EndOf(s)' = "none"
      BY <1>5 DEF EndOf
    <2> QED
      BY <1>1, <1>2, <1>3, <1>4, <2>1, Unseen
  <1>6. CASE stage'[s] = "ended"
    <2>1. EndOf(s)' \in Outcome \ {"none"}
      BY <1>6 DEF EndOf, EndHasOutcome, Held, Types
    <2>2. /\ [t \in Session |-> Phase(t)]' = [t \in Session |-> Phase(t)]
          /\ [t \in Session |-> EndOf(t)]' = [[t \in Session |-> EndOf(t)] EXCEPT ![s] = EndOf(s)']
      BY <1>1, <1>2, <1>3, OneRequest
    <2>3. Promise!End(s)
      BY <1>1, <1>2, <1>4, <2>1, <2>2 DEF Promise!End, Promise!Ends
    <2> QED
      BY <2>3 DEF Promise!Next
  <1> QED
    BY <1>5, <1>6

\* A request is asked for, granted or refused.
LEMMA AskingPromise ==
  ASSUME Held, Held', NEW s \in Session, Request(s) \/ LockModels(s) \/ AskCamera(s)
  PROVE  [Promise!Next]_(Promise!vars)
  <1>1. /\ UNCHANGED <<stage, outcome>> /\ stage[s] = "none"
        /\ \A t \in Session : t # s => at'[t] = at[t]
        /\ \/ at[s] = "idle" /\ at'[s] \in {"models", "camera"} /\ UNCHANGED reply
           \/ /\ at[s] \in {"models", "camera"} /\ UNCHANGED reply
              /\ at'[s] \in {"models", "camera", "session"}
           \/ /\ at[s] \in {"models", "camera"} /\ at'[s] = "sent"
              /\ \E word \in {"busy", "timeout"} : reply' = [reply EXCEPT ![s] = word]
    <2>1. CASE Request(s)
      BY <2>1 DEF Request, Move, Held, Types, RunsAsHolder
    <2>2. CASE LockModels(s)
      BY <2>2 DEF LockModels, Move, Held, Types, RunsAsHolder
    <2>3. CASE AskCamera(s)
      <3>1. pc'[s] \in {"idle", "parked", "holding"}
        BY <2>3, AskStep
      <3>2. /\ at[s] = "camera" /\ stage[s] = "none" /\ UNCHANGED <<stage, outcome>>
            /\ pc'[s] = "holding" => at' = [at EXCEPT ![s] = "session"] /\ reply' = reply
            /\ pc'[s] = "idle" => at' = [at EXCEPT ![s] = "sent"]
                  /\ \E word \in {"timeout", "busy"} : reply' = [reply EXCEPT ![s] = word]
            /\ pc'[s] = "parked" => at' = at /\ reply' = reply
        BY <2>3 DEF AskCamera, Move
      <3> QED
        BY <3>1, <3>2 DEF Held, Types
    <2> QED
      BY <2>1, <2>2, <2>3
  <1>2. /\ [t \in Session |-> Phase(t)]' = [[t \in Session |-> Phase(t)] EXCEPT ![s] = Phase(s)']
        /\ [t \in Session |-> EndOf(t)]' = [t \in Session |-> EndOf(t)]
    <2>1. \A t \in Session : EndOf(t)' = EndOf(t)
      BY <1>1 DEF EndOf
    <2> QED
      BY <1>1, <2>1, OneRequest
  <1>3. CASE at[s] = "idle" /\ at'[s] \in {"models", "camera"} /\ UNCHANGED reply
    <2>1. Phase(s) = "away" /\ Phase(s)' = "asking"
      BY <1>3 DEF Phase
    <2>2. Promise!Ask(s)
      BY <1>2, <1>3, <2>1 DEF Promise!Ask, Promise!Move
    <2> QED
      BY <2>2 DEF Promise!Next
  <1>4. CASE /\ at[s] \in {"models", "camera"} /\ UNCHANGED reply
             /\ at'[s] = "session"
    <2>1. Phase(s) = "asking" /\ Phase(s)' = "served"
      BY <1>4 DEF Phase
    <2>2. Promise!Grant(s)
      BY <1>2, <1>4, <2>1 DEF Promise!Grant, Promise!Move
    <2> QED
      BY <2>2 DEF Promise!Next
  <1>5. CASE /\ at[s] \in {"models", "camera"} /\ UNCHANGED reply
             /\ at'[s] \in {"models", "camera"}
    <2>1. Phase(s)' = Phase(s) /\ \A t \in Session : t # s => Phase(t)' = Phase(t)
      BY <1>1, <1>5 DEF Phase
    <2>2. \A t \in Session : EndOf(t)' = EndOf(t)
      BY <1>1 DEF EndOf
    <2> QED
      BY <1>5, <2>1, <2>2, Unseen
  <1>6. CASE /\ at[s] \in {"models", "camera"} /\ at'[s] = "sent"
             /\ \E word \in {"busy", "timeout"} : reply' = [reply EXCEPT ![s] = word]
    <2>1. Phase(s) = "asking" /\ Phase(s)' = "refused"
      BY <1>1, <1>6 DEF Phase
    <2>2. Promise!Refuse(s)
      BY <1>2, <1>6, <2>1 DEF Promise!Refuse, Promise!Move, Promise!Told
    <2> QED
      BY <2>2 DEF Promise!Next
  <1> QED
    BY <1>1, <1>3, <1>4, <1>5, <1>6

\* A word for an outcome is one there is, also the one that takes the place of a result
\* that could not be sent.
LEMMA WordIsSaid ==
  ASSUME Kept, NEW s \in Session, outcome[s] \in Outcome \ {"none"}
  PROVE  /\ Answer(s) \in Words(s, outcome[s])
         /\ s \in ManageSession => "internal_error" \in Words(s, outcome[s])
  <1>1. s \in ManageSession => s \notin AuthSession
    BY KindAssumption
  <1>2. CASE outcome[s] = "error"
    BY <1>2 DEF Answer, Words
  <1>3. CASE outcome[s] = "cancelled"
    <2>1. CASE s \in AuthSession
      <3>1. s \notin preempted /\ s \notin ManageSession
        BY <1>1, <2>1 DEF Kept
      <3>2. Answer(s) = "timeout" /\ Words(s, outcome[s]) = {"timeout"}
        BY <1>3, <2>1, <3>1 DEF Answer, Words
      <3> QED
        BY <3>1, <3>2
    <2>2. CASE s \notin AuthSession
      <3>1. Words(s, outcome[s]) = {"cancelled", "preempted", "internal_error"}
        BY <1>3, <2>2 DEF Words
      <3>2. Answer(s) \in {"cancelled", "preempted"}
        BY <1>3, <2>2 DEF Answer
      <3> QED
        BY <3>1, <3>2
    <2> QED
      BY <2>1, <2>2
  <1>4. CASE outcome[s] \notin {"error", "cancelled"}
    <2>1. Answer(s) = outcome[s]
      BY <1>4 DEF Answer
    <2>2. Words(s, outcome[s]) = IF s \in AuthSession THEN {outcome[s]} ELSE {outcome[s], "internal_error"}
      BY <1>4 DEF Words
    <2> QED
      BY <1>1, <2>1, <2>2
  <1> QED
    BY <1>2, <1>3, <1>4

\* The handler answers, gives up and forgets.
LEMMA HandlerPromise ==
  ASSUME Held, Held', Kept, EndHasOutcome, StoppedWasStarted, NEW s \in Session,
         Finish(s) \/ Deadline(s) \/ DeadlineAnswer(s) \/ Forget(s)
  PROVE  [Promise!Next]_(Promise!vars)
  <1>0. /\ at \in [Session -> Handler] /\ stage \in [Session -> Stage]
        /\ outcome \in [Session -> Outcome] /\ reply \in [Session -> Reply]
    BY DEF Held, Types
  <1> DEFINE One ==
        /\ [t \in Session |-> Phase(t)]' = [[t \in Session |-> Phase(t)] EXCEPT ![s] = Phase(s)']
        /\ [t \in Session |-> EndOf(t)]' = [[t \in Session |-> EndOf(t)] EXCEPT ![s] = EndOf(s)']
      Still == [t \in Session |-> EndOf(t)]' = [t \in Session |-> EndOf(t)]
  <1>1. CASE Finish(s)
    <2>1. /\ at[s] = "session" /\ stage[s] = "ended" /\ UNCHANGED <<stage, outcome>>
          /\ at' = [at EXCEPT ![s] = "sent"]
      BY <1>1 DEF Finish, Move
    <2>2. One
      BY <1>0, <2>1, OneRequest
    <2>3. \A t \in Session : EndOf(t)' = EndOf(t)
      BY <2>1 DEF EndOf
    <2>4. Phase(s) = "served" /\ Phase(s)' = "answered"
      BY <1>0, <2>1 DEF Phase
    <2>5. EndOf(s) = outcome[s] /\ outcome[s] \in Outcome \ {"none"}
      BY <1>0, <2>1 DEF EndOf, EndHasOutcome
    <2>6. \E word \in Words(s, outcome[s]) : reply' = [reply EXCEPT ![s] = word]
      BY <1>1, <2>5, WordIsSaid DEF Finish
    <2>7. Promise!Tell(s)
      BY <2>2, <2>3, <2>4, <2>5, <2>6 DEF Promise!Tell, Promise!Move, Promise!Told
    <2> QED
      BY <2>7 DEF Promise!Next
  <1>2. CASE Deadline(s)
    <2>1. /\ at[s] = "session" /\ stage[s] # "ended" /\ UNCHANGED <<stage, outcome, reply>>
          /\ at' = [at EXCEPT ![s] = "cancel"]
      BY <1>2 DEF Deadline, Move
    <2>2. One
      BY <1>0, <2>1, OneRequest
    <2>3. \A t \in Session : EndOf(t)' = EndOf(t)
      BY <2>1 DEF EndOf
    <2>4. Phase(s) = "served" /\ Phase(s)' = "stopped" /\ EndOf(s) = "none"
      BY <1>0, <2>1 DEF Phase, EndOf
    <2>5. Promise!Stop(s)
      BY <2>1, <2>2, <2>3, <2>4 DEF Promise!Stop, Promise!Move
    <2> QED
      BY <2>5 DEF Promise!Next
  <1>3. CASE DeadlineAnswer(s)
    <2>1. /\ at[s] = "cancel" /\ at' = [at EXCEPT ![s] = "sent"]
          /\ reply' = [reply EXCEPT ![s] = "timeout"]
          /\ \/ UNCHANGED <<stage, outcome>>
             \/ /\ stage[s] = "queued" /\ stage' = [stage EXCEPT ![s] = "ended"]
                /\ outcome' = [outcome EXCEPT ![s] = "cancelled"]
      BY <1>3 DEF DeadlineAnswer, Move, End, Leave
    <2>2. One
      BY <1>0, <2>1, OneRequest
    <2>3. stage'[s] # "none"
      BY <1>0, <2>1 DEF StoppedWasStarted
    <2>4. Phase(s) = "stopped" /\ Phase(s)' = "answered"
      BY <1>0, <2>1, <2>3 DEF Phase
    <2>5. \/ \A t \in Session : EndOf(t)' = EndOf(t)
          \/ EndOf(s) = "none" /\ EndOf(s)' = "cancelled"
      BY <1>0, <2>1 DEF EndOf
    <2>6. Promise!GiveUp(s)
      BY <2>1, <2>2, <2>4, <2>5 DEF Promise!GiveUp, Promise!Move, Promise!Told, Promise!Ends, Outcome
    <2> QED
      BY <2>6 DEF Promise!Next
  <1>4. CASE Forget(s)
    <2>1. /\ at[s] = "sent" /\ stage[s] \in {"none", "ended"}
          /\ at' = [at EXCEPT ![s] = "idle"] /\ reply' = [reply EXCEPT ![s] = "none"]
          /\ stage' = [stage EXCEPT ![s] = "none"] /\ outcome' = [outcome EXCEPT ![s] = "none"]
      BY <1>4 DEF Forget, Move, Leave
    <2>2. One
      BY <1>0, <2>1, OneRequest
    <2>3. Phase(s)' = "away" /\ EndOf(s)' = "none"
      BY <1>0, <2>1 DEF Phase, EndOf
    <2>4. Phase(s) = "refused" \/ (Phase(s) = "answered" /\ EndOf(s) # "none")
      BY <1>0, <2>1 DEF Phase, EndOf, EndHasOutcome
    <2>5. Promise!Forget(s)
      BY <2>1, <2>2, <2>3, <2>4 DEF Promise!Forget, Promise!Told
    <2> QED
      BY <2>5 DEF Promise!Next
  <1> QED
    BY <1>1, <1>2, <1>3, <1>4

\* Every step of the daemon is one that the promise allows.
LEMMA StepPromise ==
  ASSUME Held, Held', Kept, EndHasOutcome, EndHasOutcome', StoppedWasStarted, [Next]_vars
  PROVE  [Promise!Next]_(Promise!vars)
  <1>1. ASSUME NEW s \in Session,
               GiveBack(s) \/ ReturnModels(s) \/ ClientCancels(s) \/ Cancelling(s)
        PROVE  UNCHANGED Promise!vars
    <2>1. UNCHANGED <<at, stage, outcome, reply>>
      BY <1>1, CancelStep DEF Held, GiveBack, ReturnModels, ClientCancels
    <2>2. \A t \in Session : Phase(t)' = Phase(t) /\ EndOf(t)' = EndOf(t)
      BY <2>1 DEF Phase, EndOf
    <2> QED
      BY <2>1, <2>2, Unseen
  <1>2. CASE UNCHANGED vars
    <2>1. UNCHANGED <<at, stage, outcome, reply>>
      BY <1>2 DEF vars
    <2>2. \A t \in Session : Phase(t)' = Phase(t) /\ EndOf(t)' = EndOf(t)
      BY <2>1 DEF Phase, EndOf
    <2> QED
      BY <2>1, <2>2, Unseen
  <1> QED
    BY <1>1, <1>2, RunningPromise, AskingPromise, HandlerPromise DEF Next

\* For any number of logins, enrollments and tests the daemon implements SessionAnswer: every
\* request is answered once, by the ending of its own session, by a refusal of one that never
\* runs, or by the time being over for one that was told to stop.
THEOREM SessionsKeepPromise == Spec => KeepsPromise
  <1>1. Init => Promise!Init /\ EndHasOutcome /\ StoppedWasStarted
    <2> SUFFICES ASSUME Init PROVE Promise!Init /\ EndHasOutcome /\ StoppedWasStarted
      OBVIOUS
    <2>1. \A s \in Session : Phase(s) = "away" /\ EndOf(s) = "none"
      BY DEF Init, Phase, EndOf
    <2> QED
      BY <2>1 DEF Init, Promise!Init, EndHasOutcome, StoppedWasStarted
  <1> QED
    BY <1>1, InitHeld, StepHeld, InitKept, StepKept, StepOutcome, StepStopped, StepPromise, PTL DEF Spec, KeepsPromise, Promise!Spec
================================================================================
