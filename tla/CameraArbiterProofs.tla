-------------------------- MODULE CameraArbiterProofs --------------------------
(***************************************************************************)
(* The safety properties of CameraArbiter for any number of logins and     *)
(* management sessions, and its refinement of CameraOwnership.             *)
(*                                                                         *)
(* None of the properties is inductive alone. That a management holder was *)
(* told to yield needs the counter to be exact (a login inside acquire()   *)
(* keeps management from becoming the holder), and a lost wakeup is        *)
(* excluded by the holder and the counter together. IInv is their          *)
(* conjunction.                                                            *)
(***************************************************************************)
EXTENDS CameraArbiter, FiniteSetTheorems, TLAPS

LoginsInside == {s \in AuthSession : Waiting(s)}

IInv ==
  /\ TypeOK
  /\ OneHolder
  /\ AuthWaitingExact
  /\ NoLostWakeup
  /\ HolderToldToYield

--------------------------------------------------------------------------------
(* The counter *)

LEMMA LoginsFinite == IsFiniteSet(LoginsInside)
BY FS_Subset, SessionAssumption DEF LoginsInside

\* Where a thread stands when it runs the loop of acquire(): it just called, or
\* it wakes up. Then counted is the counter with the caller in it.
InLoop(s, counted) ==
  \/ pc[s] = "idle" /\ counted = IF s \in AuthSession THEN authWaiting + 1 ELSE authWaiting
  \/ Waiting(s) /\ counted = authWaiting

\* counted is the number of logins inside acquire() with the caller among them.
LEMMA CountedExact ==
  ASSUME TypeOK, AuthWaitingExact, NEW s \in Session, NEW counted, InLoop(s, counted)
  PROVE  /\ counted \in Nat
         /\ s \in AuthSession => /\ counted = Cardinality(LoginsInside \union {s})
                                 /\ counted - 1 = Cardinality(LoginsInside \ {s})
                                 /\ counted - 1 \in Nat
         /\ s \notin AuthSession => counted = Cardinality(LoginsInside)
<1>1. Cardinality(LoginsInside) = authWaiting /\ authWaiting \in Nat
  BY DEF AuthWaitingExact, LoginsInside, TypeOK
<1>2. IsFiniteSet(LoginsInside)
  BY LoginsFinite
<1>3. /\ Cardinality(LoginsInside \union {s}) =
             IF s \in LoginsInside THEN authWaiting ELSE authWaiting + 1
      /\ Cardinality(LoginsInside \ {s}) =
             IF s \in LoginsInside THEN authWaiting - 1 ELSE authWaiting
      /\ Cardinality(LoginsInside \ {s}) \in Nat
  BY <1>1, <1>2, FS_AddElement, FS_RemoveElement, FS_CardinalityType
<1>4. CASE s \in AuthSession
  <2>1. s \in LoginsInside <=> Waiting(s)
    BY <1>4 DEF LoginsInside
  <2>2. pc[s] = "idle" => ~Waiting(s)
    BY DEF Waiting
  <2>. QED
    BY <1>1, <1>3, <1>4, <2>1, <2>2 DEF InLoop
<1>. QED
  BY <1>1, <1>4 DEF InLoop

\* A counter of zero means that no login is inside acquire(), and the reverse.
LEMMA CounterZero ==
  ASSUME AuthWaitingExact
  PROVE  authWaiting = 0 <=> \A s \in AuthSession : ~Waiting(s)
<1>1. authWaiting = 0 <=> LoginsInside = {}
  BY LoginsFinite, FS_EmptySet DEF AuthWaitingExact, LoginsInside
<1>. QED
  BY <1>1 DEF LoginsInside

--------------------------------------------------------------------------------
(* Each way to leave one pass of the loop of acquire() *)

LEMMA TakeKeepsIInv ==
  ASSUME IInv, NEW s \in Session, NEW counted, InLoop(s, counted), Take(s, counted)
  PROVE  IInv'
<1>1. /\ holder = NoSession /\ holder' = s /\ cancelled' = cancelled
      /\ s \in AuthSession \/ counted = 0
      /\ cancelled = {}
  BY SessionAssumption DEF Take, CanTake, IInv, TypeOK, Session
<1>2. /\ pc' \in [Session -> Place]
      /\ pc'[s] = "holding"
      /\ \A t \in Session \ {s} : /\ pc'[t] \in {pc[t], "notified"}
                                  /\ pc'[t] = "notified" => Waiting(t)
                                  /\ pc'[t] # pc[t] => pc[t] = "parked"
  BY DEF Take, Leave, NotifyAll, IInv, TypeOK, Place, Waiting
<1>3. {t \in AuthSession : Waiting(t)}' = LoginsInside \ {s}
  BY <1>2 DEF LoginsInside, Waiting, Session
<1>4. /\ authWaiting' = Cardinality(LoginsInside \ {s})
      /\ authWaiting' \in Nat
  <2>1. CASE s \in AuthSession
    BY <2>1, CountedExact DEF IInv, Take, Leave
  <2>2. CASE s \notin AuthSession
    <3>1. LoginsInside \ {s} = LoginsInside
      BY <2>2 DEF LoginsInside
    <3>. QED
      BY <2>2, <3>1, CountedExact DEF IInv, Take, Leave
  <2>. QED
    BY <2>1, <2>2
<1>5. TypeOK'
  BY <1>1, <1>2, <1>4 DEF TypeOK
<1>6. OneHolder'
  <2>1. \A t \in Session : pc[t] # "holding"
    BY <1>1, SessionAssumption DEF IInv, OneHolder
  <2>. QED
    BY <1>1, <1>2, <2>1 DEF OneHolder
<1>7. AuthWaitingExact'
  BY <1>3, <1>4 DEF AuthWaitingExact
<1>8. NoLostWakeup'
  BY <1>1, SessionAssumption DEF NoLostWakeup, CanTake
<1>9. HolderToldToYield'
  <2>1. SUFFICES ASSUME s \in ManageSession, NEW a \in AuthSession, Waiting(a)'
                 PROVE  FALSE
    BY <1>1 DEF HolderToldToYield
  <2>2. counted = 0 /\ LoginsInside \ {s} = LoginsInside /\ a # s /\ s \notin AuthSession
    BY <1>1, <2>1, SessionAssumption DEF LoginsInside
  <2>3. Cardinality(LoginsInside) = 0
    BY <2>2, CountedExact DEF IInv
  <2>4. LoginsInside = {}
    BY <2>3, LoginsFinite, FS_EmptySet
  <2>5. a \in LoginsInside \ {s}
    BY <1>3, <2>1
  <2>. QED
    BY <2>4, <2>5
<1>. QED
  BY <1>5, <1>6, <1>7, <1>8, <1>9 DEF IInv

LEMMA GiveUpKeepsIInv ==
  ASSUME IInv, NEW s \in Session, NEW counted, InLoop(s, counted), GiveUp(s, counted)
  PROVE  IInv'
<1>1. /\ holder' = holder
      /\ cancelled' = cancelled \union (IF s \in AuthSession THEN {holder} \cap ManageSession ELSE {})
      /\ ~CanTake(s, counted)
  BY DEF GiveUp, Preempt
<1>2. /\ pc' \in [Session -> Place]
      /\ pc'[s] = "idle"
      /\ pc[s] # "holding"
      /\ s \in AuthSession => pc' = [NotifyAll EXCEPT ![s] = "idle"]
      /\ s \notin AuthSession => pc' = [pc EXCEPT ![s] = "idle"]
  BY DEF GiveUp, Leave, NotifyAll, IInv, TypeOK, Place, InLoop, Waiting
<1>3. /\ \A t \in Session : t # s => (pc'[t] = "holding" <=> pc[t] = "holding")
      /\ \A t \in Session : t # s => (Waiting(t)' <=> Waiting(t))
  BY <1>2 DEF NotifyAll, Waiting, IInv, TypeOK
<1>4. {t \in AuthSession : Waiting(t)}' = LoginsInside \ {s}
  <2>1. ~Waiting(s)'
    BY <1>2 DEF Waiting
  <2>2. \A t \in AuthSession : t # s => (Waiting(t)' <=> Waiting(t))
    BY <1>3 DEF Session, Waiting
  <2>. QED
    BY <2>1, <2>2 DEF LoginsInside, Waiting
<1>5. /\ authWaiting' = Cardinality(LoginsInside \ {s})
      /\ authWaiting' \in Nat
      /\ s \notin AuthSession => authWaiting' = authWaiting
  <2>1. CASE s \in AuthSession
    BY <2>1, CountedExact DEF IInv, GiveUp, Leave
  <2>2. CASE s \notin AuthSession
    <3>1. LoginsInside \ {s} = LoginsInside
      BY <2>2 DEF LoginsInside
    <3>2. counted = authWaiting
      BY <2>2 DEF InLoop
    <3>. QED
      BY <2>2, <3>1, <3>2, CountedExact DEF IInv, GiveUp, Leave
  <2>. QED
    BY <2>1, <2>2
<1>6. TypeOK'
  <2>1. cancelled' \subseteq {holder'} \cap ManageSession
    BY <1>1 DEF TypeOK, IInv
  <2>2. holder' \in Session \union {NoSession}
    BY <1>1 DEF TypeOK, IInv
  <2>3. pc' \in [Session -> Place]
    BY <1>2
  <2>. QED
    BY <1>5, <2>1, <2>2, <2>3 DEF TypeOK
<1>7. OneHolder'
  BY <1>1, <1>2, <1>3 DEF OneHolder, IInv, Waiting
<1>8. AuthWaitingExact'
  BY <1>4, <1>5 DEF AuthWaitingExact
<1>9. NoLostWakeup'
  <2>1. CASE s \in AuthSession
    BY <1>2, <2>1 DEF NoLostWakeup, NotifyAll, IInv, TypeOK
  <2>2. CASE s \notin AuthSession
    BY <1>1, <1>2, <1>5, <2>2 DEF NoLostWakeup, CanTake, IInv, TypeOK
  <2>. QED
    BY <2>1, <2>2
<1>10. HolderToldToYield'
  BY <1>1, <1>2, <1>3 DEF HolderToldToYield, IInv, Waiting, Session
<1>. QED
  BY <1>6, <1>7, <1>8, <1>9, <1>10 DEF IInv

LEMMA ParkKeepsIInv ==
  ASSUME IInv, NEW s \in Session, NEW counted, InLoop(s, counted), Park(s, counted)
  PROVE  IInv'
<1>1. /\ holder' = holder
      /\ cancelled' = cancelled \union (IF s \in AuthSession THEN {holder} \cap ManageSession ELSE {})
      /\ ~CanTake(s, counted)
      /\ authWaiting' = counted
      /\ pc' = [pc EXCEPT ![s] = "parked"]
      /\ pc' \in [Session -> Place]
      /\ pc[s] # "holding"
  BY DEF Park, Preempt, IInv, TypeOK, Place, InLoop, Waiting
<1>2. {t \in AuthSession : Waiting(t)}' =
         IF s \in AuthSession THEN LoginsInside \union {s} ELSE LoginsInside
  BY <1>1 DEF LoginsInside, Waiting, Session, IInv, TypeOK
<1>3. /\ authWaiting' = Cardinality({t \in AuthSession : Waiting(t)}')
      /\ authWaiting' \in Nat
  BY <1>1, <1>2, CountedExact DEF IInv
<1>4. TypeOK'
  BY <1>1, <1>3 DEF TypeOK, IInv
<1>5. OneHolder'
  BY <1>1 DEF OneHolder, IInv, TypeOK
<1>6. AuthWaitingExact'
  BY <1>3 DEF AuthWaitingExact
<1>7. NoLostWakeup'
  <2>1. counted \in Nat /\ (counted = authWaiting \/ (s \in AuthSession /\ counted = authWaiting + 1))
    BY CountedExact DEF InLoop, IInv
  <2>2. authWaiting \in Nat
    BY DEF IInv, TypeOK
  <2>3. ASSUME NEW t \in Session, pc'[t] = "parked"
        PROVE  ~CanTake(t, authWaiting)'
    <3>1. CASE t = s
      BY <1>1, <3>1 DEF CanTake
    <3>2. CASE t # s
      <4>1. ~CanTake(t, authWaiting)
        BY <1>1, <2>3, <3>2 DEF NoLostWakeup, IInv, TypeOK
      <4>. QED
        BY <1>1, <2>1, <2>2, <4>1 DEF CanTake
    <3>. QED
      BY <3>1, <3>2
  <2>. QED
    BY <2>3 DEF NoLostWakeup
<1>8. HolderToldToYield'
  BY <1>1 DEF HolderToldToYield, IInv, Waiting, Session, TypeOK
<1>. QED
  BY <1>4, <1>5, <1>6, <1>7, <1>8 DEF IInv

LEMMA ReleaseKeepsIInv ==
  ASSUME IInv, NEW s \in Session, Release(s)
  PROVE  IInv'
<1>1. /\ holder = s /\ holder' = NoSession
      /\ pc[s] = "holding" /\ pc' = [NotifyAll EXCEPT ![s] = "idle"]
      /\ cancelled' = {} /\ authWaiting' = authWaiting
  BY DEF Release, IInv, OneHolder, TypeOK
<1>2. /\ pc' \in [Session -> Place]
      /\ \A t \in Session : pc'[t] # "parked" /\ (Waiting(t)' <=> Waiting(t))
      /\ \A t \in Session \ {s} : pc'[t] = "holding" <=> pc[t] = "holding"
      /\ pc'[s] = "idle"
  BY <1>1 DEF NotifyAll, Place, Waiting, IInv, TypeOK
<1>3. {t \in AuthSession : Waiting(t)}' = {t \in AuthSession : Waiting(t)}
  BY <1>2 DEF Session
<1>4. TypeOK'
  BY <1>1, <1>2 DEF TypeOK, IInv
<1>5. OneHolder'
  BY <1>1, <1>2, SessionAssumption DEF OneHolder, IInv
<1>6. AuthWaitingExact'
  BY <1>1, <1>3 DEF AuthWaitingExact, IInv
<1>7. NoLostWakeup'
  BY <1>2 DEF NoLostWakeup
<1>8. HolderToldToYield'
  BY <1>1, SessionAssumption DEF HolderToldToYield, Session
<1>. QED
  BY <1>4, <1>5, <1>6, <1>7, <1>8 DEF IInv

--------------------------------------------------------------------------------
(* The invariant *)

LEMMA InitIInv == Init => IInv
<1>. SUFFICES ASSUME Init PROVE IInv
  OBVIOUS
<1>1. \A s \in Session : pc[s] = "idle"
  BY DEF Init
<1>2. TypeOK /\ OneHolder /\ NoLostWakeup /\ HolderToldToYield
  BY <1>1, SessionAssumption
  DEF Init, TypeOK, Place, OneHolder, NoLostWakeup, HolderToldToYield, Session
<1>3. {s \in AuthSession : Waiting(s)} = {}
  BY <1>1 DEF Waiting, Session
<1>. QED
  BY <1>2, <1>3, FS_EmptySet DEF IInv, AuthWaitingExact, Init

LEMMA NextIInv == IInv /\ [Next]_vars => IInv'
<1>. SUFFICES ASSUME IInv, [Next]_vars PROVE IInv'
  OBVIOUS
<1>1. ASSUME NEW s \in Session, Acquire(s) PROVE IInv'
  <2>. DEFINE counted == IF s \in AuthSession THEN authWaiting + 1 ELSE authWaiting
  <2>1. InLoop(s, counted)
    BY <1>1 DEF Acquire, InLoop
  <2>2. Take(s, counted) \/ GiveUp(s, counted) \/ Park(s, counted)
    BY <1>1 DEF Acquire
  <2>. QED
    BY <2>1, <2>2, TakeKeepsIInv, GiveUpKeepsIInv, ParkKeepsIInv
<1>2. ASSUME NEW s \in Session, Resume(s) \/ TimeOut(s) PROVE IInv'
  <2>1. InLoop(s, authWaiting)
    BY <1>2 DEF Resume, TimeOut, InLoop, Waiting
  <2>2. Take(s, authWaiting) \/ GiveUp(s, authWaiting) \/ Park(s, authWaiting)
    BY <1>2 DEF Resume, TimeOut
  <2>. QED
    BY <2>1, <2>2, TakeKeepsIInv, GiveUpKeepsIInv, ParkKeepsIInv
<1>3. ASSUME NEW s \in Session, Release(s) PROVE IInv'
  BY <1>3, ReleaseKeepsIInv
<1>4. CASE UNCHANGED vars
  BY <1>4 DEF vars, IInv, TypeOK, OneHolder, AuthWaitingExact, NoLostWakeup,
              HolderToldToYield, CanTake, Waiting
<1>. QED
  BY <1>1, <1>2, <1>3, <1>4 DEF Next

\* The monitor's types hold for any number of sessions, and no session but a
\* management holder is ever cancelled by it.
THEOREM TypeCorrect == Spec => []TypeOK
<1>1. IInv => TypeOK
  BY DEF IInv
<1>. QED
  BY InitIInv, NextIInv, <1>1, PTL DEF Spec

\* At most one session has been told True by acquire() without having released.
THEOREM MutualExclusion == Spec => []OneHolder
<1>1. IInv => OneHolder
  BY DEF IInv
<1>. QED
  BY InitIInv, NextIInv, <1>1, PTL DEF Spec

\* _auth_waiting never drifts from the logins inside acquire().
THEOREM CounterCorrect == Spec => []AuthWaitingExact
<1>1. IInv => AuthWaitingExact
  BY DEF IInv
<1>. QED
  BY InitIInv, NextIInv, <1>1, PTL DEF Spec

\* Nobody sleeps in the condition while the camera is there for it to take.
THEOREM NoWakeupIsLost == Spec => []NoLostWakeup
<1>1. IInv => NoLostWakeup
  BY DEF IInv
<1>. QED
  BY InitIInv, NextIInv, <1>1, PTL DEF Spec

\* Whenever a login waits, a management holder has been cancelled.
THEOREM LoginsPreempt == Spec => []HolderToldToYield
<1>1. IInv => HolderToldToYield
  BY DEF IInv
<1>. QED
  BY InitIInv, NextIInv, <1>1, PTL DEF Spec

--------------------------------------------------------------------------------
(* The refinement of CameraOwnership *)

Queue == {s \in Session : Waiting(s)}

\* A management session that can not take a free camera sees a login inside.
LEMMA RefusedForReason ==
  ASSUME IInv, NEW s \in Session, NEW counted, InLoop(s, counted),
         ~CanTake(s, counted), holder = NoSession
  PROVE  s \in ManageSession /\ Queue \cap AuthSession # {}
<1>1. s \notin AuthSession /\ counted # 0
  BY DEF CanTake
<1>2. authWaiting # 0
  BY <1>1 DEF InLoop
<1>3. PICK a \in AuthSession : Waiting(a)
  BY <1>2, CounterZero DEF IInv
<1>. QED
  BY <1>1, <1>3 DEF Queue, Session

LEMMA TakeIsGrant ==
  ASSUME IInv, NEW s \in Session, NEW counted, InLoop(s, counted), Take(s, counted)
  PROVE  Ownership!Grant(s)
<1>1. /\ holder = NoSession /\ holder' = s /\ cancelled' = cancelled
      /\ s \in AuthSession \/ counted = 0
  BY DEF Take, CanTake
<1>2. s \in ManageSession => Queue \cap AuthSession = {}
  <2>1. SUFFICES ASSUME s \in ManageSession PROVE \A a \in AuthSession : ~Waiting(a)
    BY DEF Queue
  <2>2. s \notin AuthSession
    BY <2>1, SessionAssumption
  <2>3. counted = authWaiting
    BY <2>2 DEF InLoop
  <2>. QED
    BY <1>1, <2>2, <2>3, CounterZero DEF IInv
<1>3. {t \in Session : Waiting(t)}' = Queue \ {s}
  <2>1. ~Waiting(s)'
    BY DEF Take, Leave, NotifyAll, Waiting, IInv, TypeOK
  <2>2. \A t \in Session : t # s => (Waiting(t)' <=> Waiting(t))
    BY DEF Take, Leave, NotifyAll, Waiting, IInv, TypeOK
  <2>. QED
    BY <2>1, <2>2 DEF Queue, Waiting
<1>. QED
  BY <1>1, <1>2, <1>3 DEF Ownership!Grant, Queue

LEMMA GiveUpIsRefuse ==
  ASSUME IInv, NEW s \in Session, NEW counted, InLoop(s, counted), GiveUp(s, counted)
  PROVE  Ownership!Refuse(s)
<1>1. /\ holder' = holder
      /\ cancelled' = cancelled \union (IF s \in AuthSession THEN {holder} \cap ManageSession ELSE {})
      /\ ~CanTake(s, counted)
  BY DEF GiveUp, Preempt
<1>2. s # holder
  BY DEF InLoop, Waiting, IInv, OneHolder
<1>3. holder = NoSession => s \in ManageSession /\ Queue \cap AuthSession # {}
  BY <1>1, RefusedForReason
<1>4. {t \in Session : Waiting(t)}' = Queue \ {s}
  <2>1. ~Waiting(s)'
    BY DEF GiveUp, Leave, NotifyAll, Waiting, IInv, TypeOK
  <2>2. \A t \in Session : t # s => (Waiting(t)' <=> Waiting(t))
    BY DEF GiveUp, Leave, NotifyAll, Waiting, IInv, TypeOK
  <2>. QED
    BY <2>1, <2>2 DEF Queue, Waiting
<1>. QED
  BY <1>1, <1>2, <1>3, <1>4 DEF Ownership!Refuse, Queue

LEMMA ParkIsAskOrStutter ==
  ASSUME IInv, NEW s \in Session, NEW counted, InLoop(s, counted), Park(s, counted)
  PROVE  Ownership!Ask(s) \/ UNCHANGED Ownership!vars
<1>1. /\ holder' = holder
      /\ cancelled' = cancelled \union (IF s \in AuthSession THEN {holder} \cap ManageSession ELSE {})
      /\ ~CanTake(s, counted)
      /\ pc' = [pc EXCEPT ![s] = "parked"]
  BY DEF Park, Preempt
<1>2. {t \in Session : Waiting(t)}' = Queue \union {s}
  BY <1>1 DEF Queue, Waiting, IInv, TypeOK
<1>3. CASE pc[s] = "idle"
  <2>1. s \notin Queue /\ s # holder
    BY <1>3 DEF Queue, Waiting, IInv, OneHolder
  <2>2. holder = NoSession => s \in ManageSession /\ Queue \cap AuthSession # {}
    BY <1>1, RefusedForReason
  <2>. QED
    BY <1>1, <1>2, <2>1, <2>2 DEF Ownership!Ask, Queue
<1>4. CASE Waiting(s)
  <2>1. {t \in Session : Waiting(t)}' = {t \in Session : Waiting(t)}
    BY <1>2, <1>4 DEF Queue
  <2>2. cancelled' = cancelled
    BY <1>1, <1>4 DEF IInv, HolderToldToYield
  <2>. QED
    BY <1>1, <2>1, <2>2 DEF Ownership!vars
<1>. QED
  BY <1>3, <1>4 DEF InLoop

LEMMA ReleaseIsGiveBack ==
  ASSUME IInv, NEW s \in Session, Release(s)
  PROVE  Ownership!GiveBack(s)
<1>1. holder = s /\ holder' = NoSession /\ cancelled' = cancelled \ {s}
  BY DEF Release, IInv, OneHolder
<1>2. pc[s] = "holding" /\ pc' = [NotifyAll EXCEPT ![s] = "idle"]
  BY <1>1 DEF Release
<1>3. \A t \in Session : Waiting(t)' <=> Waiting(t)
  BY <1>2 DEF NotifyAll, Waiting, IInv, TypeOK
<1>4. {t \in Session : Waiting(t)}' = {t \in Session : Waiting(t)}
  BY <1>3
<1>. QED
  BY <1>1, <1>4 DEF Ownership!GiveBack

\* The monitor implements its contract: whatever the threads and the clock do,
\* its callers see nothing but steps of CameraOwnership.
THEOREM RefinesOwnership == Spec => ImplementsOwnership
<1>1. Init => Ownership!Init
  <2>. SUFFICES ASSUME Init PROVE Ownership!Init
    OBVIOUS
  <2>1. {s \in Session : Waiting(s)} = {}
    BY DEF Init, Waiting
  <2>. QED
    BY <2>1 DEF Init, Ownership!Init
<1>2. IInv /\ [Next]_vars => [Ownership!Next]_(Ownership!vars)
  <2>. SUFFICES ASSUME IInv, [Next]_vars PROVE [Ownership!Next]_(Ownership!vars)
    OBVIOUS
  <2>1. ASSUME NEW s \in Session, NEW counted, InLoop(s, counted),
               Take(s, counted) \/ GiveUp(s, counted) \/ Park(s, counted)
        PROVE  [Ownership!Next]_(Ownership!vars)
    BY <2>1, TakeIsGrant, GiveUpIsRefuse, ParkIsAskOrStutter
    DEF Ownership!Next, Ownership!Session, Session
  <2>2. ASSUME NEW s \in Session, Acquire(s)
        PROVE  [Ownership!Next]_(Ownership!vars)
    <3>. DEFINE counted == IF s \in AuthSession THEN authWaiting + 1 ELSE authWaiting
    <3>1. InLoop(s, counted)
      BY <2>2 DEF Acquire, InLoop
    <3>2. Take(s, counted) \/ GiveUp(s, counted) \/ Park(s, counted)
      BY <2>2 DEF Acquire
    <3>. QED
      BY <2>1, <3>1, <3>2
  <2>3. ASSUME NEW s \in Session, Resume(s) \/ TimeOut(s)
        PROVE  [Ownership!Next]_(Ownership!vars)
    <3>1. InLoop(s, authWaiting)
      BY <2>3 DEF Resume, TimeOut, InLoop, Waiting
    <3>2. Take(s, authWaiting) \/ GiveUp(s, authWaiting) \/ Park(s, authWaiting)
      BY <2>3 DEF Resume, TimeOut
    <3>. QED
      BY <2>1, <3>1, <3>2
  <2>4. ASSUME NEW s \in Session, Release(s)
        PROVE  [Ownership!Next]_(Ownership!vars)
    BY <2>4, ReleaseIsGiveBack DEF Ownership!Next, Ownership!Session, Session
  <2>5. CASE UNCHANGED vars
    <3>1. {s \in Session : Waiting(s)}' = {s \in Session : Waiting(s)}
      BY <2>5 DEF vars, Waiting
    <3>. QED
      BY <2>5, <3>1 DEF vars, Ownership!vars
  <2>. QED
    BY <2>2, <2>3, <2>4, <2>5 DEF Next
<1>. QED
  BY InitIInv, NextIInv, <1>1, <1>2, PTL DEF Spec, ImplementsOwnership, Ownership!Spec

================================================================================
