--------------------------- MODULE AuthdServerProofs ---------------------------
(***************************************************************************)
(* Safety of the accept loop for any number of connections and any limit.  *)
(* What the properties miss as an induction hypothesis is the account of   *)
(* the slots: a free slot and a connection being served are exchanged one  *)
(* for the other until the loop is left, and only lost after that.         *)
(***************************************************************************)
EXTENDS AuthdServer, FiniteSetTheorems, TLAPS

\* The account of the semaphore.
SlotsAccounted ==
  /\ slots + Cardinality(Busy) <= MaxClients
  /\ loop \in {"look", "accept", "admit"} => slots + Cardinality(Busy) = MaxClients

\* The invariant. serve() knows every thread that runs at any time.
IInv == TypeOK /\ SlotsAccounted /\ alive \subseteq workers

\* There are finitely many connections, so finitely many are being served.
LEMMA BusyIsFinite == IsFiniteSet(Busy) /\ Cardinality(Busy) \in Nat
  <1>1. Busy \subseteq Client
    BY DEF Busy
  <1> QED
    BY <1>1, ClientAssumption, FS_Subset, FS_CardinalityType

\* A move that does not begin or end serving leaves the account alone.
LEMMA MoveBeside ==
  ASSUME NEW c \in Client, NEW next, place \in [Client -> Place], Move(c, next),
         place[c] \in Serving <=> next \in Serving
  PROVE  Busy' = Busy
  BY DEF Busy, Move

\* A connection that begins to be served is one more.
LEMMA MoveIn ==
  ASSUME NEW c \in Client, NEW next, place \in [Client -> Place], Move(c, next),
         place[c] \notin Serving, next \in Serving
  PROVE  Cardinality(Busy') = Cardinality(Busy) + 1
  <1>1. Busy' = Busy \union {c} /\ c \notin Busy
    BY DEF Busy, Move
  <1> QED
    BY <1>1, BusyIsFinite, FS_AddElement

\* A connection that is served no more is one less.
LEMMA MoveOut ==
  ASSUME NEW c \in Client, NEW next, place \in [Client -> Place], Move(c, next),
         place[c] \in Serving, next \notin Serving
  PROVE  Cardinality(Busy') = Cardinality(Busy) - 1
  <1>1. Busy' = Busy \ {c} /\ c \in Busy
    BY DEF Busy, Move
  <1> QED
    BY <1>1, BusyIsFinite, FS_RemoveElement

\* Connections that are dropped do not make more of them busy.
LEMMA DropSome ==
  ASSUME NEW Some, place' = [c \in Client |-> IF c \in Some THEN "dropped" ELSE place[c]]
  PROVE  Cardinality(Busy') \in Nat /\ Cardinality(Busy') <= Cardinality(Busy)
  <1>1. Busy' \subseteq Busy
    BY DEF Busy, Serving
  <1> QED
    BY <1>1, BusyIsFinite, FS_Subset, FS_CardinalityType

\* The daemon starts with every slot free and nobody served.
LEMMA InitIInv == Init => IInv
  <1> SUFFICES ASSUME Init PROVE IInv
    OBVIOUS
  <1>1. TypeOK
    <2>1. place \in [Client -> Place]
      BY DEF Init, Place
    <2>2. slots \in 0..MaxClients
      BY MaxAssumption DEF Init
    <2> QED
      BY <2>1, <2>2 DEF Init, TypeOK, Loop
  <1>2. Busy = {}
    BY DEF Init, Busy, Serving
  <1>3. SlotsAccounted
    BY <1>2, FS_EmptySet, MaxAssumption DEF Init, SlotsAccounted
  <1> QED
    BY <1>1, <1>3 DEF IInv, Init

\* The account is kept by a step that moves nobody in or out, frees nothing and
\* does not go back into the loop.
LEMMA NothingServed ==
  ASSUME SlotsAccounted, Busy' = Busy, slots' = slots,
         loop' \in {"look", "accept", "admit"} => loop \in {"look", "accept", "admit"}
  PROVE  SlotsAccounted'
  BY DEF SlotsAccounted

\* A thread's own steps between admission and the end leave the rest alone.
LEMMA HandlingIInv ==
  ASSUME IInv, NEW c \in Client, Handling(c) \/ Manage(c) \/ SessionEnds(c)
  PROVE  IInv'
  <1> USE DEF IInv, TypeOK, Place, Serving
  <1>1. CASE Read(c) \/ Answer(c) \/ Manage(c) \/ Write(c) \/ Fail(c)
    <2>1. PICK next \in Serving : Move(c, next)
      BY <1>1 DEF Read, Answer, Manage, Write, Fail
    <2>2. place[c] \in Serving
      BY <1>1 DEF Read, Answer, Manage, Write, Fail
    <2>3. UNCHANGED <<stop, loop, slots, alive, workers>> /\ pool' \in SUBSET Client
      BY <1>1 DEF Read, Answer, Manage, Write, Fail
    <2>4. Busy' = Busy
      BY <2>1, <2>2, MoveBeside
    <2>5. SlotsAccounted'
      BY <2>3, <2>4, NothingServed
    <2>6. TypeOK'
      BY <2>1, <2>3 DEF Move
    <2> QED
      BY <2>3, <2>5, <2>6
  <1>2. CASE Close(c)
    <2>1. Cardinality(Busy') = Cardinality(Busy) - 1
      BY <1>2, MoveOut DEF Close
    <2>2. SlotsAccounted'
      BY <1>2, <2>1, BusyIsFinite, MaxAssumption DEF Close, SlotsAccounted
    <2>3. c \in Busy
      BY <1>2 DEF Close, Busy
    <2>4. Cardinality(Busy) > 0
      BY <2>3, BusyIsFinite, FS_EmptySet
    <2>5. slots' \in 0..MaxClients
      BY <1>2, <2>4, BusyIsFinite, MaxAssumption DEF Close, SlotsAccounted
    <2>6. TypeOK'
      BY <1>2, <2>5 DEF Close, Move
    <2> QED
      BY <1>2, <2>2, <2>6 DEF Close
  <1>3. CASE End(c)
    <2>1. Busy' = Busy
      BY <1>3, MoveBeside DEF End
    <2>2. SlotsAccounted'
      BY <1>3, <2>1, NothingServed DEF End
    <2>3. TypeOK'
      BY <1>3 DEF End, Move
    <2> QED
      BY <1>3, <2>2, <2>3 DEF End
  <1>4. CASE SessionEnds(c)
    <2>1. Busy' = Busy
      BY <1>4 DEF SessionEnds, Busy
    <2>2. SlotsAccounted'
      BY <1>4, <2>1, NothingServed DEF SessionEnds
    <2> QED
      BY <1>4, <2>2 DEF SessionEnds
  <1> QED
    BY <1>1, <1>2, <1>3, <1>4 DEF Handling

\* The steps of the main thread.
LEMMA LoopIInv ==
  ASSUME IInv, LoopStep
  PROVE  IInv'
  <1> USE DEF IInv, TypeOK, Loop
  <1>1. CASE LookAtStop \/ AcceptNothing
    <2>1. Busy' = Busy /\ UNCHANGED <<stop, place, slots, alive, workers, pool>> /\ loop' \in Loop
      BY <1>1 DEF LookAtStop, AcceptNothing, Busy
    <2>2. SlotsAccounted'
      BY <1>1, <2>1, NothingServed DEF LookAtStop, AcceptNothing
    <2> QED
      BY <2>1, <2>2
  <1>2. CASE Join
    <2>1. Cardinality(Busy') \in Nat /\ Cardinality(Busy') <= Cardinality(Busy)
      <3> DEFINE Queued == {c \in Client : place[c] = "queued"}
      <3>1. place' = [c \in Client |-> IF c \in Queued THEN "dropped" ELSE place[c]]
        BY <1>2 DEF Join
      <3> QED
        BY <3>1, DropSome
    <2>2. SlotsAccounted'
      BY <1>2, <2>1, BusyIsFinite, MaxAssumption DEF Join, SlotsAccounted
    <2>3. TypeOK'
      BY <1>2 DEF Join, Place
    <2> QED
      BY <1>2, <2>2, <2>3 DEF Join
  <1>3. CASE Exit
    <2>1. Cardinality(Busy') \in Nat /\ Cardinality(Busy') <= Cardinality(Busy)
      BY <1>3, DropSome DEF Exit
    <2>2. SlotsAccounted'
      BY <1>3, <2>1, BusyIsFinite, MaxAssumption DEF Exit, SlotsAccounted
    <2>3. TypeOK'
      BY <1>3 DEF Exit, Place
    <2> QED
      BY <1>3, <2>2, <2>3 DEF Exit
  <1>4. ASSUME NEW c \in Client, Accept(c) \/ Refuse(c)
        PROVE  IInv'
    <2>1. PICK next \in {"accepted", "refused"} : Move(c, next)
      BY <1>4 DEF Accept, Refuse
    <2>2. Busy' = Busy
      BY <1>4, <2>1, MoveBeside DEF Accept, Refuse, Serving
    <2>3. SlotsAccounted'
      BY <1>4, <2>2, NothingServed DEF Accept, Refuse
    <2>4. TypeOK'
      BY <1>4, <2>1 DEF Accept, Refuse, Move, Place
    <2> QED
      BY <1>4, <2>3, <2>4 DEF Accept, Refuse
  <1>5. ASSUME NEW c \in Client, Admit(c)
        PROVE  IInv'
    <2>1. CASE loop' = "look"
      <3>1. Cardinality(Busy') = Cardinality(Busy) + 1
        BY <1>5, <2>1, MoveIn DEF Admit, Serving
      <3>2. SlotsAccounted'
        BY <1>5, <3>1, BusyIsFinite, MaxAssumption DEF Admit, SlotsAccounted
      <3>3. TypeOK'
        BY <1>5, <2>1, MaxAssumption DEF Admit, Move, Known, Place, Serving
      <3> QED
        BY <1>5, <2>1, <3>2, <3>3 DEF Admit, Known
    <2>2. CASE loop' = "join"
      <3>1. Busy' = Busy
        BY <1>5, <2>2, MoveBeside DEF Admit, Serving
      <3>2. SlotsAccounted'
        BY <1>5, <2>2, <3>1, BusyIsFinite, MaxAssumption DEF Admit, SlotsAccounted
      <3>3. TypeOK'
        BY <1>5, <2>2, MaxAssumption DEF Admit, Move, Place
      <3> QED
        BY <1>5, <2>2, <3>2, <3>3 DEF Admit
    <2> QED
      BY <1>5, <2>1, <2>2 DEF Admit
  <1> QED
    BY <1>1, <1>2, <1>3, <1>4, <1>5 DEF LoopStep

\* Every step keeps the invariant.
LEMMA StepIInv == IInv /\ [Next]_vars => IInv'
  <1> SUFFICES ASSUME IInv, [Next]_vars PROVE IInv'
    OBVIOUS
  <1>1. CASE Stop
    <2>1. Busy' = Busy
      BY <1>1 DEF Stop, Busy
    <2>2. SlotsAccounted'
      BY <1>1, <2>1, NothingServed DEF Stop, IInv
    <2> QED
      BY <1>1, <2>2 DEF Stop, IInv, TypeOK
  <1>2. ASSUME NEW c \in Client, Connect(c)
        PROVE  IInv'
    <2>1. Busy' = Busy
      BY <1>2, MoveBeside DEF Connect, IInv, TypeOK, Serving
    <2>2. SlotsAccounted'
      BY <1>2, <2>1, NothingServed DEF Connect, IInv
    <2>3. TypeOK'
      BY <1>2 DEF Connect, Move, IInv, TypeOK, Place
    <2> QED
      BY <1>2, <2>2, <2>3 DEF Connect, IInv
  <1>3. CASE UNCHANGED vars
    BY <1>3 DEF vars, IInv, TypeOK, SlotsAccounted, Busy
  <1>4. CASE LoopStep
    BY <1>4, LoopIInv
  <1>5. ASSUME NEW c \in Client, Handling(c) \/ Manage(c) \/ SessionEnds(c)
        PROVE  IInv'
    BY <1>5, HandlingIInv
  <1> QED
    BY <1>1, <1>2, <1>3, <1>4, <1>5 DEF Next, Over

\* Types are kept; above all the semaphore stays between 0 and MAX_CLIENTS, so
\* that release() never raises in a connection's thread.
THEOREM SlotsBounded == Spec => []TypeOK
  BY InitIInv, StepIInv, PTL DEF Spec, IInv

\* The shutdown of serve() waits for every thread there is.
THEOREM NoThreadForgotten == Spec => []ShutdownKnowsAll
  <1>1. IInv => ShutdownKnowsAll
    BY DEF IInv, ShutdownKnowsAll
  <1> QED
    BY <1>1, InitIInv, StepIInv, PTL DEF Spec

\* A client is turned away only while MaxClients others are served.
THEOREM NoNeedlessRefusal == Spec => RefusedOnlyWhenFull
  <1> DEFINE Full == \A c \in Client : place[c] # "refused" /\ place'[c] = "refused"
                                         => Cardinality(Busy) = MaxClients
  <1>1. IInv /\ [Next]_vars => [Full]_vars
    <2> SUFFICES ASSUME IInv, Next, NEW c \in Client, place[c] # "refused", place'[c] = "refused"
                 PROVE  Cardinality(Busy) = MaxClients
      BY DEF vars
    <2>1. Refuse(c)
      BY DEF IInv, TypeOK, Next, Stop, LoopStep, Over, vars, Connect, Handling, Manage, SessionEnds,
             Read, Answer, Write, Fail, Close, End, LookAtStop, AcceptNothing, Join, Exit, Accept,
             Refuse, Admit, Move
    <2> QED
      BY <2>1, BusyIsFinite DEF Refuse, IInv, SlotsAccounted
  <1> QED
    BY <1>1, InitIInv, StepIInv, PTL DEF Spec, RefusedOnlyWhenFull

================================================================================
