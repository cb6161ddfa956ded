------------------------------ MODULE AuthdServer ------------------------------
(***************************************************************************)
(* The front of the daemon, main(), serve(), _serve_client() and           *)
(* _handle_client() in authd/main.py: an accept loop, a bounded number of  *)
(* connections, a thread for each of them, and a shutdown that waits for   *)
(* the threads only so long. A login runs in a thread of a pool of its own *)
(* and is left alone when its time is over; a management request runs in   *)
(* the connection's thread. What a session does with the camera is in      *)
(* CameraSessions; here it takes as long as it likes, and may raise.       *)
(***************************************************************************)
EXTENDS Naturals, FiniteSets

CONSTANTS
  Client,      \* connections that are ever made
  MaxClients   \* MAX_CLIENTS

ASSUME ClientAssumption == IsFiniteSet(Client)
ASSUME MaxAssumption == MaxClients \in Nat \ {0}

VARIABLES
  stop,     \* the stop event, set by a signal
  loop,     \* where the main thread stands
  place,    \* where a connection stands
  slots,    \* free slots of the semaphore
  alive,    \* connections whose thread runs
  workers,  \* connections whose thread serve() knows
  pool      \* connections whose login runs in its pool's thread

vars == <<stop, loop, place, slots, alive, workers, pool>>

\* The main thread looks at stop, waits in accept(), has a connection to admit,
\* waits for the threads, has returned from serve(), and is gone.
Loop == {"look", "accept", "admit", "join", "returned", "exited"}

\* A thread reads the request, waits for a login or does a management request,
\* writes the answer or the error, and closes the connection.
Serving == {"read", "login", "manage", "write", "fail", "close"}

\* Then it has given its slot back ("left") and ends.
Place == {"away", "queued", "accepted", "refused", "dropped", "left", "gone"} \union Serving

Busy == {c \in Client : place[c] \in Serving}

Init ==
  /\ stop = FALSE
  /\ loop = "look"
  /\ place = [c \in Client |-> "away"]
  /\ slots = MaxClients
  /\ alive = {} /\ workers = {} /\ pool = {}

Move(c, next) == place' = [place EXCEPT ![c] = next]

\* A client connects to the listening socket.
Connect(c) ==
  /\ place[c] = "away" /\ loop \notin {"returned", "exited"}
  /\ Move(c, "queued")
  /\ UNCHANGED <<stop, loop, slots, alive, workers, pool>>

\* SIGTERM or SIGINT
Stop ==
  /\ ~stop /\ loop # "exited"
  /\ stop' = TRUE
  /\ UNCHANGED <<loop, place, slots, alive, workers, pool>>

--------------------------------------------------------------------------------
(* The main thread *)

LookAtStop ==
  /\ loop = "look"
  /\ loop' = IF stop THEN "join" ELSE "accept"
  /\ UNCHANGED <<stop, place, slots, alive, workers, pool>>

\* accept() returns a connection, also after stop was set.
Accept(c) ==
  /\ loop = "accept" /\ place[c] = "queued"
  /\ loop' = "admit"
  /\ Move(c, "accepted")
  /\ UNCHANGED <<stop, slots, alive, workers, pool>>

\* accept() times out, or fails for good.
AcceptNothing ==
  /\ loop = "accept"
  /\ \/ loop' = "look" /\ \A c \in Client : place[c] # "queued"
     \/ loop' = "join"
  /\ UNCHANGED <<stop, place, slots, alive, workers, pool>>

\* Variant that waits until a slot is free.
RefuseNever(c) == FALSE /\ UNCHANGED vars

\* All slots are taken: the connection is closed, without an answer.
Refuse(c) ==
  /\ loop = "admit" /\ place[c] = "accepted" /\ slots = 0
  /\ Move(c, "refused")
  /\ loop' = "look"
  /\ UNCHANGED <<stop, slots, alive, workers, pool>>

\* Variant that remembers the last thread only.
KnownLast(c) == {c}

\* The threads that serve() knows when it started one more.
Known(c) == (workers \intersect alive) \union {c}

\* The thread is started. When that fails the error ends serve().
Admit(c) ==
  /\ loop = "admit" /\ place[c] = "accepted" /\ slots > 0
  /\ slots' = slots - 1
  /\ \/ loop' = "look" /\ Move(c, "read") /\ alive' = alive \union {c} /\ workers' = Known(c)
     \/ loop' = "join" /\ Move(c, "dropped") /\ UNCHANGED <<alive, workers>>
  /\ UNCHANGED <<stop, pool>>

\* Variant of the shutdown that waits for every thread.
JoinAll ==
  /\ loop = "join" /\ alive \intersect workers = {}
  /\ loop' = "returned"
  /\ place' = [c \in Client |-> IF place[c] = "queued" THEN "dropped" ELSE place[c]]
  /\ UNCHANGED <<stop, slots, alive, workers, pool>>

\* The threads are joined or the grace period is over. serve() returns, and main()
\* closes the listening socket.
Join ==
  /\ loop = "join"
  /\ loop' = "returned"
  /\ place' = [c \in Client |-> IF place[c] = "queued" THEN "dropped" ELSE place[c]]
  /\ UNCHANGED <<stop, slots, alive, workers, pool>>

\* The interpreter waits for the threads of every pool. Then the process ends, and
\* with it the threads of its connections.
Exit ==
  /\ loop = "returned" /\ pool = {}
  /\ loop' = "exited"
  /\ place' = [c \in Client |-> IF c \in alive THEN "dropped" ELSE place[c]]
  /\ alive' = {}
  /\ UNCHANGED <<stop, slots, workers, pool>>

--------------------------------------------------------------------------------
(* The thread of a connection *)

\* The frame does not come in time, does not parse or does not validate; or the
\* user is one this client may not act for; or it is a valid request. No pool
\* takes work any more when the interpreter is about to end.
Read(c) ==
  /\ place[c] = "read"
  /\ \/ \E next \in {"fail", "write", "manage"} : Move(c, next) /\ UNCHANGED pool
     \/ loop # "returned" /\ Move(c, "login") /\ pool' = pool \union {c}
  /\ UNCHANGED <<stop, loop, slots, alive, workers>>

\* The login is over, its deadline passed, or it could not have the camera. The
\* pool's thread goes on with what it does.
Answer(c) ==
  /\ place[c] = "login"
  /\ Move(c, "write")
  /\ UNCHANGED <<stop, loop, slots, alive, workers, pool>>

\* A management request is done, its answer written; or something raised.
Manage(c) ==
  /\ place[c] = "manage"
  /\ \E next \in {"close", "fail"} : Move(c, next)
  /\ UNCHANGED <<stop, loop, slots, alive, workers, pool>>

\* The client gets the answer, or it is gone and writing raises.
Write(c) ==
  /\ place[c] = "write"
  /\ \E next \in {"close", "fail"} : Move(c, next)
  /\ UNCHANGED <<stop, loop, slots, alive, workers, pool>>

\* Variant of the error path that keeps the slot.
FailForGood(c) ==
  /\ place[c] = "fail"
  /\ Move(c, "left")
  /\ UNCHANGED <<stop, loop, slots, alive, workers, pool>>

\* Whatever was raised, the client is sent an error if it can be.
Fail(c) ==
  /\ place[c] = "fail"
  /\ Move(c, "close")
  /\ UNCHANGED <<stop, loop, slots, alive, workers, pool>>

\* The connection is closed and the slot is free, on every path.
Close(c) ==
  /\ place[c] = "close"
  /\ slots' = slots + 1
  /\ Move(c, "left")
  /\ UNCHANGED <<stop, loop, alive, workers, pool>>

\* The thread ends.
End(c) ==
  /\ place[c] = "left"
  /\ Move(c, "gone")
  /\ alive' = alive \ {c}
  /\ UNCHANGED <<stop, loop, slots, workers, pool>>

\* The session of a login ends, which may be long after its answer.
SessionEnds(c) ==
  /\ c \in pool
  /\ pool' = pool \ {c}
  /\ UNCHANGED <<stop, loop, place, slots, alive, workers>>

LoopStep == LookAtStop \/ AcceptNothing \/ Join \/ Exit
              \/ \E c \in Client : Accept(c) \/ Refuse(c) \/ Admit(c)

Handling(c) == Read(c) \/ Answer(c) \/ Write(c) \/ Fail(c) \/ Close(c) \/ End(c)

\* The daemon is not running any more.
Over == loop = "exited" /\ UNCHANGED vars

Next == Stop \/ LoopStep \/ Over
          \/ \E c \in Client : Connect(c) \/ Handling(c) \/ Manage(c) \/ SessionEnds(c)

Spec == Init /\ [][Next]_vars

\* The threads of the daemon are scheduled. A session or a management request may
\* hang in the camera for ever: there is no fairness for Manage and SessionEnds.
FairSpec == Spec /\ WF_vars(LoopStep) /\ \A c \in Client : WF_vars(Handling(c))

--------------------------------------------------------------------------------
(* Properties *)

\* Types. The semaphore is never released more often than it was taken, which
\* would raise in the thread that closes its connection.
TypeOK ==
  /\ stop \in BOOLEAN
  /\ loop \in Loop
  /\ place \in [Client -> Place]
  /\ slots \in 0..MaxClients
  /\ alive \in SUBSET Client /\ workers \in SUBSET Client /\ pool \in SUBSET Client

\* Every thread that runs is one the shutdown of serve() waits for, although the
\* set of them is made anew for every connection.
ShutdownKnowsAll == loop = "join" => alive \subseteq workers

\* A client is turned away only while MAX_CLIENTS others are being served: no
\* path through a handler, however it fails, keeps its slot.
RefusedOnlyWhenFull ==
  [][\A c \in Client : place[c] # "refused" /\ place'[c] = "refused"
                         => Cardinality(Busy) = MaxClients]_vars

\* Whoever connects is admitted or turned away, even if every session hangs; or
\* the daemon shuts down.
ClientIsHeard ==
  \A c \in Client : place[c] = "queued" ~> place[c] \notin {"queued", "accepted"}

\* serve() returns after a signal, whatever the sessions do.
StopEnds == stop ~> loop \in {"returned", "exited"}

================================================================================
