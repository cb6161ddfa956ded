----------------------------- MODULE SessionAnswer -----------------------------
(***************************************************************************)
(* What the daemon promises to who asks for a session with the camera,     *)
(* without saying how: one answer for every request, made of how its own   *)
(* session ended, or that the time is over after the session was told to   *)
(* stop, or a refusal of a session that never runs. What a session does    *)
(* after its answer changes nothing. CameraSessions, all requests with     *)
(* the camera between them, and LoginSession, the inside of one login,     *)
(* refine it.                                                              *)
(***************************************************************************)
CONSTANTS
  Session,   \* requests for a session
  Ending,    \* how a session ends
  Says,      \* the answers there are to each ending of a session
  Refusal,   \* what is said to a session that does not get the camera
  TimeOver,  \* what is said to one that did not end in its time
  None       \* no ending, no answer

VARIABLES
  phase,   \* where a request stands
  ending,  \* how its session ended
  answer   \* what the client was told

vars == <<phase, ending, answer>>

\* A part of the daemon may begin with the camera granted.
Init ==
  /\ phase \in [Session -> {"away", "served"}]
  /\ ending = [s \in Session |-> None]
  /\ answer = [s \in Session |-> None]

Move(s, from, to) == phase[s] = from /\ phase' = [phase EXCEPT ![s] = to]

Ends(s) == ending[s] = None /\ \E how \in Ending : ending' = [ending EXCEPT ![s] = how]

Told(s, word) == answer' = [answer EXCEPT ![s] = word]

Ask(s) == Move(s, "away", "asking") /\ UNCHANGED <<ending, answer>>

Grant(s) == Move(s, "asking", "served") /\ UNCHANGED <<ending, answer>>

\* A refused session does not run, and never ends.
Refuse(s) ==
  /\ Move(s, "asking", "refused")
  /\ \E word \in Refusal : Told(s, word)
  /\ UNCHANGED ending

\* A session ends by itself or after it was told to stop, which may be long after its answer.
End(s) ==
  /\ phase[s] \in {"served", "stopped", "answered"}
  /\ Ends(s)
  /\ UNCHANGED <<phase, answer>>

\* The session is told to stop, unless it ended.
Stop(s) ==
  /\ ending[s] = None
  /\ Move(s, "served", "stopped")
  /\ UNCHANGED <<ending, answer>>

\* The answer of a session that was not told to stop is how it ended.
Tell(s) ==
  /\ ending[s] # None
  /\ Move(s, "served", "answered")
  /\ \E word \in Says[s][ending[s]] : Told(s, word)
  /\ UNCHANGED ending

\* Nobody waits for one that was. A session that had not begun ends with the wait.
GiveUp(s) ==
  /\ Move(s, "stopped", "answered")
  /\ Told(s, TimeOver)
  /\ Ends(s) \/ UNCHANGED ending

\* A request that was refused, or answered and whose session ended, is no more.
Forget(s) ==
  /\ phase[s] = "refused" \/ (phase[s] = "answered" /\ ending[s] # None)
  /\ phase' = [phase EXCEPT ![s] = "away"]
  /\ ending' = [ending EXCEPT ![s] = None]
  /\ Told(s, None)

Next ==
  \E s \in Session :
    Ask(s) \/ Grant(s) \/ Refuse(s) \/ End(s) \/ Stop(s) \/ Tell(s) \/ GiveUp(s) \/ Forget(s)

Spec == Init /\ [][Next]_vars

================================================================================
