----------------------------- MODULE ClientProofs ------------------------------
(***************************************************************************)
(* Safety of the two clients of the daemon: one login of the PAM module    *)
(* (PamIdentify), for any number of retries, and the page with the face    *)
(* models beside the handlers of its requests (ManageProtocol), for any    *)
(* number of connections and models. The two state machines share nothing. *)
(***************************************************************************)
EXTENDS PamIdentify, ManageProtocol, TLAPS

--------------------------------------------------------------------------------
(* The threads of a login *)

\* The types of everything that is not counted.
Places ==
  /\ workaround \in {"off", "input", "native"} /\ askAuthTok \in BOOLEAN
  /\ at \in Main
  /\ confirmation \in {"Unset", "SecureEye", "Pam"}
  /\ auth \in Place /\ pass \in Place
  /\ status \in Failure \union {"success", "none"}
  /\ password \in {"none", "success", "pam_error"}
  /\ doomed \subseteq Thread
  /\ told \subseteq Told
  /\ result \in {"none", "system_err", "pam_error", "authinfo_unavail", "ignore",
                 "auth_err", "success"}

\* A thread has its result when it is past its call, and the first one with a result
\* says so before it notifies anybody.
Answers ==
  /\ auth \in {"returned", "confirmed", "done"} <=> status # "none"
  /\ pass \in {"returned", "confirmed", "done"} <=> password # "none"
  /\ confirmation = "Unset" <=> auth \notin {"confirmed", "done"} /\ pass \notin {"confirmed", "done"}
  /\ confirmation = "SecureEye" => auth \in {"confirmed", "done"}
  /\ confirmation = "Pam" => pass \in {"confirmed", "done"}

\* The application's thread starts the threads, the prompt only when it asks.
Started ==
  /\ at = "checks" => auth = "none"
  /\ at \in {"checks", "prompt"} => pass = "none"
  /\ at \notin {"checks", "over"} => auth # "none"
  /\ at \notin {"checks", "prompt", "over"} => (pass # "none" <=> Ask)
  /\ pass # "none" => Ask

\* A thread is cancelled only where the other one has won, and while its caller
\* waits for it.
Doomed ==
  /\ auth = "cancelled" => "auth" \in doomed
  /\ pass = "cancelled" => "pass" \in doomed
  /\ "auth" \in doomed => confirmation = "Pam" /\ at \in {"joinAuth", "joinTyped", "typed", "over"}
  /\ "pass" \in doomed => confirmation = "SecureEye" /\ at \in {"joinCancelled", "report", "over"}

\* What is known where the application's thread stands.
Standing ==
  /\ at \in {"joinAuth", "joinTyped", "typed"} /\ confirmation # "Pam" =>
       confirmation = "SecureEye" /\ Ask /\ auth = "done" /\ status # "success"
  /\ at = "joinAuth" => confirmation = "Pam"
  /\ at \in {"joinTyped", "typed"} => auth \in Ended
  /\ at = "typed" => pass = "done"
  /\ at \in {"joinFace", "stopPrompt", "joinCancelled", "enter", "joinPrompt", "report"} =>
       confirmation = "SecureEye"
  /\ at \in {"stopPrompt", "joinCancelled", "enter", "joinPrompt"} =>
       Ask /\ auth = "done" /\ status = "success"
  /\ at = "report" => /\ auth = "done" /\ pass \in Ended
                      /\ Ask /\ status # "success" => pass = "done" /\ password = "pam_error"
  /\ result = "none" <=> at # "over"

\* What is known of the two threads while they race, and after.
Race ==
  /\ Answers /\ Started /\ Doomed /\ Standing
  /\ ThreadsGone /\ ApprovedByDaemon /\ PromptIsKept /\ StuckPromptIsExplained

PamInv == Places /\ presses \in 0 .. MaxRetries + 1 /\ Race

\* identify() begins with no thread.
LEMMA InitPamInv == PamInit => PamInv
  BY RetriesAssumption
  DEF PamInit, PamInv, Race, Places, Answers, Started, Doomed, Standing, ThreadsGone, ApprovedByDaemon,
      PromptIsKept, StuckPromptIsExplained, Main, Place, Thread, Told, Ended

\* Enter is pressed once, and again as long as the retries last.
LEMMA EnterCounted ==
  ASSUME presses \in 0 .. MaxRetries + 1, [PamNext]_pamVars
  PROVE  presses' \in 0 .. MaxRetries + 1
  <1>1. presses' \in {presses, 1} \/ (presses <= MaxRetries /\ presses' = presses + 1)
    BY DEF PamNext, MainStep, Skip, StartAuth, StartPrompt, Wake, JoinAuth, JoinTyped, TakePassword, JoinFace,
           StopPrompt, Enter, PromptEnded, PressAgain, StopPressing, JoinPrompt, Report,
           Answered, Typed, Confirm, ThreadEnds, Unwind, IdentifyOver, pamVars
  <1> QED
    BY <1>1, RetriesAssumption

\* Every step of the application's thread keeps the types.
LEMMA MainStepPlaces ==
  ASSUME Places, Race, MainStep
  PROVE  Places'
  <1> USE DEF Places, config, authTask, passTask, GoTo, Return
  <1>1. CASE Skip
    BY <1>1 DEF Skip, Main
  <1>2. CASE StartAuth
    BY <1>2 DEF StartAuth, Main, Place
  <1>3. CASE StartPrompt
    BY <1>3 DEF StartPrompt, Main, Place
  <1>4. CASE Wake
    BY <1>4 DEF Wake, Main, Thread
  <1>5. CASE JoinAuth
    BY <1>5 DEF JoinAuth, Main
  <1>6. CASE JoinTyped
    BY <1>6 DEF JoinTyped, Main
  <1>7. CASE TakePassword
    <2>1. confirmation # "Unset"
      BY <1>7 DEF TakePassword, Race, Standing
    <2> QED
      BY <1>7, <2>1 DEF TakePassword, Main
  <1>8. CASE JoinFace
    BY <1>8 DEF JoinFace, Main
  <1>9. CASE StopPrompt
    <2>1. at' \in Main /\ doomed' \subseteq Thread /\ told' \subseteq Told
      BY <1>9 DEF StopPrompt, Main, Thread, Told
    <2> QED
      BY <1>9, <2>1 DEF StopPrompt
  <1>10. CASE Enter
    <2>1. at' \in Main /\ told' \subseteq Told
      BY <1>10 DEF Enter, PromptEnded, PressAgain, StopPressing, Main, Told
    <2>2. result' = result
      BY <1>10 DEF Enter, PromptEnded, PressAgain, StopPressing
    <2> QED
      BY <1>10, <2>1, <2>2 DEF Enter
  <1>11. CASE JoinPrompt
    BY <1>11 DEF JoinPrompt, Main
  <1>12. CASE Report
    BY <1>12 DEF Report, Main, Told
  <1> QED
    BY <1>1, <1>2, <1>3, <1>4, <1>5, <1>6, <1>7, <1>8, <1>9, <1>10, <1>11, <1>12 DEF MainStep

\* So does every step of the two threads.
LEMMA ThreadStepPlaces ==
  ASSUME Places, Answered \/ Typed \/ Confirm \/ ThreadEnds \/ Unwind
  PROVE  Places'
  <1> USE DEF Places, config, authTask, passTask, GoTo, Return
  <1>1. CASE Answered
    BY <1>1 DEF Answered, Place, Failure
  <1>2. CASE Typed
    BY <1>2 DEF Typed, Place
  <1>3. CASE Confirm
    BY <1>3 DEF Confirm, ConfirmFirst, Place
  <1>4. CASE ThreadEnds
    BY <1>4 DEF ThreadEnds, Main, Place
  <1>5. CASE Unwind
    BY <1>5 DEF Unwind, Place
  <1> QED
    BY <1>1, <1>2, <1>3, <1>4, <1>5

\* Every step of the application's thread keeps what is known of the race.
LEMMA MainStepRace ==
  ASSUME Places, Race, MainStep
  PROVE  Race'
  <1> USE DEF Race, Answers, Started, Doomed, Standing, ThreadsGone, ApprovedByDaemon, PromptIsKept,
          StuckPromptIsExplained, Ended, Ask, config, authTask, passTask, GoTo, Return
  <1>1. CASE Skip
    BY <1>1 DEF Skip
  <1>2. CASE StartAuth
    BY <1>2 DEF StartAuth
  <1>3. CASE StartPrompt
    BY <1>3 DEF StartPrompt
  <1>4. CASE Wake
    <2>1. confirmation \in {"Unset", "SecureEye", "Pam"}
      BY DEF Places
    <2> QED
      <3>1. CASE confirmation = "Unset"
        BY <1>4, <3>1 DEF Wake
      <3>2. CASE confirmation = "Pam"
        BY <1>4, <3>2 DEF Wake
      <3>3. CASE confirmation = "SecureEye"
        BY <1>4, <3>3 DEF Wake
      <3> QED
        BY <2>1, <3>1, <3>2, <3>3
  <1>5. CASE JoinAuth
    BY <1>5 DEF JoinAuth
  <1>6. CASE JoinTyped
    BY <1>6 DEF JoinTyped
  <1>7. CASE TakePassword
    <2>1. confirmation \in {"SecureEye", "Pam"} /\ password \in {"success", "pam_error"}
      BY <1>7 DEF TakePassword, Places
    <2> QED
      <3>1. CASE password = "success"
        BY <1>7, <3>1 DEF TakePassword
      <3>2. CASE password # "success" /\ confirmation = "Pam"
        BY <1>7, <3>2 DEF TakePassword
      <3>3. CASE password # "success" /\ confirmation = "SecureEye"
        BY <1>7, <2>1, <3>3 DEF TakePassword
      <3> QED
        BY <2>1, <3>1, <3>2, <3>3
  <1>8. CASE JoinFace
    BY <1>8 DEF JoinFace
  <1>9. CASE StopPrompt
    BY <1>9 DEF StopPrompt
  <1>10. CASE Enter
    BY <1>10 DEF Enter, PromptEnded, PressAgain, StopPressing
  <1>11. CASE JoinPrompt
    BY <1>11 DEF JoinPrompt
  <1>12. CASE Report
    BY <1>12 DEF Report
  <1> QED
    BY <1>1, <1>2, <1>3, <1>4, <1>5, <1>6, <1>7, <1>8, <1>9, <1>10, <1>11, <1>12 DEF MainStep

\* So does every step of the two threads.
LEMMA ThreadStepRace ==
  ASSUME Places, Race, Answered \/ Typed \/ Confirm \/ ThreadEnds \/ Unwind
  PROVE  Race'
  <1> USE DEF Race, Answers, Started, Doomed, Standing, ThreadsGone, ApprovedByDaemon, PromptIsKept,
          StuckPromptIsExplained, Ended, Ask, config, authTask, passTask, GoTo, Return
  <1>1. CASE Answered
    BY <1>1 DEF Answered, Failure
  <1>2. CASE Typed
    BY <1>2 DEF Typed
  <1>3. CASE Confirm
    BY <1>3 DEF Confirm, ConfirmFirst
  <1>4. CASE ThreadEnds
    BY <1>4 DEF ThreadEnds
  <1>5. CASE Unwind
    BY <1>5 DEF Unwind
  <1> QED
    BY <1>1, <1>2, <1>3, <1>4, <1>5

\* Every step keeps the invariant.
LEMMA StepPamInv == PamInv /\ [PamNext]_pamVars => PamInv'
  <1> SUFFICES ASSUME PamInv, [PamNext]_pamVars PROVE PamInv'
    OBVIOUS
  <1>0. presses' \in 0 .. MaxRetries + 1
    BY EnterCounted DEF PamInv
  <1>1. CASE IdentifyOver \/ UNCHANGED pamVars
    <2>1. UNCHANGED <<workaround, askAuthTok, at, confirmation, auth, status, pass, password, doomed,
                      presses, told, result>>
      BY <1>1 DEF IdentifyOver, pamVars, config, authTask, passTask
    <2>2. Places'
      BY <2>1 DEF PamInv, Places
    <2>3. (Answers /\ Started /\ Doomed)'
      BY <2>1 DEF PamInv, Race, Answers, Started, Doomed, Ask
    <2>4. (Standing /\ ThreadsGone /\ ApprovedByDaemon /\ PromptIsKept /\ StuckPromptIsExplained)'
      BY <2>1 DEF PamInv, Race, Standing, ThreadsGone, ApprovedByDaemon, PromptIsKept,
                  StuckPromptIsExplained, Ask
    <2> QED
      BY <1>0, <2>2, <2>3, <2>4 DEF PamInv, Race
  <1>2. CASE MainStep
    BY <1>0, <1>2, MainStepPlaces, MainStepRace DEF PamInv
  <1>3. CASE Answered \/ Typed \/ Confirm \/ ThreadEnds \/ Unwind
    BY <1>0, <1>3, ThreadStepPlaces, ThreadStepRace DEF PamInv
  <1> QED
    BY <1>1, <1>2, <1>3 DEF PamNext

\* For any number of retries, Enter is pressed once and at most that often again.
THEOREM PamTypeCorrect == PamSpec => []PamTypeOK
  <1>1. PamInv => PamTypeOK
    BY DEF PamInv, Places, PamTypeOK
  <1> QED
    BY <1>1, InitPamInv, StepPamInv, PTL DEF PamSpec

\* identify() never returns before both of its threads are gone.
THEOREM NoThreadLeft == PamSpec => []ThreadsGone
  <1>1. PamInv => ThreadsGone
    BY DEF PamInv, Race
  <1> QED
    BY <1>1, InitPamInv, StepPamInv, PTL DEF PamSpec

\* What identify() returns is what the thread said whose answer came first, read only from
\* a thread that has one: in any order of answers, notifications, cancels and joins.
THEOREM FirstAnswerDecides == PamSpec => []ResultIsEarned
  <1>1. PamInv => ResultIsEarned
    BY DEF PamInv, Race, Standing, ResultIsEarned, ResultsAreThere
  <1> QED
    BY <1>1, InitPamInv, StepPamInv, PTL DEF PamSpec

\* Wherever a prompt may outlive the Enter presses, the user was told to press it.
THEOREM PromptExplained == PamSpec => []StuckPromptIsExplained
  <1>1. PamInv => StuckPromptIsExplained
    BY DEF PamInv, Race
  <1> QED
    BY <1>1, InitPamInv, StepPamInv, PTL DEF PamSpec

--------------------------------------------------------------------------------
(* The page and the daemon *)

\* What the daemon may send, and what a session may leave as its result.
Said == {"none", "success", "completed", "internal_error"} \union Refusal
Sent == [type : {"started", "result", "garbage", "auth_response"}, result : Said, models : SUBSET Model]
StartedMessage == Message("started", "none", {})
Ran == {"none", "success", "completed", "no_models", "no_face", "internal_error", "cancelled"}
Doing == {"none", "read", "list", "lock", "change", "camera", "started", "session", "captured",
          "write", "release"}

Guis == [Request -> [state : {"none", "connecting", "waiting", "running"}, inbox : Seq(Sent),
                     cancels : BOOLEAN]]
Handlers == [Request -> [at : Doing, result : Ran, cancelled : {"no", "client", "login"}]]
Asks == [Request -> [kind : Kind \union {"none"}, model : Model \union {"none"}]]

\* The types the proof rests on.
Shapes ==
  /\ gui \in Guis /\ handler \in Handlers /\ ask \in Asks
  /\ {list, change, session, lock, camera} \subseteq Request \union {NoRequest}
  /\ rows \subseteq Model /\ store \subseteq Model /\ wrote \subseteq Request
  /\ error \in BOOLEAN /\ up \in BOOLEAN /\ unseen \in BOOLEAN

\* The page's three requests are of their kinds, so they are three, and the connections
\* that are there are theirs.
PageAsks ==
  /\ list \in Request => ask[list].kind = "list"
  /\ change \in Request => ask[change].kind \in {"remove", "clear"}
  /\ session \in Request => ask[session].kind \in {"enroll", "test"}
  /\ \A r \in Request : Gone(r) <=> r \notin {list, change, session}

\* Where a handler has the camera.
Camera == {"started", "session", "captured", "write", "release"}

\* A handler does what its request asks for, and holds the lock and the camera meanwhile.
Serving(r) ==
  /\ handler[r].at = "read" => ask[r].kind # "none"
  /\ handler[r].at = "list" => ask[r].kind = "list"
  /\ handler[r].at = "lock" => ask[r].kind \in {"remove", "clear", "enroll"}
  /\ handler[r].at = "change" => ask[r].kind \in {"remove", "clear"}
  /\ handler[r].at \in {"camera", "started", "session", "release"} => ask[r].kind \in {"enroll", "test"}
  /\ handler[r].at \in {"captured", "write"} => ask[r].kind = "enroll"
  /\ lock = r <=> \/ handler[r].at = "change"
                  \/ ask[r].kind = "enroll" /\ handler[r].at \in {"camera"} \union Camera
  /\ camera = r <=> handler[r].at \in Camera

Serves == \A r \in Request : Serving(r)

\* Who changed the file has a result that says so, unless the result is gone.
Wrote ==
  \A r \in Request :
    /\ r \in wrote => ask[r].kind \in {"remove", "clear", "enroll"}
    /\ r \in wrote => handler[r].at \in {"none", "release"}
    /\ handler[r].at = "release" => (r \in wrote <=> handler[r].result = "success")
    /\ Gone(r) /\ Idle(r) => r \notin wrote
    /\ gui[r].state = "connecting" => Idle(r) /\ r \notin wrote

\* What a message may say.
Honest(r, message) ==
  /\ message.result = "success" /\ ask[r].kind \in {"remove", "clear", "enroll"} => r \in wrote
  /\ message.result \in Refusal \/ message = AuthResponse => r \notin wrote

\* What is on its way to the page: "started" while the session runs, then the result.
OnTheWay ==
  \A r \in Request :
    /\ gui[r].state \in {"none", "connecting"} => gui[r].inbox = <<>>
    /\ handler[r].at \in {"read", "list", "lock", "change", "camera", "started"} => gui[r].inbox = <<>>
    /\ Len(gui[r].inbox) <= (IF Idle(r) THEN 2 ELSE 1)
    /\ \A i \in 1 .. Len(gui[r].inbox) :
         IF Idle(r) THEN gui[r].inbox[i] = StartedMessage \/ Honest(r, gui[r].inbox[i])
                    ELSE gui[r].inbox[i] = StartedMessage

\* A change that the page will look for when its request is over.
Expected == change \in wrote \/ session \in wrote

\* What the page shows, or is about to be told, is what there is, unless it will look
\* again or says that it may not be so.
Fresh ==
  \/ unseen
  \/ Expected
  \/ /\ list = NoRequest => error \/ rows = store
     /\ list \in Request =>
          \A i \in 1 .. Len(gui[list].inbox) :
            gui[list].inbox[i].result = "success" => gui[list].inbox[i].models = store

PageInv == Shapes /\ PageAsks /\ Serves /\ Wrote /\ OnTheWay /\ Fresh

\* Messages are appended to what a page has not read yet.
LEMMA Appended ==
  ASSUME NEW S, NEW q \in Seq(S), NEW m \in S
  PROVE  /\ q \o <<>> = q
         /\ q \o <<m>> \in Seq(S) /\ Len(q \o <<m>>) = Len(q) + 1
         /\ \A i \in 1 .. Len(q \o <<m>>) : IF i <= Len(q) THEN (q \o <<m>>)[i] = q[i]
                                                          ELSE (q \o <<m>>)[i] = m
  OBVIOUS

\* The page reads the first message.
LEMMA FirstRead ==
  ASSUME NEW S, NEW q \in Seq(S), q # <<>>
  PROVE  /\ Head(q) = q[1] /\ 1 \in 1 .. Len(q) /\ q[1] \in S
         /\ Tail(q) \in Seq(S) /\ Len(Tail(q)) = Len(q) - 1
         /\ \A i \in 1 .. Len(Tail(q)) : Tail(q)[i] = q[i + 1] /\ i + 1 \in 1 .. Len(q)
  OBVIOUS

\* The messages of the protocol.
LEMMA Messages ==
  /\ StartedMessage \in Sent /\ Garbage \in Sent /\ AuthResponse \in Sent
  /\ \A said \in Said : Result(said) \in Sent /\ Result(said).result = said
  /\ \A said \in Said : Result(said) # AuthResponse
  /\ Garbage.result = "none" /\ Garbage # AuthResponse
  /\ StartedMessage.result = "none" /\ StartedMessage # AuthResponse /\ AuthResponse.result = "none"
  BY DEF StartedMessage, Garbage, AuthResponse, Result, Message, Sent, Said, Refusal

\* The page deletes requests, and may make a new one with a connection that is free.
LEMMA TurnStep ==
  ASSUME Shapes, Serves, Wrote, OnTheWay,
         NEW deleted, NEW new \in Free(deleted) \union {NoRequest},
         NEW kind \in Kind \union {"none"}, NEW model \in Model \union {"none"},
         Turn(deleted, new, kind, model)
  PROVE  /\ gui' \in Guis
         /\ ask' \in Asks
         /\ wrote' \subseteq Request /\ UNCHANGED <<handler, store, lock, camera, up>>
         /\ Serves' /\ Wrote' /\ OnTheWay'
         /\ new \in Request => ~Gone(new)' /\ ask'[new].kind = kind /\ gui'[new].inbox = <<>>
         /\ \A r \in Request : r # new => (Gone(r)' <=> Gone(r) \/ r \in deleted)
         /\ \A r \in Request : r # new /\ r \notin deleted =>
              gui'[r] = gui[r] /\ ask'[r] = ask[r] /\ (r \in wrote' <=> r \in wrote)
  <1> DEFINE over == {r \in deleted \ {NoRequest} : Idle(r)}
  <1>1. /\ gui' = [r \in Request |-> IF r = new THEN [NoClient EXCEPT !.state = "connecting"]
                                     ELSE IF r \in deleted THEN NoClient ELSE gui[r]]
        /\ ask' = [r \in Request |-> IF r = new THEN [kind |-> kind, model |-> model]
                                     ELSE IF r \in over THEN NoAsk ELSE ask[r]]
        /\ wrote' = wrote \ over
        /\ UNCHANGED <<handler, store, lock, camera, up>>
    BY DEF Turn, daemon
  <1>2. new \in Request => Idle(new) /\ new \notin wrote' /\ (Gone(new) \/ new \in over)
    BY <1>1, RequestAssumption DEF Free, Wrote
  <1>3. <<>> \in Seq(Sent) /\ Len(<<>>) = 0
    OBVIOUS
  <1>4. /\ gui' \in Guis
        /\ ask' \in Asks
        /\ wrote' \subseteq Request
    BY <1>1, <1>3 DEF Shapes, Guis, Handlers, Asks, NoClient, NoAsk
  <1>5. /\ new \in Request => ~Gone(new)' /\ ask'[new].kind = kind /\ gui'[new].inbox = <<>>
        /\ \A r \in Request : r # new => (Gone(r)' <=> Gone(r) \/ r \in deleted)
        /\ \A r \in Request : r # new /\ r \notin deleted =>
             gui'[r] = gui[r] /\ ask'[r] = ask[r] /\ (r \in wrote' <=> r \in wrote)
    BY <1>1 DEF Shapes, Guis, Handlers, Asks, NoClient, Gone
  <1>6. Serves'
    <2>1. \A r \in Request : ~Idle(r) => ask'[r] = ask[r]
      BY <1>1, <1>2
    <2> QED
      BY <1>1, <2>1 DEF Serves, Serving, Camera, Idle
  <1>7. Wrote'
    BY <1>1, <1>2, RequestAssumption DEF Wrote, Idle, Gone, NoClient, Shapes, Guis, Handlers, Asks
  <1>8. OnTheWay'
    <2>1. \A r \in Request : gui'[r].inbox = <<>> \/ (gui'[r] = gui[r] /\ ask'[r] = ask[r] /\ (r \in wrote' <=> r \in wrote))
      BY <1>1, RequestAssumption DEF NoClient
    <2>2. handler' = handler
      BY <1>1
    <2>3. ASSUME NEW r \in Request, gui'[r].state \in {"none", "connecting"} PROVE gui'[r].inbox = <<>>
      BY <2>1, <2>3 DEF OnTheWay
    <2> QED
      BY <1>3, <2>1, <2>2, <2>3 DEF OnTheWay, Idle, Honest
  <1> QED
    BY <1>1, <1>4, <1>5, <1>6, <1>7, <1>8

\* A handler sends its result, or what gets through in its place, and is over.
LEMMA AnswerStep ==
  ASSUME Shapes, Serves, Wrote, OnTheWay,
         NEW r \in Request, ~Idle(r),
         NEW message \in Sent, NEW written \in SUBSET {r}, Answer(r, message, written),
         written = {r} => ask[r].kind \in {"remove", "clear", "enroll"},
         message.result = "success" /\ ask[r].kind \in {"remove", "clear", "enroll"} =>
           r \in wrote \union written,
         message.result \in Refusal \/ message = AuthResponse => r \notin wrote \union written
  PROVE  /\ gui' \in Guis
         /\ ask' \in Asks
         /\ handler' = [handler EXCEPT ![r] = NoHandler]
         /\ wrote' \subseteq Request
         /\ Wrote' /\ OnTheWay'
         /\ \A q \in Request : gui'[q].state = gui[q].state /\ (~Gone(q) => ask'[q] = ask[q])
         /\ \A q \in Request : q # r => gui'[q] = gui[q] /\ ask'[q] = ask[q] /\ (q \in wrote' <=> q \in wrote)
         /\ ~Gone(r) => (r \in wrote' <=> r \in wrote \union written)
         /\ \A i \in 1 .. Len(gui'[r].inbox) :
              gui'[r].inbox[i] \in {StartedMessage, message, Result("internal_error"), Garbage}
  <1> DEFINE others == {StartedMessage, message, Result("internal_error"), Garbage}
  <1>1. /\ \E messages \in {<<message>>, <<Result("internal_error")>>, <<Garbage>>, <<>>} :
             gui' = IF Gone(r) THEN gui ELSE [gui EXCEPT ![r].inbox = @ \o messages]
        /\ handler' = [q \in Request |-> IF q = r THEN NoHandler ELSE handler[q]]
        /\ ask' = [q \in Request |-> IF q = r /\ Gone(r) THEN NoAsk ELSE ask[q]]
        /\ wrote' = (wrote \union written) \ {q \in {r} : Gone(q)}
    BY DEF Answer, Send, Over
  <1>2. /\ handler' = [handler EXCEPT ![r] = NoHandler]
        /\ ask' \in Asks
        /\ wrote' \subseteq Request
        /\ \A q \in Request : (~Gone(q) => ask'[q] = ask[q]) /\ (q # r => ask'[q] = ask[q])
        /\ \A q \in Request : q # r => (q \in wrote' <=> q \in wrote)
        /\ ~Gone(r) => (r \in wrote' <=> r \in wrote \union written)
        /\ Gone(r) => r \notin wrote'
    BY <1>1 DEF Shapes, Guis, Handlers, Asks, NoAsk
  <1>3. others \subseteq Sent
    BY Messages DEF Said
  <1>4. /\ gui[r].inbox \in Seq(Sent) /\ Len(gui[r].inbox) <= 1
        /\ \A i \in 1 .. Len(gui[r].inbox) : gui[r].inbox[i] = StartedMessage
    BY DEF Shapes, Guis, Handlers, Asks, OnTheWay
  <1>5. \/ gui' = gui
        \/ /\ ~Gone(r)
           /\ \E inbox \in Seq(Sent) :
                /\ gui' = [gui EXCEPT ![r].inbox = inbox]
                /\ Len(inbox) <= 2 /\ \A i \in 1 .. Len(inbox) : inbox[i] \in others
    <2>1. PICK messages \in {<<message>>, <<Result("internal_error")>>, <<Garbage>>, <<>>} :
             gui' = IF Gone(r) THEN gui ELSE [gui EXCEPT ![r].inbox = @ \o messages]
      BY <1>1
    <2> DEFINE q == gui[r].inbox
    <2>2. CASE messages = <<>>
      <3>1. q \o messages = q
        BY <1>4, <2>2, Messages, Appended
      <3>2. Len(q) \in Nat
        BY <1>4
      <3> QED
        BY <2>1, <3>1, <3>2, <1>4 DEF Shapes, Guis, Handlers, Asks
    <2>3. ASSUME NEW m \in others, messages = <<m>> PROVE <1>5!:
      <3>1. /\ q \o <<m>> \in Seq(Sent) /\ Len(q \o <<m>>) = Len(q) + 1
            /\ \A i \in 1 .. Len(q \o <<m>>) : IF i <= Len(q) THEN (q \o <<m>>)[i] = q[i]
                                                             ELSE (q \o <<m>>)[i] = m
        BY <1>3, <1>4, Appended
      <3>2. Len(q) \in Nat
        BY <1>4
      <3>3. \A i \in 1 .. Len(q \o <<m>>) : (q \o <<m>>)[i] \in others
        BY <3>1, <3>2, <1>4
      <3>4. ~Gone(r) => gui' = [gui EXCEPT ![r].inbox = q \o <<m>>]
        BY <2>1, <2>3 DEF Shapes, Guis, Handlers, Asks
      <3>5. Len(q \o <<m>>) <= 2
        BY <3>1, <3>2, <1>4
      <3> HIDE DEF others
      <3> QED
        BY <2>1, <3>1, <3>3, <3>4, <3>5
    <2> QED
      BY <2>1, <2>2, <2>3
  <1>6. /\ gui' \in Guis
        /\ \A q \in Request : gui'[q].state = gui[q].state /\ (q # r => gui'[q] = gui[q])
        /\ Len(gui'[r].inbox) <= 2 /\ (Gone(r) => gui'[r].inbox = gui[r].inbox)
        /\ \A i \in 1 .. Len(gui'[r].inbox) : gui'[r].inbox[i] \in others
    <2> HIDE DEF others
    <2>1. CASE gui' = gui
      <3>1. StartedMessage \in others
        BY DEF others
      <3>2. Len(gui[r].inbox) \in Nat
        BY <1>4
      <3> QED
        BY <2>1, <3>1, <3>2, <1>4 DEF Shapes, Guis, Handlers, Asks
    <2>2. ASSUME NEW inbox \in Seq(Sent), ~Gone(r), gui' = [gui EXCEPT ![r].inbox = inbox],
                 Len(inbox) <= 2, \A i \in 1 .. Len(inbox) : inbox[i] \in others
          PROVE  <1>6!:
      <3>1. gui'[r].inbox = inbox /\ gui'[r].state = gui[r].state /\ \A q \in Request : q # r => gui'[q] = gui[q]
        BY <2>2 DEF Shapes, Guis, Handlers, Asks
      <3>2. gui \in Guis
        BY DEF Shapes
      <3>3. gui' \in Guis
        BY <2>2, <3>2 DEF Guis
      <3> QED
        BY <2>2, <3>1, <3>3
    <2> QED
      BY <1>5, <2>1, <2>2
  <1>7. Wrote'
    BY <1>2, <1>6 DEF Wrote, Idle, Gone, NoHandler, Shapes, Guis, Handlers, Asks
  <1>8. OnTheWay'
    <2>1. \A q \in Request : q # r => handler'[q] = handler[q] /\ (Idle(q)' <=> Idle(q))
      BY <1>2 DEF Idle, Shapes, Guis, Handlers, Asks
    <2>2. Idle(r)'
      BY <1>2 DEF Idle, Shapes, Guis, Handlers, Asks, NoHandler
    <2>3. ASSUME NEW q \in Request, q # r PROVE OnTheWay!(q)'
      BY <2>1, <2>3, <1>2, <1>6 DEF OnTheWay, Honest
    <2>4. gui'[r].state \in {"none", "connecting"} => gui'[r].inbox = <<>>
      <3>1. gui[r].state # "connecting"
        BY DEF Wrote
      <3> QED
        BY <3>1, <1>6 DEF OnTheWay, Gone
    <2>5. ASSUME NEW i \in 1 .. Len(gui'[r].inbox)
          PROVE  (gui[r].inbox[i] = StartedMessage \/ Honest(r, gui[r].inbox[i]))'
      <3>1. CASE Gone(r)
        BY <3>1, <1>6 DEF OnTheWay, Gone
      <3>2. ASSUME ~Gone(r), gui'[r].inbox[i] = message PROVE Honest(r, gui[r].inbox[i])'
        BY <3>2, <1>2 DEF Honest
      <3>3. ASSUME gui'[r].inbox[i] \in {Result("internal_error"), Garbage}
            PROVE  Honest(r, gui[r].inbox[i])'
        <4>1. /\ gui'[r].inbox[i].result \notin Refusal \union {"success"}
              /\ gui'[r].inbox[i] # AuthResponse
          BY <3>3 DEF Result, Garbage, AuthResponse, Message, Refusal
        <4> QED
          BY <4>1 DEF Honest
      <3> QED
        BY <1>6, <3>1, <3>2, <3>3
    <2> QED
      BY <2>2, <2>3, <2>4, <2>5, <1>6, <1>2 DEF OnTheWay, NoHandler, Shapes, Guis, Handlers, Asks, Idle
  <1> QED
    BY <1>2, <1>6, <1>7, <1>8

\* A handler's answer keeps the invariant when what it says is true. Either it changed
\* nothing, or it changed the file and says so.
LEMMA AnswerKeeps ==
  ASSUME PageInv, NEW r \in Request, ~Idle(r),
         NEW message \in Sent, NEW written \in SUBSET {r}, Answer(r, message, written),
         written = {r} => ask[r].kind \in {"remove", "clear"},
         message.result = "success" /\ ask[r].kind \in {"remove", "clear", "enroll"} =>
           r \in wrote \union written,
         message.result \in Refusal \/ message = AuthResponse => r \notin wrote \union written,
         UNCHANGED <<page, up>>,
         lock' = FreeIf(r, lock) \/ (lock' = lock /\ lock # r),
         camera' = FreeIf(r, camera) \/ (camera' = camera /\ camera # r),
         \/ /\ UNCHANGED <<store, unseen>>
            /\ r = list /\ message.result = "success" => message.models = store
         \/ store' \subseteq Model /\ unseen' = (unseen \/ Gone(r)) /\ written = {r}
  PROVE  PageInv'
  <1>1. /\ gui' \in Guis /\ ask' \in Asks /\ handler' = [handler EXCEPT ![r] = NoHandler]
        /\ wrote' \subseteq Request /\ Wrote' /\ OnTheWay'
        /\ \A q \in Request : gui'[q].state = gui[q].state /\ (~Gone(q) => ask'[q] = ask[q])
        /\ \A q \in Request : q # r => gui'[q] = gui[q] /\ ask'[q] = ask[q] /\ (q \in wrote' <=> q \in wrote)
        /\ ~Gone(r) => (r \in wrote' <=> r \in wrote \union written)
        /\ \A i \in 1 .. Len(gui'[r].inbox) :
             gui'[r].inbox[i] \in {StartedMessage, message, Result("internal_error"), Garbage}
    BY AnswerStep DEF PageInv
  <1>2. UNCHANGED <<list, change, session, rows, error, up>>
    BY DEF page
  <1>3. /\ handler' \in Handlers /\ handler'[r] = NoHandler
        /\ \A q \in Request : q # r => handler'[q] = handler[q]
    BY <1>1 DEF PageInv, Shapes, Handlers, NoHandler, Doing, Ran
  <1>4. /\ {lock', camera'} \subseteq Request \union {NoRequest} /\ lock' # r /\ camera' # r
        /\ \A q \in Request : q # r => (lock' = q <=> lock = q) /\ (camera' = q <=> camera = q)
    BY RequestAssumption DEF FreeIf, PageInv, Shapes
  <1>5. Shapes'
    BY <1>1, <1>2, <1>3, <1>4 DEF PageInv, Shapes
  <1>6. PageAsks'
    BY <1>1, <1>2 DEF PageInv, PageAsks, Gone
  <1>7. Serves'
    BY <1>1, <1>3, <1>4 DEF PageInv, Serves, Serving, Camera, NoHandler
  <1>8. Fresh'
    <2>1. ASSUME NEW q \in {list, change, session}, q \in Request PROVE ~Gone(q)
      BY <2>1 DEF PageInv, PageAsks
    <2>2. wrote \subseteq Request
      BY DEF PageInv, Shapes
    <2>3. Expected => Expected'
      BY <1>1, <1>2, <2>1, <2>2 DEF Expected
    <2>4. CASE UNCHANGED <<store, unseen>> /\ (r = list /\ message.result = "success" => message.models = store)
      <3>1. ASSUME list \in Request, NEW i \in 1 .. Len(gui'[list].inbox), gui'[list].inbox[i].result = "success",
                   list = r
            PROVE  gui'[list].inbox[i].models = store
        <4>1. gui'[list].inbox[i] = message
          BY <3>1, <1>1, Messages DEF Said
        <4> QED
          BY <3>1, <4>1, <2>4
      <3> QED
        BY <1>1, <1>2, <2>3, <2>4, <3>1 DEF PageInv, Fresh
    <2>5. CASE unseen' = (unseen \/ Gone(r)) /\ written = {r}
      <3>1. CASE Gone(r)
        BY <3>1, <2>5 DEF Fresh
      <3>2. CASE ~Gone(r)
        <4>1. r \in {change, session}
          BY <3>2, <2>5 DEF PageInv, PageAsks
        <4> QED
          BY <3>2, <4>1, <1>1, <1>2, <2>5 DEF Fresh, Expected
      <3> QED
        BY <3>1, <3>2
    <2> QED
      BY <2>4, <2>5
  <1> QED
    BY <1>1, <1>5, <1>6, <1>7, <1>8 DEF PageInv

\* Every step with which a handler answers keeps the invariant.
LEMMA AnsweringStep ==
  ASSUME PageInv, NEW r \in Request,
         \/ ReadFails(r) \/ Refuse(r) \/ ListModels(r) \/ ChangeModels(r) \/ Release(r)
         \/ Lock(r) /\ lock # NoRequest
         \/ AcquireCamera(r) /\ camera' = camera
  PROVE  PageInv'
  <1>0. /\ \A q \in Request : Serving(q)
        /\ r \in wrote => handler[r].at \in {"none", "release"}
        /\ handler[r].at = "release" => (r \in wrote <=> handler[r].result = "success")
        /\ handler[r].result \in Ran /\ store \subseteq Model
        /\ r # NoRequest /\ {lock, camera} \subseteq Request \union {NoRequest}
    BY RequestAssumption DEF PageInv, Serves, Wrote, Shapes, Handlers
  <1>1. CASE ReadFails(r)
    <2>1. /\ handler[r].at = "read" /\ Answer(r, AuthResponse, {}) /\ UNCHANGED <<page, up, lock, camera, store, unseen>>
      BY <1>1 DEF ReadFails, daemon
    <2>2. ~Idle(r) /\ lock # r /\ camera # r /\ r \notin wrote
      BY <1>0, <2>1 DEF Serving, Camera, Idle
    <2> QED
      BY <2>1, <2>2, Messages, AnswerKeeps
  <1>2. CASE Refuse(r)
    <2>1. /\ handler[r].at = "read" /\ Answer(r, Result("forbidden"), {}) /\ UNCHANGED <<page, up, lock, camera, store, unseen>>
      BY <1>2 DEF Refuse, daemon
    <2>2. ~Idle(r) /\ lock # r /\ camera # r /\ r \notin wrote
      BY <1>0, <2>1 DEF Serving, Camera, Idle
    <2>3. "forbidden" \in Said
      BY DEF Said, Refusal
    <2> QED
      BY <2>1, <2>2, <2>3, Messages, AnswerKeeps
  <1>3. CASE ListModels(r)
    <2> DEFINE message == Message("result", "success", store)
    <2>1. /\ handler[r].at = "list" /\ Answer(r, message, {}) /\ UNCHANGED <<page, up, lock, camera, store, unseen>>
      BY <1>3 DEF ListModels, daemon
    <2>2. ~Idle(r) /\ lock # r /\ camera # r /\ ask[r].kind = "list"
      BY <1>0, <2>1 DEF Serving, Camera, Idle
    <2>3. message \in Sent /\ message.result = "success" /\ message.models = store /\ message # AuthResponse
      BY <1>0 DEF Message, Sent, Said, AuthResponse
    <2>4. "success" \notin Refusal
      BY DEF Refusal
    <2> HIDE DEF message
    <2> QED
      BY <2>1, <2>2, <2>3, <2>4, AnswerKeeps
  <1>4. CASE ChangeModels(r)
    <2> DEFINE kept == IF ask[r].kind = "clear" THEN {} ELSE store \ {ask[r].model}
    <2>1. handler[r].at = "change" /\ lock' = NoRequest /\ UNCHANGED <<page, camera, up>>
      BY <1>4 DEF ChangeModels
    <2>2. /\ ~Idle(r) /\ lock = r /\ camera # r /\ r \notin wrote /\ ask[r].kind \in {"remove", "clear"}
          /\ lock' = FreeIf(r, lock)
      BY <1>0, <2>1 DEF Serving, Camera, Idle, FreeIf
    <2>3. CASE store' = kept /\ unseen' = (unseen \/ Gone(r)) /\ Answer(r, Result("success"), {r})
      <3>1. store' = kept /\ unseen' = (unseen \/ Gone(r)) /\ Answer(r, Result("success"), {r})
        BY <2>3
      <3>2. kept \subseteq Model /\ "success" \in Said /\ "success" \notin Refusal
        BY <1>0 DEF Said, Refusal
      <3>3. store' \subseteq Model
        BY <3>1, <3>2
      <3> QED
        BY <2>1, <2>2, <3>1, <3>2, <3>3, Messages, AnswerKeeps
    <2>4. CASE /\ UNCHANGED <<store, unseen>>
               /\ \E refused \in {"no_models", "model_not_found", "internal_error"} :
                    Answer(r, Result(refused), {})
      <3>1. UNCHANGED <<store, unseen>>
        BY <2>4
      <3>2. PICK refused \in {"no_models", "model_not_found", "internal_error"} :
              Answer(r, Result(refused), {})
        BY <2>4
      <3>3. refused \in Said /\ refused # "success"
        BY DEF Said, Refusal
      <3> QED
        BY <2>1, <2>2, <3>1, <3>2, <3>3, Messages, AnswerKeeps
    <2> QED
      BY <1>4, <2>3, <2>4 DEF ChangeModels, Store
  <1>5. CASE Release(r)
    <2>1. /\ handler[r].at = "release" /\ camera' = FreeIf(r, camera) /\ lock' = FreeIf(r, lock)
          /\ Answer(r, Result(Outcome(r)), {}) /\ UNCHANGED <<page, store, up, unseen>>
      BY <1>5 DEF Release
    <2>2. /\ ~Idle(r) /\ ask[r].kind \in {"enroll", "test"}
      BY <1>0, <2>1 DEF Serving, Idle
    <2>3. /\ Outcome(r) \in Said
          /\ Outcome(r) = "success" => r \in wrote
          /\ Outcome(r) \in Refusal => r \notin wrote
      BY <1>0, <2>1 DEF Outcome, Said, Refusal, Ran
    <2>4. r = list => FALSE
      BY <2>2 DEF PageInv, PageAsks
    <2> QED
      BY <2>1, <2>2, <2>3, <2>4, Messages, AnswerKeeps
  <1>6. CASE Lock(r) /\ lock # NoRequest
    <2>1. /\ handler[r].at = "lock" /\ Answer(r, Result("busy"), {}) /\ UNCHANGED <<page, up, lock, camera, store, unseen>>
      BY <1>6 DEF Lock
    <2>2. ~Idle(r) /\ lock # r /\ camera # r /\ r \notin wrote
      BY <1>0, <2>1 DEF Serving, Camera, Idle
    <2>3. "busy" \in Said /\ "busy" # "success"
      BY DEF Said, Refusal
    <2> QED
      BY <2>1, <2>2, <2>3, Messages, AnswerKeeps
  <1>7. CASE AcquireCamera(r) /\ camera' = camera
    <2>1. handler[r].at = "camera" /\ UNCHANGED <<page, store, up, unseen>>
      BY <1>7 DEF AcquireCamera
    <2>2. ~Idle(r) /\ camera # r /\ r \notin wrote
      BY <1>0, <2>1 DEF Serving, Camera, Idle
    <2>3. Answer(r, Result("busy"), {}) /\ lock' = FreeIf(r, lock)
      BY <1>0, <1>7 DEF AcquireCamera
    <2>4. "busy" \in Said /\ "busy" # "success"
      BY DEF Said, Refusal
    <2> QED
      BY <1>7, <2>1, <2>2, <2>3, <2>4, Messages, AnswerKeeps
  <1> QED
    BY <1>1, <1>2, <1>3, <1>4, <1>5, <1>6, <1>7

\* A handler goes on without a word to its page.
LEMMA SilentKeeps ==
  ASSUME PageInv, NEW r \in Request, ~Idle(r), ~Idle(r)', handler' \in Handlers,
         \A q \in Request : q # r => handler'[q] = handler[q],
         UNCHANGED <<ask, gui, wrote, page, store, up, unseen>>,
         lock' = lock \/ (lock = NoRequest /\ lock' = r),
         camera' = camera \/ (camera = NoRequest /\ camera' = r),
         Serving(r)',
         handler'[r].at \in {"read", "list", "lock", "change", "camera", "started"} =>
           handler[r].at \in {"read", "list", "lock", "change", "camera", "started"},
         r \in wrote => handler'[r].at = "release",
         handler'[r].at = "release" => (r \in wrote <=> handler'[r].result = "success")
  PROVE  PageInv'
  <1>1. UNCHANGED <<list, change, session, rows, error>>
    BY DEF page
  <1>2. /\ {lock', camera'} \subseteq Request \union {NoRequest}
        /\ \A q \in Request : q # r => (lock' = q <=> lock = q) /\ (camera' = q <=> camera = q)
    BY RequestAssumption DEF PageInv, Shapes
  <1>3. Shapes'
    BY <1>1, <1>2 DEF PageInv, Shapes
  <1>4. PageAsks'
    BY <1>1 DEF PageInv, PageAsks, Gone
  <1>5. Serves'
    BY <1>2 DEF PageInv, Serves, Serving
  <1>6. \A q \in Request : Idle(q)' <=> Idle(q)
    BY DEF Idle
  <1>7. Wrote'
    BY <1>6 DEF PageInv, Wrote, Gone
  <1>8. OnTheWay'
    BY <1>6 DEF PageInv, OnTheWay, Honest
  <1>9. Fresh'
    BY <1>1 DEF PageInv, Fresh, Expected
  <1> QED
    BY <1>3, <1>4, <1>5, <1>7, <1>8, <1>9 DEF PageInv

\* Every step with which a handler goes on without a word keeps the invariant.
LEMMA SilentStep ==
  ASSUME PageInv, NEW r \in Request,
         \/ Read(r) \/ Watch(r) \/ Preempt(r) \/ SessionRuns(r) \/ SessionStops(r) \/ Captured(r)
         \/ Lock(r) /\ lock = NoRequest
         \/ AcquireCamera(r) /\ camera' # camera
  PROVE  PageInv'
  <1>0. /\ Serving(r) /\ handler \in Handlers /\ r # NoRequest
        /\ r \in wrote => handler[r].at \in {"none", "release"}
        /\ handler[r].at = "release" => (r \in wrote <=> handler[r].result = "success")
        /\ ask[r].kind \in Kind \union {"none"}
    BY RequestAssumption DEF PageInv, Serves, Wrote, Shapes, Asks
  <1> USE DEF Serving, Camera, Idle, Kind, Handlers, Doing, Ran
  <1>1. CASE Read(r)
    <2>1. /\ handler[r].at = "read" /\ UNCHANGED <<ask, gui, wrote, page, store, lock, camera, up, unseen>>
      BY <1>0, <1>1 DEF Read, daemon
    <2> DEFINE next == CASE ask[r].kind = "list" -> "list"
                         [] ask[r].kind = "test" -> "camera"
                         [] OTHER -> "lock"
    <2>2. handler' = [handler EXCEPT ![r].at = next] /\ next \in {"list", "camera", "lock"}
      BY <1>1 DEF Read, Go
    <2>3. /\ handler' \in Handlers /\ handler'[r].at = next
          /\ \A q \in Request : q # r => handler'[q] = handler[q]
      BY <1>0, <2>2
    <2>4. /\ next = "list" => ask[r].kind = "list"
          /\ next = "camera" => ask[r].kind = "test"
          /\ next = "lock" => ask[r].kind \in {"remove", "clear", "enroll"}
      BY <1>0, <2>1
    <2> HIDE DEF next
    <2>5. Serving(r)' /\ r \notin wrote
      BY <1>0, <2>1, <2>2, <2>3, <2>4
    <2> QED
      BY <1>0, <2>1, <2>2, <2>3, <2>5, SilentKeeps
  <1>2. CASE Watch(r) \/ Preempt(r)
    <2>1. /\ handler[r].at \in Camera /\ UNCHANGED <<ask, gui, wrote, page, store, lock, camera, up, unseen>>
          /\ \E reason \in {"client", "login"} : handler' = [handler EXCEPT ![r].cancelled = reason]
      BY <1>0, <1>2 DEF Watch, Preempt, CancelFor, InSession, daemon
    <2>2. /\ handler' \in Handlers /\ handler'[r].at = handler[r].at /\ handler'[r].result = handler[r].result
          /\ \A q \in Request : q # r => handler'[q] = handler[q]
      BY <1>0, <2>1
    <2> QED
      BY <1>0, <2>1, <2>2, SilentKeeps
  <1>3. CASE SessionRuns(r) \/ SessionStops(r)
    <2>1. /\ handler[r].at \in {"session", "captured"}
          /\ UNCHANGED <<ask, gui, wrote, page, store, lock, camera, up, unseen>>
          /\ \/ Go(r, "captured") /\ ask[r].kind = "enroll"
             \/ \E left \in Ran \ {"success"} : End(r, left)
      BY <1>3 DEF SessionRuns, SessionStops, daemon
    <2>2. /\ handler' \in Handlers
          /\ \/ handler'[r].at = "captured" /\ ask[r].kind = "enroll"
             \/ handler'[r].at = "release" /\ handler'[r].result # "success"
          /\ \A q \in Request : q # r => handler'[q] = handler[q]
      BY <1>0, <2>1 DEF Go, End
    <2> QED
      BY <1>0, <2>1, <2>2, SilentKeeps
  <1>4. CASE Captured(r)
    <2>1. /\ handler[r].at = "captured" /\ Go(r, "write")
          /\ UNCHANGED <<ask, gui, wrote, page, store, lock, camera, up, unseen>>
      BY <1>4 DEF Captured, daemon
    <2>2. /\ handler' \in Handlers /\ handler'[r].at = "write"
          /\ \A q \in Request : q # r => handler'[q] = handler[q]
      BY <1>0, <2>1 DEF Go
    <2> QED
      BY <1>0, <2>1, <2>2, SilentKeeps
  <1>5. CASE Lock(r) /\ lock = NoRequest
    <2>1. /\ handler[r].at = "lock" /\ lock' = r
          /\ Go(r, IF ask[r].kind = "enroll" THEN "camera" ELSE "change")
          /\ UNCHANGED <<ask, gui, wrote, page, store, camera, up, unseen>>
      BY <1>5 DEF Lock
    <2>2. /\ handler' \in Handlers
          /\ handler'[r].at = IF ask[r].kind = "enroll" THEN "camera" ELSE "change"
          /\ \A q \in Request : q # r => handler'[q] = handler[q]
      BY <1>0, <2>1 DEF Go
    <2> QED
      BY <1>0, <1>5, <2>1, <2>2, SilentKeeps
  <1>6. CASE AcquireCamera(r) /\ camera' # camera
    <2>1. /\ handler[r].at = "camera" /\ camera = NoRequest /\ camera' = r /\ Go(r, "started")
          /\ UNCHANGED <<ask, gui, wrote, page, store, lock, up, unseen>>
      BY <1>6 DEF AcquireCamera
    <2>2. /\ handler' \in Handlers /\ handler'[r].at = "started"
          /\ \A q \in Request : q # r => handler'[q] = handler[q]
      BY <1>0, <2>1 DEF Go
    <2> QED
      BY <1>0, <2>1, <2>2, SilentKeeps
  <1> QED
    BY <1>1, <1>2, <1>3, <1>4, <1>5, <1>6

\* "started" is sent to a page that is still there.
LEMMA SendStartedStep ==
  ASSUME PageInv, NEW r \in Request, SendStarted(r)
  PROVE  PageInv'
  <1>0. /\ Serving(r) /\ handler \in Handlers /\ gui \in Guis /\ handler[r].at = "started"
        /\ r \notin wrote /\ gui[r].inbox = <<>>
    BY DEF PageInv, Serves, Wrote, Shapes, SendStarted, OnTheWay
  <1>1. UNCHANGED <<ask, wrote, list, change, session, rows, error, store, lock, camera, up, unseen>>
    BY DEF SendStarted, page, daemon, Go, End
  <1>2. /\ handler' \in Handlers
        /\ handler'[r].at = "session" \/ (handler'[r].at = "release" /\ handler'[r].result = "internal_error")
        /\ \A q \in Request : q # r => handler'[q] = handler[q]
    BY <1>0 DEF SendStarted, Go, End, Handlers, Doing, Ran
  <1>3. /\ gui' \in Guis
        /\ \A q \in Request : gui'[q].state = gui[q].state /\ (q # r => gui'[q] = gui[q])
        /\ gui'[r].inbox = IF Gone(r) THEN <<>> ELSE <<StartedMessage>>
    <2>1. gui' = IF Gone(r) THEN gui ELSE [gui EXCEPT ![r].inbox = <<>> \o <<StartedMessage>>]
      BY <1>0 DEF SendStarted, Send, StartedMessage, Guis
    <2>2. <<>> \o <<StartedMessage>> = <<StartedMessage>> /\ <<StartedMessage>> \in Seq(Sent)
      BY Messages
    <2> QED
      BY <1>0, <2>1, <2>2 DEF Guis
  <1>4. \A q \in Request : (Gone(q)' <=> Gone(q)) /\ (Idle(q)' <=> Idle(q))
    BY <1>0, <1>2, <1>3 DEF Gone, Idle
  <1>5. Shapes' /\ PageAsks'
    BY <1>1, <1>2, <1>3, <1>4 DEF PageInv, Shapes, PageAsks
  <1>6. Serves'
    BY <1>0, <1>1, <1>2 DEF PageInv, Serves, Serving, Camera
  <1>7. Wrote'
    BY <1>0, <1>1, <1>2, <1>3, <1>4 DEF PageInv, Wrote
  <1>8. OnTheWay'
    <2>1. OnTheWay!(r)'
      <3>1. Len(gui'[r].inbox) <= 1 /\ \A i \in 1 .. Len(gui'[r].inbox) : gui'[r].inbox[i] = StartedMessage
        BY <1>3
      <3>2. gui'[r].state \in {"none", "connecting"} => gui'[r].inbox = <<>>
        BY <1>0, <1>3 DEF PageInv, Wrote, Gone, Idle
      <3> QED
        BY <1>0, <1>2, <3>1, <3>2 DEF Idle
    <2>2. ASSUME NEW q \in Request, q # r PROVE OnTheWay!(q)'
      BY <2>2, <1>1, <1>2, <1>3, <1>4 DEF PageInv, OnTheWay, Honest
    <2> QED
      BY <2>1, <2>2 DEF OnTheWay
  <1>9. Fresh'
    <2>1. list # r
      BY <1>0 DEF PageInv, PageAsks, Serving
    <2> QED
      BY <1>1, <1>3, <2>1 DEF PageInv, Fresh, Expected
  <1> QED
    BY <1>5, <1>6, <1>7, <1>8, <1>9 DEF PageInv

\* An enrollment writes its model, or fails to.
LEMMA WriteModelStep ==
  ASSUME PageInv, NEW r \in Request, WriteModel(r)
  PROVE  PageInv'
  <1>0. /\ Serving(r) /\ handler \in Handlers /\ handler[r].at = "write" /\ r \notin wrote
        /\ ask[r].kind = "enroll" /\ store \subseteq Model /\ wrote \subseteq Request /\ unseen \in BOOLEAN
    BY DEF PageInv, Serves, Serving, Wrote, Shapes, WriteModel
  <1>1. UNCHANGED <<ask, gui, list, change, session, rows, error, lock, camera, up>>
    BY DEF WriteModel, page
  <1>2. /\ handler' \in Handlers /\ handler'[r].at = "release"
        /\ \A q \in Request : q # r => handler'[q] = handler[q]
        /\ \/ /\ handler'[r].result = "success" /\ wrote' = wrote \union {r}
              /\ unseen' = (unseen \/ Gone(r)) /\ store' \subseteq Model
           \/ handler'[r].result = "internal_error" /\ UNCHANGED <<store, wrote, unseen>>
    BY <1>0 DEF WriteModel, Store, End, Handlers, Doing, Ran
  <1>3. \A q \in Request : Idle(q)' <=> Idle(q)
    BY <1>0, <1>2 DEF Idle
  <1>4. Shapes' /\ PageAsks'
    BY <1>0, <1>1, <1>2 DEF PageInv, Shapes, PageAsks, Gone
  <1>5. Serves'
    BY <1>0, <1>1, <1>2 DEF PageInv, Serves, Serving, Camera
  <1>6. Wrote'
    BY <1>0, <1>1, <1>2, <1>3 DEF PageInv, Wrote, Gone, Idle
  <1>7. OnTheWay'
    <2>1. ASSUME NEW q \in Request PROVE OnTheWay!(q)'
      <3>1. q # r => (q \in wrote' <=> q \in wrote)
        BY <1>2
      <3> QED
        BY <1>0, <1>1, <1>2, <1>3, <3>1 DEF PageInv, OnTheWay, Honest, Idle
    <2> QED
      BY <2>1 DEF OnTheWay
  <1>8. Fresh'
    <2>1. CASE handler'[r].result = "internal_error"
      BY <1>1, <1>2, <2>1 DEF PageInv, Fresh, Expected
    <2>2. CASE wrote' = wrote \union {r} /\ unseen' = (unseen \/ Gone(r))
      <3>1. ~Gone(r) => r \in {change, session}
        BY <1>0 DEF PageInv, PageAsks
      <3> QED
        BY <1>1, <2>2, <3>1 DEF Fresh, Expected
    <2> QED
      BY <1>2, <2>1, <2>2
  <1> QED
    BY <1>4, <1>5, <1>6, <1>7, <1>8 DEF PageInv

\* The page deletes requests and reads the list again.
LEMMA ReloadKeeps ==
  ASSUME PageInv, NEW deleted \in {{}, {change}, {session}}, Reload(deleted),
         change' = IF change \in deleted THEN NoRequest ELSE change,
         session' = IF session \in deleted THEN NoRequest ELSE session,
         UNCHANGED <<rows, error>>
  PROVE  PageInv'
  <1>1. PICK new \in Free(deleted \union {list}) :
          Turn(deleted \union {list}, new, "list", "none") /\ list' = new /\ unseen' = FALSE
    BY DEF Reload
  <1>2. "list" \in Kind \union {"none"} /\ "none" \in Model \union {"none"}
    BY DEF Kind
  <1>3. /\ gui' \in Guis /\ ask' \in Asks /\ wrote' \subseteq Request
        /\ UNCHANGED <<handler, store, lock, camera, up>>
        /\ Serves' /\ Wrote' /\ OnTheWay'
        /\ new \in Request => ~Gone(new)' /\ ask'[new].kind = "list" /\ gui'[new].inbox = <<>>
        /\ \A q \in Request : q # new => (Gone(q)' <=> Gone(q) \/ q \in deleted \union {list})
        /\ \A q \in Request : q # new /\ q \notin deleted \union {list} =>
             gui'[q] = gui[q] /\ ask'[q] = ask[q] /\ (q \in wrote' <=> q \in wrote)
    BY <1>1, <1>2, TurnStep DEF PageInv
  <1>4. new \in Request /\ (Gone(new) \/ new \in deleted \union {list})
    BY <1>1 DEF Free
  <1>5. Shapes'
    BY <1>1, <1>3, <1>4 DEF PageInv, Shapes
  <1>6. PageAsks'
    <2>1. /\ list \in Request => ask[list].kind = "list"
          /\ change \in Request => ask[change].kind \in {"remove", "clear"}
          /\ session \in Request => ask[session].kind \in {"enroll", "test"}
          /\ \A q \in Request : Gone(q) <=> q \notin {list, change, session}
      BY DEF PageInv, PageAsks
    <2>2. change' \in Request => change' = change /\ change # new /\ change \notin deleted \union {list}
      BY <1>4, <2>1, RequestAssumption
    <2>3. session' \in Request => session' = session /\ session # new /\ session \notin deleted \union {list}
      BY <1>4, <2>1, RequestAssumption
    <2>4. ASSUME NEW q \in Request PROVE Gone(q)' <=> q \notin {list', change', session'}
      <3>1. CASE q = new
        BY <3>1, <1>1, <1>3
      <3>2. CASE q # new
        BY <3>2, <1>1, <1>3, <2>1, <2>2, <2>3, RequestAssumption
      <3> QED
        BY <3>1, <3>2
    <2> QED
      BY <1>1, <1>3, <1>4, <2>1, <2>2, <2>3, <2>4 DEF PageAsks
  <1>7. Fresh'
    BY <1>1, <1>3, <1>4, RequestAssumption DEF Fresh
  <1> QED
    BY <1>3, <1>5, <1>6, <1>7 DEF PageInv

\* The page deletes a request and asks for nothing in its place.
LEMMA DeleteKeeps ==
  ASSUME PageInv, NEW r \in Request, r \in {list, session}, Delete({r}), change' = change,
         list' = IF r = list THEN NoRequest ELSE list,
         session' = IF r = session THEN NoRequest ELSE session,
         \/ /\ r = list /\ unseen' = unseen /\ rows' \subseteq Model /\ error' \in BOOLEAN
            /\ error' \/ unseen \/ Expected \/ rows' = store
         \/ /\ r = session /\ unseen' = (unseen \/ r \in wrote) /\ UNCHANGED <<rows, error>>
  PROVE  PageInv'
  <1>1. "none" \in Kind \union {"none"} /\ "none" \in Model \union {"none"}
    OBVIOUS
  <1>2. /\ gui' \in Guis /\ ask' \in Asks /\ wrote' \subseteq Request
        /\ UNCHANGED <<handler, store, lock, camera, up>>
        /\ Serves' /\ Wrote' /\ OnTheWay'
        /\ \A q \in Request : Gone(q)' <=> Gone(q) \/ q = r
        /\ \A q \in Request : q # r => gui'[q] = gui[q] /\ ask'[q] = ask[q] /\ (q \in wrote' <=> q \in wrote)
    BY <1>1, TurnStep, RequestAssumption DEF PageInv, Delete
  <1>3. /\ list \in Request => ask[list].kind = "list"
        /\ change \in Request => ask[change].kind \in {"remove", "clear"}
        /\ session \in Request => ask[session].kind \in {"enroll", "test"}
        /\ \A q \in Request : Gone(q) <=> q \notin {list, change, session}
    BY DEF PageInv, PageAsks
  <1>4. Shapes'
    BY <1>2 DEF PageInv, Shapes
  <1>5. PageAsks'
    BY <1>2, <1>3, RequestAssumption DEF PageAsks
  <1>6. Fresh'
    <2>1. wrote \subseteq Request
      BY DEF PageInv, Shapes
    <2>2. CASE r = list
      <3>1. change # r /\ session # r
        BY <1>3, <2>2
      <3>2. Expected => Expected'
        BY <1>2, <2>1, <2>2, <3>1 DEF Expected
      <3> QED
        BY <1>2, <2>2, <3>1, <3>2, RequestAssumption DEF Fresh
    <2>3. CASE r = session
      <3>1. change # r /\ list # r
        BY <1>3, <2>3
      <3>2. Expected => unseen' \/ Expected'
        BY <1>2, <2>1, <2>3, <3>1 DEF Expected
      <3> QED
        BY <1>2, <2>3, <3>1, <3>2 DEF PageInv, Fresh
    <2> QED
      BY <2>2, <2>3
  <1> QED
    BY <1>2, <1>4, <1>5, <1>6 DEF PageInv

\* The page asks for a change or for a session.
LEMMA NewRequestKeeps ==
  ASSUME PageInv, NEW new \in Free({}), NEW kind \in Kind, NEW model \in Model \union {"none"},
         Turn({}, new, kind, model), UNCHANGED <<list, rows, error, unseen>>,
         \/ kind \in {"remove", "clear"} /\ change = NoRequest /\ change' = new /\ session' = session
         \/ kind \in {"enroll", "test"} /\ session = NoRequest /\ session' = new /\ change' = change
  PROVE  PageInv'
  <1>1. new \in Request /\ Gone(new) /\ Idle(new)
    BY DEF Free
  <1>2. /\ gui' \in Guis /\ ask' \in Asks /\ wrote' \subseteq Request
        /\ UNCHANGED <<handler, store, lock, camera, up>>
        /\ Serves' /\ Wrote' /\ OnTheWay'
        /\ ~Gone(new)' /\ ask'[new].kind = kind
        /\ \A q \in Request : q # new => (Gone(q)' <=> Gone(q))
        /\ \A q \in Request : q # new => gui'[q] = gui[q] /\ ask'[q] = ask[q] /\ (q \in wrote' <=> q \in wrote)
    BY <1>1, TurnStep DEF PageInv
  <1>3. /\ list \in Request => ask[list].kind = "list"
        /\ change \in Request => ask[change].kind \in {"remove", "clear"}
        /\ session \in Request => ask[session].kind \in {"enroll", "test"}
        /\ \A q \in Request : Gone(q) <=> q \notin {list, change, session}
    BY DEF PageInv, PageAsks
  <1>4. new \notin {list, change, session}
    BY <1>1, <1>3
  <1>5. Shapes'
    BY <1>1, <1>2 DEF PageInv, Shapes
  <1>6. PageAsks'
    BY <1>1, <1>2, <1>3, <1>4, RequestAssumption DEF PageAsks
  <1>7. Fresh'
    <2>1. wrote \subseteq Request
      BY DEF PageInv, Shapes
    <2>2. Expected => Expected'
      BY <1>2, <1>4, <2>1, RequestAssumption DEF Expected
    <2> QED
      BY <1>2, <1>4, <2>2 DEF PageInv, Fresh
  <1> QED
    BY <1>2, <1>5, <1>6, <1>7 DEF PageInv

\* The end of a request is the page's affair alone.
LEMMA DaemonStays ==
  ASSUME NEW r, NEW said, NEW models, Finish(r, said, models)
  PROVE  UNCHANGED <<handler, daemon>>
  BY DEF Finish, ListEnds, ChangeEnds, SessionEnds, Reload, Delete, Turn

\* A request comes to its end with a result, of the daemon or made up by the page.
LEMMA FinishStep ==
  ASSUME PageInv, NEW r \in Request, NEW said, NEW models, Finish(r, said, models),
         UNCHANGED <<handler, daemon>>,
         r = list /\ said = "success" => models \subseteq Model /\ (unseen \/ Expected \/ models = store)
  PROVE  PageInv'
  <1>1. CASE r = list /\ ListEnds(r, said, models)
    BY <1>1, DeleteKeeps, RequestAssumption DEF ListEnds, PageInv, PageAsks
  <1>2. CASE r = change /\ ChangeEnds(r)
    BY <1>2, ReloadKeeps, RequestAssumption DEF ChangeEnds, PageInv, PageAsks
  <1>3. CASE r = session /\ SessionEnds(r, said)
    <2>1. r # change /\ r # list
      BY <1>3 DEF PageInv, PageAsks
    <2>2. CASE said = "success"
      BY <1>3, <2>1, <2>2, ReloadKeeps DEF SessionEnds
    <2>3. CASE said # "success"
      BY <1>3, <2>1, <2>3, DeleteKeeps DEF SessionEnds
    <2> QED
      BY <2>2, <2>3
  <1> QED
    BY <1>1, <1>2, <1>3 DEF Finish

\* The daemon takes the connection, or there is none.
LEMMA ConnectStep ==
  ASSUME PageInv, NEW r \in Request, Connect(r)
  PROVE  PageInv'
  <1>1. CASE Finish(r, "daemon_unavailable", {})
    <2>1. UNCHANGED <<handler, daemon>>
      BY <1>1, DaemonStays
    <2> QED
      BY <1>1, <2>1, FinishStep
  <1>2. ASSUME NEW place \in {"read", "none"}, gui[r].state = "connecting",
               gui' = [gui EXCEPT ![r].state = "waiting"], handler' = [handler EXCEPT ![r].at = place],
               UNCHANGED <<ask, wrote, page, daemon, unseen>>
        PROVE  PageInv'
    <2>1. /\ Shapes /\ PageAsks /\ Serving(r) /\ Idle(r) /\ r \notin wrote /\ gui[r].inbox = <<>>
      BY <1>2 DEF PageInv, Serves, Wrote, OnTheWay
    <2>2. UNCHANGED <<ask, wrote, list, change, session, rows, error, store, lock, camera, up, unseen>>
      BY <1>2 DEF page, daemon
    <2>3. /\ gui' \in Guis /\ handler' \in Handlers
          /\ gui'[r].state = "waiting" /\ handler'[r].at = place
          /\ \A q \in Request : gui'[q].inbox = gui[q].inbox /\ handler'[q].result = handler[q].result
          /\ \A q \in Request : q # r => gui'[q] = gui[q] /\ handler'[q] = handler[q]
      <3>1. gui \in Guis /\ handler \in Handlers
        BY <2>1 DEF Shapes
      <3>2. gui' \in Guis /\ gui'[r].state = "waiting"
        BY <1>2, <3>1 DEF Guis
      <3>3. \A q \in Request : gui'[q].inbox = gui[q].inbox /\ (q # r => gui'[q] = gui[q])
        BY <1>2, <3>1 DEF Guis
      <3>4. place \in Doing
        BY <1>2 DEF Doing
      <3>5. handler' \in Handlers /\ handler'[r].at = place
        BY <1>2, <3>1, <3>4 DEF Handlers
      <3>6. \A q \in Request : handler'[q].result = handler[q].result /\ (q # r => handler'[q] = handler[q])
        BY <1>2, <3>1 DEF Handlers
      <3> QED
        BY <3>2, <3>3, <3>5, <3>6
    <2>4. \A q \in Request : (Gone(q)' <=> Gone(q)) /\ (q # r => (Idle(q)' <=> Idle(q)))
      BY <1>2, <2>3 DEF Gone, Idle
    <2>5. Shapes' /\ PageAsks'
      BY <2>1, <2>2, <2>3, <2>4 DEF Shapes, PageAsks
    <2>6. Serves'
      <3>1. ask[r].kind # "none"
        BY <1>2, <2>1 DEF PageAsks, Gone
      <3>2. Serving(r)'
        BY <2>1, <2>2, <2>3, <3>1 DEF Serving, Camera, Idle
      <3> QED
        BY <2>2, <2>3, <3>2 DEF PageInv, Serves, Serving
    <2>7. Wrote'
      BY <2>1, <2>2, <2>3, <2>4 DEF PageInv, Wrote
    <2>8. OnTheWay'
      <3>1. OnTheWay!(r)'
        BY <2>1, <2>3 DEF Idle
      <3>2. ASSUME NEW q \in Request, q # r PROVE OnTheWay!(q)'
        BY <2>2, <2>3, <2>4, <3>2 DEF PageInv, OnTheWay, Honest
      <3> QED
        BY <3>1, <3>2 DEF OnTheWay
    <2>9. Fresh'
      BY <2>2, <2>3 DEF PageInv, Fresh, Expected
    <2> QED
      BY <2>5, <2>6, <2>7, <2>8, <2>9 DEF PageInv
  <1> QED
    BY <1>1, <1>2 DEF Connect

\* The page reads what the daemon sent.
LEMMA ReceiveStep ==
  ASSUME PageInv, NEW r \in Request, Receive(r)
  PROVE  PageInv'
  <1> DEFINE message == Head(gui[r].inbox)
  <1>1. /\ gui[r].inbox \in Seq(Sent) /\ gui[r].inbox # <<>>
        /\ message = gui[r].inbox[1] /\ 1 \in 1 .. Len(gui[r].inbox) /\ message \in Sent
    BY FirstRead DEF PageInv, Shapes, Guis, Receive
  <1>2. ASSUME NEW said, NEW models, Finish(r, said, models),
               r = list /\ said = "success" => said = message.result /\ models = message.models
        PROVE  PageInv'
    <2>1. UNCHANGED <<handler, daemon>>
      BY <1>2, DaemonStays
    <2>2. r = list /\ said = "success" => models \subseteq Model /\ (unseen \/ Expected \/ models = store)
      BY <1>1, <1>2 DEF PageInv, Fresh, Sent
    <2> QED
      BY <1>2, <2>1, <2>2, FinishStep
  <1>3. ASSUME gui' = [gui EXCEPT ![r].state = "running", ![r].inbox = Tail(@)],
               UNCHANGED <<ask, handler, wrote, page, daemon, unseen>>
        PROVE  PageInv'
    <2>1. UNCHANGED <<ask, wrote, handler, list, change, session, rows, error, store, lock, camera, up, unseen>>
      BY <1>3 DEF page, daemon
    <2>2. /\ Tail(gui[r].inbox) \in Seq(Sent) /\ Len(Tail(gui[r].inbox)) = Len(gui[r].inbox) - 1
          /\ \A i \in 1 .. Len(Tail(gui[r].inbox)) :
               Tail(gui[r].inbox)[i] = gui[r].inbox[i + 1] /\ i + 1 \in 1 .. Len(gui[r].inbox)
      BY <1>1, FirstRead
    <2>3. /\ gui' \in Guis /\ gui'[r].state = "running" /\ gui'[r].inbox = Tail(gui[r].inbox)
          /\ \A q \in Request : q # r => gui'[q] = gui[q]
      BY <1>3, <2>2 DEF PageInv, Shapes, Guis
    <2>4. gui[r].state \notin {"none", "connecting"}
      BY <1>1 DEF PageInv, OnTheWay
    <2>5. \A q \in Request : Gone(q)' <=> Gone(q)
      BY <2>3, <2>4 DEF Gone
    <2>6. Shapes' /\ PageAsks' /\ Serves'
      BY <2>1, <2>3, <2>5 DEF PageInv, Shapes, PageAsks, Serves, Serving
    <2>7. Wrote'
      BY <2>1, <2>3, <2>5 DEF PageInv, Wrote, Idle
    <2>8. OnTheWay'
      <3>1. OnTheWay!(r)'
        <4>1. handler[r].at \notin {"read", "list", "lock", "change", "camera", "started"}
          BY <1>1 DEF PageInv, OnTheWay
        <4>2. Len(gui'[r].inbox) <= (IF Idle(r) THEN 2 ELSE 1)
          BY <1>1, <2>2, <2>3 DEF PageInv, OnTheWay
        <4>3. ASSUME NEW i \in 1 .. Len(gui'[r].inbox)
              PROVE  IF Idle(r) THEN gui'[r].inbox[i] = StartedMessage \/ Honest(r, gui'[r].inbox[i])
                                ELSE gui'[r].inbox[i] = StartedMessage
          BY <2>2, <2>3 DEF PageInv, OnTheWay
        <4> QED
          BY <2>1, <2>3, <4>1, <4>2, <4>3 DEF Idle, Honest
      <3>2. ASSUME NEW q \in Request, q # r PROVE OnTheWay!(q)'
        BY <2>1, <2>3, <3>2 DEF PageInv, OnTheWay, Honest, Idle
      <3> QED
        BY <3>1, <3>2 DEF OnTheWay
    <2>9. Fresh'
      <3>1. CASE r = list
        <4>1. r # NoRequest
          BY RequestAssumption
        <4>2. CASE unseen \/ Expected
          BY <2>1, <4>2 DEF Fresh, Expected
        <4>3. CASE \A i \in 1 .. Len(gui[r].inbox) :
                     gui[r].inbox[i].result = "success" => gui[r].inbox[i].models = store
          <5>1. \A i \in 1 .. Len(gui'[r].inbox) :
                  gui'[r].inbox[i].result = "success" => gui'[r].inbox[i].models = store
            BY <2>2, <2>3, <4>3
          <5> QED
            BY <2>1, <3>1, <4>1, <5>1 DEF Fresh
        <4> QED
          BY <3>1, <4>2, <4>3 DEF PageInv, Fresh
      <3>2. CASE r # list
        BY <2>1, <2>3, <3>2 DEF PageInv, Fresh, Expected
      <3> QED
        BY <3>1, <3>2
    <2> QED
      BY <2>6, <2>7, <2>8, <2>9 DEF PageInv
  <1>4. Finish(r, message.result, message.models) => PageInv'
    BY <1>2
  <1>5. Finish(r, "daemon_outdated", {}) \/ Finish(r, "protocol_error", {}) => PageInv'
    BY <1>2
  <1> QED
    BY <1>3, <1>4, <1>5 DEF Receive

\* A step of the page, whoever makes it.
LEMMA PageStep ==
  ASSUME PageInv, User \/ \E r \in Request : Gui(r)
  PROVE  PageInv'
  <1>1. ASSUME NEW r \in Request, Disconnect(r) \/ IdleTimeout(r) PROVE PageInv'
    <2>1. PICK said \in {"connection_lost", "timeout"} : Finish(r, said, {})
      BY <1>1 DEF Disconnect, IdleTimeout
    <2>2. UNCHANGED <<handler, daemon>>
      BY <2>1, DaemonStays
    <2> QED
      BY <2>1, <2>2, FinishStep
  <1>2. ASSUME NEW r \in Request, Cancel(r) PROVE PageInv'
    <2>1. CASE Finish(r, "cancelled", {})
      BY <2>1, DaemonStays, FinishStep
    <2>2. CASE /\ gui[r].state = "running" /\ gui' = [gui EXCEPT ![r].cancels = TRUE]
               /\ UNCHANGED <<ask, handler, wrote, page, daemon, unseen>>
      <3>1. UNCHANGED <<ask, wrote, handler, list, change, session, rows, error, store, lock, camera, up, unseen>>
        BY <2>2 DEF page, daemon
      <3>2. /\ gui' \in Guis
            /\ \A q \in Request : gui'[q].state = gui[q].state /\ gui'[q].inbox = gui[q].inbox
        BY <2>2 DEF PageInv, Shapes, Guis
      <3>3. Shapes' /\ PageAsks' /\ Serves'
        BY <3>1, <3>2 DEF PageInv, Shapes, PageAsks, Serves, Serving, Gone
      <3>4. Wrote'
        BY <3>1, <3>2 DEF PageInv, Wrote, Idle, Gone
      <3>5. OnTheWay'
        BY <3>1, <3>2 DEF PageInv, OnTheWay, Honest, Idle
      <3>6. Fresh'
        BY <3>1, <3>2 DEF PageInv, Fresh, Expected
      <3> QED
        BY <3>3, <3>4, <3>5, <3>6 DEF PageInv
    <2> QED
      BY <1>2, <2>1, <2>2 DEF Cancel
  <1>3. ASSUME NEW r \in Request, Close(r) PROVE PageInv'
    BY <1>3, DeleteKeeps DEF Close, PageInv, PageAsks
  <1>4. Refresh => PageInv'
    BY ReloadKeeps DEF Refresh
  <1>5. ASSUME NEW kind \in Kind, NEW model \in Model \union {"none"}, Change(kind, model) PROVE PageInv'
    BY <1>5, NewRequestKeeps DEF Change
  <1>6. ASSUME NEW kind \in Kind, Start(kind) PROVE PageInv'
    BY <1>6, NewRequestKeeps DEF Start
  <1>7. {"clear", "remove", "enroll", "test"} \subseteq Kind
    BY DEF Kind
  <1> QED
    BY <1>1, <1>2, <1>3, <1>4, <1>5, <1>6, <1>7, ConnectStep, ReceiveStep DEF User, Gui

\* What is true of the requests stays true as long as they stay as they are, whether the
\* daemon is there or not.
LEMMA SameRequests ==
  ASSUME PageInv, up' \in BOOLEAN,
         UNCHANGED <<ask, gui, handler, wrote, list, change, session, rows, error, store, lock, camera, unseen>>
  PROVE  PageInv'
  <1>1. Shapes'
    BY DEF PageInv, Shapes
  <1>2. PageAsks'
    BY DEF PageInv, PageAsks, Gone
  <1>3. Serves'
    BY DEF PageInv, Serves, Serving
  <1>4. Wrote'
    BY DEF PageInv, Wrote, Gone, Idle
  <1>5. OnTheWay'
    BY DEF PageInv, OnTheWay, Honest, Idle
  <1>6. Fresh'
    BY DEF PageInv, Fresh, Expected
  <1> QED
    BY <1>1, <1>2, <1>3, <1>4, <1>5, <1>6 DEF PageInv

\* The daemon is gone with all its handlers, or is there again.
LEMMA DaemonStep ==
  ASSUME PageInv, Dies \/ Comes
  PROVE  PageInv'
  <1>1. CASE Comes
    <2>1. up' \in BOOLEAN
          /\ UNCHANGED <<ask, gui, handler, wrote, list, change, session, rows, error, store, lock, camera, unseen>>
      BY <1>1 DEF Comes, requests, page
    <2> QED
      BY <2>1, SameRequests
  <1>2. CASE Dies
    <2>1. /\ UNCHANGED <<gui, list, change, session, rows, error, store, unseen>>
          /\ up' = FALSE /\ lock' = NoRequest /\ camera' = NoRequest
      BY <1>2 DEF Dies, page
    <2>2. /\ handler' = [r \in Request |-> NoHandler]
          /\ ask' = [r \in Request |-> IF Gone(r) THEN NoAsk ELSE ask[r]]
          /\ wrote' = {r \in wrote : ~Gone(r)}
      BY <1>2 DEF Dies, Over, PageInv, Shapes
    <2>3. \A q \in Request : (Gone(q)' <=> Gone(q)) /\ Idle(q)'
      BY <2>1, <2>2 DEF Gone, Idle, NoHandler
    <2>4. Shapes'
      <3>1. handler' \in Handlers
        BY <2>2 DEF Handlers, NoHandler, Doing, Ran
      <3>2. NoAsk \in [kind : Kind \union {"none"}, model : Model \union {"none"}]
        BY DEF NoAsk
      <3>3. ask' \in Asks
        BY <2>2, <3>2 DEF PageInv, Shapes, Asks
      <3>4. wrote' \subseteq Request
        BY <2>2 DEF PageInv, Shapes
      <3> QED
        BY <2>1, <3>1, <3>3, <3>4 DEF PageInv, Shapes
    <2>5. PageAsks'
      BY <2>1, <2>2, <2>3 DEF PageInv, PageAsks
    <2>6. Serves'
      BY <2>1, <2>2, RequestAssumption DEF Serves, Serving, Camera, NoHandler
    <2>7. Wrote'
      BY <2>1, <2>2, <2>3 DEF PageInv, Wrote, NoHandler, Gone
    <2>8. OnTheWay'
      <3>1. ASSUME NEW q \in Request PROVE OnTheWay!(q)'
        <4>1. CASE Gone(q)
          BY <2>1, <2>2, <2>3, <4>1 DEF PageInv, OnTheWay, NoHandler, Gone
        <4>2. CASE ~Gone(q)
          <5>1. ask'[q] = ask[q] /\ (q \in wrote' <=> q \in wrote)
            BY <2>2, <4>2
          <5>3. gui[q].inbox \in Seq(Sent) /\ Len(gui[q].inbox) \in Nat
            BY DEF PageInv, Shapes, Guis
          <5> QED
            BY <2>1, <2>2, <2>3, <5>1, <5>3 DEF PageInv, OnTheWay, NoHandler, Honest
        <4> QED
          BY <4>1, <4>2
      <3> QED
        BY <3>1 DEF OnTheWay
    <2>9. Fresh'
      <3>1. Expected => Expected'
        BY <2>1, <2>2 DEF PageInv, Expected, PageAsks, Shapes
      <3> QED
        BY <2>1, <3>1 DEF PageInv, Fresh
    <2> QED
      BY <2>4, <2>5, <2>6, <2>7, <2>8, <2>9 DEF PageInv
  <1> QED
    BY <1>1, <1>2

\* Nothing was asked for yet.
LEMMA InitPageInv == Init => PageInv
  <1> SUFFICES ASSUME Init PROVE PageInv
    OBVIOUS
  <1>1. list \in Request /\ change = NoRequest /\ session = NoRequest /\ rows = {} /\ error = FALSE
        /\ store \subseteq Model /\ lock = NoRequest /\ camera = NoRequest /\ up = TRUE
        /\ wrote = {} /\ unseen = FALSE /\ handler = [r \in Request |-> NoHandler]
    BY DEF Init
  <1>2. /\ gui \in Guis /\ ask \in Asks /\ handler \in Handlers
        /\ \A r \in Request : /\ gui[r].inbox = <<>> /\ Idle(r) /\ handler[r].result = "none"
                              /\ gui[r].state = IF r = list THEN "connecting" ELSE "none"
        /\ ask[list].kind = "list"
    <2>1. <<>> \in Seq(Sent)
      OBVIOUS
    <2> DEFINE first == [NoClient EXCEPT !.state = "connecting"]
    <2>2. gui = [r \in Request |-> IF r = list THEN first ELSE NoClient]
      BY DEF Init
    <2>3. /\ first \in [state : {"connecting"}, inbox : {<<>>}, cancels : BOOLEAN]
          /\ NoClient \in [state : {"none"}, inbox : {<<>>}, cancels : BOOLEAN]
      BY DEF NoClient
    <2> HIDE DEF first
    <2>4. gui \in Guis /\ ask \in Asks /\ ask[list].kind = "list"
      <3>1. gui \in Guis
        BY <2>1, <2>2, <2>3 DEF Guis
      <3>2. ask = [r \in Request |-> IF r = list THEN [NoAsk EXCEPT !.kind = "list"] ELSE NoAsk]
        BY DEF Init
      <3>3. ask \in Asks /\ ask[list].kind = "list"
        BY <1>1, <3>2 DEF NoAsk, Asks, Kind
      <3> QED
        BY <3>1, <3>3
    <2>5. handler \in Handlers /\ \A r \in Request : Idle(r) /\ handler[r].result = "none"
      BY <1>1 DEF Handlers, Doing, Ran, NoHandler, Idle
    <2>6. \A r \in Request : /\ gui[r].inbox = <<>>
                            /\ gui[r].state = IF r = list THEN "connecting" ELSE "none"
      BY <2>2, <2>3
    <2> QED
      BY <2>4, <2>5, <2>6
  <1>3. Shapes
    BY <1>1, <1>2 DEF Shapes
  <1>4. PageAsks
    BY <1>1, <1>2, RequestAssumption DEF PageAsks, Gone
  <1>5. Serves
    BY <1>1, <1>2, RequestAssumption DEF Serves, Serving, Camera, Idle
  <1>6. Wrote /\ OnTheWay /\ Fresh
    BY <1>1, <1>2, RequestAssumption DEF Wrote, OnTheWay, Fresh, Idle
  <1> QED
    BY <1>3, <1>4, <1>5, <1>6 DEF PageInv

\* All parts together: each rests on those before it.
LEMMA StepPageInv == PageInv /\ [Next]_vars => PageInv'
  <1> SUFFICES ASSUME PageInv, [Next]_vars PROVE PageInv'
    OBVIOUS
  <1>1. CASE User \/ \E r \in Request : Gui(r)
    BY <1>1, PageStep
  <1>2. CASE Dies \/ Comes
    BY <1>2, DaemonStep
  <1>3. ASSUME NEW r \in Request, Handling(r) \/ Watch(r) \/ SessionRuns(r) \/ Preempt(r)
        PROVE  PageInv'
    <2>1. \/ ReadFails(r) \/ Refuse(r) \/ ListModels(r) \/ ChangeModels(r) \/ Release(r)
          \/ Lock(r) /\ lock # NoRequest
          \/ AcquireCamera(r) /\ camera' = camera
          \/ Read(r) \/ Watch(r) \/ Preempt(r) \/ SessionRuns(r) \/ SessionStops(r) \/ Captured(r)
          \/ Lock(r) /\ lock = NoRequest
          \/ AcquireCamera(r) /\ camera' # camera
          \/ SendStarted(r) \/ WriteModel(r)
      BY <1>3 DEF Handling
    <2> QED
      BY <2>1, AnsweringStep, SilentStep, SendStartedStep, WriteModelStep
  <1>4. CASE UNCHANGED vars
    <2>1. UNCHANGED <<ask, gui, handler, wrote, list, change, session, rows, error,
                      store, lock, camera, up, unseen>>
      BY <1>4 DEF vars, requests, page, daemon
    <2>2. up' \in BOOLEAN
      BY <2>1 DEF PageInv, Shapes
    <2> QED
      BY <2>1, <2>2, SameRequests
  <1> QED
    BY <1>1, <1>2, <1>3, <1>4 DEF Next

\* The requests that are there are those of the page, and who has the lock or the camera
\* of the daemon is at work: ManageProtocol's TypeOK, for any number of connections.
THEOREM RequestsAccounted == Spec => []TypeOK
  <1>1. PageInv => TypeOK
    <2> SUFFICES ASSUME PageInv PROVE TypeOK
      OBVIOUS
    <2>1. Shapes /\ PageAsks
      BY DEF PageInv
    <2>2. ASSUME NEW r \in Request
          PROVE  /\ gui[r].state \in {"none", "connecting", "waiting", "running"} /\ Len(gui[r].inbox) <= 2
                 /\ ask[r].kind \in Kind \union {"none"} /\ ask[r].model \in Model \union {"none"}
      <3>1. gui[r].inbox \in Seq(Sent) /\ Len(gui[r].inbox) \in Nat
            /\ gui[r].state \in {"none", "connecting", "waiting", "running"}
        BY <2>1 DEF Shapes, Guis
      <3>2. ask[r].kind \in Kind \union {"none"} /\ ask[r].model \in Model \union {"none"}
        BY <2>1 DEF Shapes, Asks
      <3>3. Len(gui[r].inbox) <= (IF Idle(r) THEN 2 ELSE 1)
        BY DEF PageInv, OnTheWay
      <3> QED
        BY <3>1, <3>2, <3>3
    <2>3. ASSUME NEW r \in Request, r \in {lock, camera} PROVE ~Idle(r)
      BY <2>3 DEF PageInv, Serves, Serving, Camera, Idle
    <2> QED
      BY <2>1, <2>2, <2>3 DEF TypeOK, Shapes, PageAsks
  <1> QED
    BY <1>1, InitPageInv, StepPageInv, PTL DEF Spec

\* When nothing is on its way the page shows the models there are, unless it says that it
\* may not, or the file was changed for somebody who was gone or did not end well.
THEOREM PageUpToDate == Spec => []PageShowsModels
  <1>1. PageInv => PageShowsModels
    BY RequestAssumption DEF PageInv, Shapes, Fresh, Expected, PageShowsModels
  <1> QED
    BY <1>1, InitPageInv, StepPageInv, PTL DEF Spec

\* What the page is told by the daemon is what happened to the file.
THEOREM AnswersAreTrue == Spec => []ToldIsTrue
  <1>1. PageInv => ToldIsTrue
    <2> SUFFICES ASSUME PageInv, NEW r \in Request, gui[r].inbox # <<>>,
                        ask[r].kind \in {"remove", "clear", "enroll"}
                 PROVE  /\ Head(gui[r].inbox).result = "success" => r \in wrote
                        /\ Head(gui[r].inbox).result \in Refusal \/ Head(gui[r].inbox) = AuthResponse
                             => r \notin wrote
      BY DEF ToldIsTrue
    <2>1. Head(gui[r].inbox) = gui[r].inbox[1] /\ 1 \in 1 .. Len(gui[r].inbox)
      BY FirstRead DEF PageInv, Shapes, Guis
    <2>2. gui[r].inbox[1] = StartedMessage \/ Honest(r, gui[r].inbox[1])
      BY <2>1 DEF PageInv, OnTheWay
    <2>3. StartedMessage.result \notin Refusal \union {"success"} /\ StartedMessage # AuthResponse
      BY DEF StartedMessage, AuthResponse, Message, Refusal
    <2> QED
      BY <2>1, <2>2, <2>3 DEF Honest
  <1> QED
    BY <1>1, InitPageInv, StepPageInv, PTL DEF Spec
================================================================================
