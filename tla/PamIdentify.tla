------------------------------ MODULE PamIdentify ------------------------------
(***************************************************************************)
(* One login in the PAM module, identify() in pam/main.cc: the thread of   *)
(* the application, the thread that asks the daemon (auth_task) and the    *)
(* thread that prompts for the password (pass_task). The first one to have *)
(* an answer sets confirmation_type; the application's thread gets rid of  *)
(* the other one by joining it, by pthread_cancel or by pressing Enter     *)
(* through a fake keyboard, and makes up the result for the PAM stack.     *)
(* The names are such that ClientProofs can extend this module together    *)
(* with ManageProtocol, the other client of the daemon.                    *)
(***************************************************************************)
EXTENDS Naturals

CONSTANT MaxRetries   \* MAX_RETRIES: how often Enter is pressed again

ASSUME RetriesAssumption == MaxRetries \in Nat

VARIABLES
  workaround,    \* [core] workaround
  askAuthTok,    \* the module is asked to authenticate, not to open a session
  at,            \* where the thread of the application stands
  confirmation,  \* confirmation_type
  auth,          \* where auth_task stands
  status,        \* what authd_authenticate returned
  pass,          \* where pass_task stands
  password,      \* what pam_get_authtok returned
  doomed,        \* threads that pthread_cancel was called for
  presses,       \* times Enter was pressed
  told,          \* what the user was told
  result         \* what identify() returned

config == <<workaround, askAuthTok>>
authTask == <<auth, status>>
passTask == <<pass, password>>
pamVars == <<config, at, confirmation, authTask, passTask, doomed, presses, told, result>>

Thread == {"auth", "pass"}

\* A thread is "calling" while it is in a call that is a cancellation point. It
\* is "confirmed" when confirmation_type is set and the notification is still due.
Place == {"none", "calling", "returned", "confirmed", "done", "cancelled"}
Ended == {"none", "done", "cancelled"}
Main == {"checks", "prompt", "waiting", "asleep", "joinAuth", "joinTyped", "typed", "joinFace",
         "stopPrompt", "joinCancelled", "enter", "joinPrompt", "report", "over"}

\* Result codes of the daemon, by how secureEye_error() treats them: "timeout" stands
\* for the dark image too, which also has a message. "internal" is also what a
\* connection that fails, runs out of time or answers garbage gives.
Failure == {"no_face_model", "timeout", "mismatch", "internal"}
Told == {"timeout", "mismatch", "press Enter"}

Ask == askAuthTok /\ workaround # "off"

PamInit ==
  /\ workaround \in {"off", "input", "native"}
  /\ askAuthTok \in BOOLEAN
  /\ at = "checks"
  /\ confirmation = "Unset"
  /\ auth = "none" /\ status = "none"
  /\ pass = "none" /\ password = "none"
  /\ doomed = {}
  /\ presses = 0
  /\ told = {}
  /\ result = "none"

GoTo(place) == at' = place /\ UNCHANGED result
Return(value) == at' = "over" /\ result' = value

--------------------------------------------------------------------------------
(* The thread of the application, up to the race *)

\* The configuration does not parse, PAM has no user or conversation, or
\* check_enabled() says no: disabled, over SSH, closed lid, no model file.
Skip ==
  /\ at = "checks"
  /\ \E value \in {"system_err", "pam_error", "authinfo_unavail"} : Return(value)
  /\ UNCHANGED <<config, confirmation, authTask, passTask, doomed, presses, told>>

StartAuth ==
  /\ at = "checks"
  /\ auth' = "calling"
  /\ GoTo("prompt")
  /\ UNCHANGED <<config, confirmation, status, passTask, doomed, presses, told>>

StartPrompt ==
  /\ at = "prompt"
  /\ pass' = IF Ask THEN "calling" ELSE "none"
  /\ GoTo("waiting")
  /\ UNCHANGED <<config, confirmation, authTask, password, doomed, presses, told>>

\* Variant that waits for the daemon when the password was first.
WakePatiently ==
  /\ at = "waiting"
  /\ CASE confirmation = "Unset"     -> GoTo("asleep")
       [] confirmation = "Pam"       -> GoTo("joinAuth")
       [] confirmation = "SecureEye" -> GoTo("joinFace")
  /\ UNCHANGED <<config, confirmation, authTask, passTask, doomed, presses, told>>

\* convar.wait(): the predicate is looked at with the mutex held; the thread that
\* lost the race is cancelled, or waited for.
Wake ==
  /\ at = "waiting"
  /\ CASE confirmation = "Unset"     -> GoTo("asleep") /\ UNCHANGED doomed
       [] confirmation = "Pam"       -> GoTo("joinAuth") /\ doomed' = doomed \union {"auth"}
       [] confirmation = "SecureEye" -> GoTo("joinFace") /\ UNCHANGED doomed
  /\ UNCHANGED <<config, confirmation, authTask, passTask, presses, told>>

--------------------------------------------------------------------------------
(* The two threads *)

\* The daemon answers, or the transport fails or runs out of time.
Answered ==
  /\ auth = "calling"
  /\ status' \in Failure \union {"success"}
  /\ auth' = "returned"
  /\ UNCHANGED <<config, at, confirmation, passTask, doomed, presses, told, result>>

\* The user ends the prompt, an Enter press does, or the conversation fails.
Typed ==
  /\ pass = "calling"
  /\ password' \in {"success", "pam_error"}
  /\ pass' = "returned"
  /\ UNCHANGED <<config, at, confirmation, authTask, doomed, presses, told, result>>

\* Variant: the last thread with an answer sets confirmation_type.
ConfirmLast(type) == confirmation' = type

\* Only the first thread with an answer sets confirmation_type.
ConfirmFirst(type) == confirmation' = IF confirmation = "Unset" THEN type ELSE confirmation

Confirm ==
  /\ \/ auth = "returned" /\ auth' = "confirmed" /\ UNCHANGED pass /\ ConfirmFirst("SecureEye")
     \/ pass = "returned" /\ pass' = "confirmed" /\ UNCHANGED auth /\ ConfirmFirst("Pam")
  /\ UNCHANGED <<config, at, status, password, doomed, presses, told, result>>

\* notify_one(), and the thread ends.
ThreadEnds ==
  /\ \/ auth = "confirmed" /\ auth' = "done" /\ UNCHANGED pass
     \/ pass = "confirmed" /\ pass' = "done" /\ UNCHANGED auth
  /\ at' = IF at = "asleep" THEN "waiting" ELSE at
  /\ UNCHANGED <<config, confirmation, status, password, doomed, presses, told, result>>

\* A cancelled thread unwinds from the call it is in. It has no other cancellation
\* point, so it ends regularly when it was past that call.
Unwind ==
  /\ \/ "auth" \in doomed /\ auth = "calling" /\ auth' = "cancelled" /\ UNCHANGED pass
     \/ "pass" \in doomed /\ pass = "calling" /\ pass' = "cancelled" /\ UNCHANGED auth
  /\ UNCHANGED <<config, at, confirmation, status, password, doomed, presses, told, result>>

--------------------------------------------------------------------------------
(* The password won *)

\* Variant of the way out that leaves the cancelled request to itself.
JoinAuthNever ==
  /\ at = "joinAuth"
  /\ GoTo("joinTyped")
  /\ UNCHANGED <<config, confirmation, authTask, passTask, doomed, presses, told>>

\* auth_task.stop(true): the request has been cancelled and is gone.
JoinAuth ==
  /\ at = "joinAuth" /\ auth \in Ended
  /\ GoTo("joinTyped")
  /\ UNCHANGED <<config, confirmation, authTask, passTask, doomed, presses, told>>

\* pass_task.stop(false), for the winner and for a user who is still typing after
\* the face was not recognized.
JoinTyped ==
  /\ at = "joinTyped" /\ pass \in Ended
  /\ GoTo("typed")
  /\ UNCHANGED <<config, confirmation, authTask, passTask, doomed, presses, told>>

\* pass_task.get(): the password goes on to the next module of the stack. A prompt
\* that failed is an error, or what the face gave when that was the first answer.
TakePassword ==
  /\ at = "typed"
  /\ CASE password = "success"                               -> Return("ignore")
       [] password # "success" /\ confirmation = "Pam"       -> Return("pam_error")
       [] password # "success" /\ confirmation = "SecureEye" -> GoTo("report")
  /\ UNCHANGED <<config, confirmation, authTask, passTask, doomed, presses, told>>

--------------------------------------------------------------------------------
(* The daemon's answer was first *)

\* auth_task.stop(false), auth_task.get(): a user may still type after a failure.
JoinFace ==
  /\ at = "joinFace" /\ auth \in Ended
  /\ GoTo(CASE ~Ask                      -> "report"
          [] Ask /\ status = "success" -> "stopPrompt"
          [] OTHER                     -> "joinTyped")
  /\ UNCHANGED <<config, confirmation, authTask, passTask, doomed, presses, told>>

\* stop_password_prompt(). Without access to /dev/uinput, or when the fake keyboard
\* can not be made, the user has to press Enter.
StopPrompt ==
  /\ at = "stopPrompt"
  /\ \/ /\ workaround = "native"
        /\ doomed' = doomed \union {"pass"} /\ GoTo("joinCancelled")
        /\ UNCHANGED <<presses, told>>
     \/ /\ workaround = "input"
        /\ GoTo("enter") /\ presses' = 1
        /\ UNCHANGED <<doomed, told>>
     \/ /\ workaround = "input"
        /\ GoTo("joinPrompt") /\ told' = told \union {"press Enter"}
        /\ UNCHANGED <<doomed, presses>>
  /\ UNCHANGED <<config, confirmation, authTask, passTask>>

\* Enter was pressed 1 + retries times; the prompt ended or the wait ran out.
PromptEnded ==
  /\ pass = "done" /\ GoTo("joinPrompt")
  /\ told' = IF presses > MaxRetries THEN told \union {"press Enter"} ELSE told
  /\ UNCHANGED presses

PressAgain == presses <= MaxRetries /\ presses' = presses + 1 /\ GoTo("enter") /\ UNCHANGED told

\* Variant that compares the retries after one more of them.
StopPressingLate ==
  /\ presses > MaxRetries /\ GoTo("joinPrompt")
  /\ told' = IF presses > MaxRetries + 1 THEN told \union {"press Enter"} ELSE told
  /\ UNCHANGED presses

\* The retries are used up, or writing the key press raises.
StopPressing ==
  /\ GoTo("joinPrompt") /\ told' = told \union {"press Enter"}
  /\ UNCHANGED presses

Enter ==
  /\ at = "enter"
  /\ PromptEnded \/ PressAgain \/ StopPressing
  /\ UNCHANGED <<config, confirmation, authTask, passTask, doomed>>

\* pass_task.stop(): the prompt is gone; what was typed does not matter any more.
JoinPrompt ==
  /\ at \in {"joinPrompt", "joinCancelled"} /\ pass \in Ended
  /\ GoTo("report")
  /\ UNCHANGED <<config, confirmation, authTask, passTask, doomed, presses, told>>

\* secureEye_status(): some failures have a message for the user, and the result.
Report ==
  /\ at = "report"
  /\ Return(IF status = "success" THEN "success" ELSE "auth_err")
  /\ told' = told \union ({status} \cap {"timeout", "mismatch"})
  /\ UNCHANGED <<config, confirmation, authTask, passTask, doomed, presses>>

\* The PAM stack has its result.
IdentifyOver == at = "over" /\ UNCHANGED pamVars

MainStep == Skip \/ StartAuth \/ StartPrompt \/ Wake \/ JoinAuth \/ JoinTyped \/ TakePassword
              \/ JoinFace \/ StopPrompt \/ Enter \/ JoinPrompt \/ Report

PamNext == MainStep \/ Answered \/ Typed \/ Confirm \/ ThreadEnds \/ Unwind \/ IdentifyOver

PamSpec == PamInit /\ [][PamNext]_pamVars

\* Threads run. Neither the daemon nor the user has to answer.
Fairness == WF_pamVars(MainStep) /\ WF_pamVars(Confirm) /\ WF_pamVars(ThreadEnds) /\ WF_pamVars(Unwind)

PamFairSpec == PamSpec /\ Fairness

--------------------------------------------------------------------------------
(* Properties *)

\* Types; Enter is pressed once and at most MAX_RETRIES times again.
PamTypeOK ==
  /\ workaround \in {"off", "input", "native"} /\ askAuthTok \in BOOLEAN
  /\ at \in Main
  /\ confirmation \in {"Unset", "SecureEye", "Pam"}
  /\ auth \in Place /\ pass \in Place
  /\ status \in Failure \union {"success", "none"}
  /\ password \in {"none", "success", "pam_error"}
  /\ doomed \subseteq Thread
  /\ presses \in 0 .. MaxRetries + 1
  /\ told \subseteq Told
  /\ result \in {"none", "system_err", "pam_error", "authinfo_unavail", "ignore",
                 "auth_err", "success"}

\* No thread is left behind that uses the locals of identify() after it returned.
ThreadsGone == at = "over" => auth \in Ended /\ pass \in Ended

\* optional_task::get(): "assert(!is_active && spawned)", and the task was not
\* cancelled, or its future would throw broken_promise into the PAM application.
ResultsAreThere ==
  /\ at = "typed" => pass = "done"
  /\ at \in {"stopPrompt", "report"} => auth = "done"

\* A login is approved only if the daemon said so before a password was there.
ApprovedByDaemon == result = "success" => auth = "done" /\ status = "success" /\ confirmation = "SecureEye"

\* The module steps aside only with a password for the next module, and a face that
\* was not recognized never takes the prompt away from a user who is typing.
PromptIsKept ==
  /\ result = "ignore" => pass = "done" /\ password = "success"
  /\ result = "auth_err" /\ Ask => pass = "done" /\ password = "pam_error"

\* Whatever order the two answers, the notification and the joins come in, what identify()
\* returns is what the thread said whose answer came first, read when it was there to read.
ResultIsEarned == ResultsAreThere /\ ApprovedByDaemon /\ PromptIsKept

\* When the Enter press may not have ended the prompt, the user was told to press it.
StuckPromptIsExplained ==
  at = "joinPrompt" => pass \in {"returned", "confirmed", "done"} \/ "press Enter" \in told

\* A password ends the login, no matter how long the daemon takes.
PasswordSuffices == (confirmation = "Pam") ~> (at = "over")

\* A recognized face ends the login without the user, with workaround "native" or
\* off; with "input" nothing but an unanswered prompt can hold it up.
FaceSuffices ==
  (confirmation = "SecureEye" /\ status = "success")
    ~> \/ at = "over"
       \/ workaround = "input" /\ at = "joinPrompt"

\* The answer that came first ends the login, whether the other one ever comes or not.
LoginEnds == PasswordSuffices /\ FaceSuffices

================================================================================
