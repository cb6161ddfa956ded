----------------------------- MODULE LoginSession -----------------------------
(***************************************************************************)
(* One login inside the daemon: AuthSession.run() in its pool's thread,    *)
(* from the templates over the search for the user's face to the rubber    *)
(* stamps, and _run_session() in the connection's thread, which waits for  *)
(* the code and cancels the session when the time it may answer in is      *)
(* over. The camera is the session's already (CameraSessions). Time runs   *)
(* in the three timers that the code looks at. A setting is chosen where   *)
(* the session reads it.                                                   *)
(***************************************************************************)
EXTENDS Integers

CONSTANTS
  Seconds,    \* [video] timeout
  Step,       \* what a tick of the clock is, in milliseconds
  MaxFrames,  \* bound: frames that are read while the session searches
  Rule,       \* lines that stamp_rules is made of
  MaxRules    \* bound: how many of them there are at most

ASSUME SecondsAssumption == Seconds \in Int
ASSUME BoundAssumption == Step \in Nat \ {0} /\ MaxFrames \in Nat /\ MaxRules \in Nat
ASSUME RuleAssumption == Rule \subseteq [stamp : {"nod", "hotkey", "skipped", "malformed"},
                                         time : Nat, failsafe : BOOLEAN]

VARIABLES
  plugin,   \* [video] recording_plugin
  at,       \* where the session stands
  code,     \* what run() returns or raises, "none" before
  backend,  \* [core] detector_backend, of the pipeline that was built
  device,   \* the stream's device
  event,    \* _cancel_event
  stats,    \* what the search has counted
  elapsed,  \* the time since the search began
  lines,    \* rules that are still to be run
  stamp,    \* the rule whose stamp runs
  left,     \* the time the stamp has left
  key,      \* the hotkey that was pressed
  wait,     \* the time the handler has left
  handler,  \* where the handler stands
  reply,    \* the code it answers with
  matched,  \* history: the user's face was accepted
  denied,   \* history: a stamp was denied, by the user or by running out in failsafe mode
  fault     \* history: the device, a library or the disk failed

config == <<plugin, backend>>
search == <<stats, elapsed>>
stamps == <<lines, stamp, left, key>>
answer == <<wait, handler, reply>>
history == <<matched, denied, fault>>
vars == <<config, at, code, device, event, search, stamps, answer, history>>

--------------------------------------------------------------------------------
(* How long everybody waits, in milliseconds *)

Smaller(a, b) == IF a < b THEN a ELSE b
Larger(a, b) == IF a > b THEN a ELSE b

\* Variant of PamDeadline that leaves out the margin.
PamDeadlineBare(seconds) ==
  Larger(1000, Smaller(30000, IF seconds > 0 THEN 1000 * seconds ELSE 2500))

\* identify() gives the daemon the time of the search and a margin.
PamDeadline(seconds) ==
  Larger(1000, Smaller(30000, 1900 + IF seconds > 0 THEN 1000 * seconds ELSE 2500))

\* validate_auth_request() takes no other deadline.
Valid(deadline) == 100 <= deadline /\ deadline <= 30000

\* _handle_client() keeps RESPONSE_MARGIN_MS for the way back.
WorkerWait(deadline) == Larger(100, deadline - 700)

Over == elapsed > 1000 * Seconds

--------------------------------------------------------------------------------
(* What one frame is *)

\* [video] dark_threshold and certainty as they come by default, the latter in tenths
\* like the distances: those of a copy of a template, of the user and of a stranger.
DarkThreshold == 60
Certainty == 3
Distance == {0, 2, 9}
Darkness == {0, 80, 100}

\* FrameStream.read(): the share of darkness_percent() decides.
State(darkness) ==
  CASE darkness = 100 -> "black"
    [] darkness > DarkThreshold /\ darkness # 100 -> "dark"
    [] OTHER -> "usable"

\* is_match() of the nearest template.
IsMatch(distance) == 0 < distance /\ distance < Certainty

\* One of the faces in the frame is accepted.
Accepted(faces) == \E distance \in faces : IsMatch(distance)

--------------------------------------------------------------------------------

Running == {"nod", "hotkey"}
Place == {"templates", "load", "open", "register", "top", "read", "matched", "rules", "finally",
          "ended"} \union Running
Code == {"none", "success", "no_face_model", "timeout", "too_dark", "invalid_device",
         "rubberstamp", "template_mismatch", "detector", "keyboard", "error"}
NoRule == [stamp |-> "none", time |-> 0, failsafe |-> FALSE]

\* RuntimeStats()
NoStats == [valid |-> 0, dark |-> 0, black |-> 0]

Init ==
  /\ plugin \in {"opencv", "ffmpeg", "pyv4l2"}
  /\ at = "templates" /\ code = "none" /\ backend = "none" /\ device = "none" /\ event = FALSE
  /\ stats = NoStats /\ elapsed = 0
  /\ lines = 0 /\ stamp = NoRule /\ left = 0 /\ key = "none"
  /\ wait = WorkerWait(PamDeadline(Seconds)) /\ handler = "waits" /\ reply = "none"
  /\ matched = FALSE /\ denied = FALSE /\ fault = FALSE

(* Before the search *)

\* run() is over before there is a stream.
Return(result) == at' = "ended" /\ code' = result

LoadTemplates ==
  /\ at = "templates"
  /\ \/ at' = "load" /\ UNCHANGED code
     \/ \E result \in {"no_face_model", "template_mismatch"} : Return(result)
  /\ UNCHANGED <<config, device, event, search, stamps, answer, history>>

\* The pipeline comes from the cache, is built, or cannot be built.
LoadPipeline ==
  /\ at = "load"
  /\ \/ at' = "open" /\ backend' \in {"dlib", "mediapipe"} /\ UNCHANGED <<code, fault>>
     \/ Return("detector") /\ fault' = TRUE /\ UNCHANGED backend
     \/ Return("template_mismatch") /\ UNCHANGED <<backend, fault>>
  /\ UNCHANGED <<plugin, device, event, search, stamps, answer, matched, denied>>

\* FrameStream(config): there is no such device, or it does not open.
OpenStream ==
  /\ at = "open"
  /\ \/ at' = "register" /\ device' = "open" /\ UNCHANGED <<code, fault>>
     \/ /\ \E result \in {"invalid_device", "error"} : Return(result)
        /\ fault' = TRUE /\ UNCHANGED device
  /\ UNCHANGED <<config, event, search, stamps, answer, matched, denied>>

\* cancel() may have run before the stream existed.
Register ==
  /\ at = "register"
  /\ at' = "top"
  /\ device' = IF event THEN "released" ELSE device
  /\ UNCHANGED <<config, code, event, search, stamps, answer, history>>

--------------------------------------------------------------------------------
(* The search *)

\* return or raise inside the try block
Leave(result) == at' = "finally" /\ code' = result

\* _make_snapshot() is on, and fails.
SnapshotFails == Leave("error") /\ fault' = TRUE

Cancelled ==
  /\ at = "top" /\ event
  /\ Leave("timeout")
  /\ UNCHANGED <<config, device, event, search, stamps, answer, history>>

\* Variant of RunsOut that looks for dark frames only.
RunsOutByDark ==
  /\ at = "top" /\ ~event /\ Over
  /\ \/ Leave(IF stats.dark > 0 THEN "too_dark" ELSE "timeout") /\ UNCHANGED fault
     \/ SnapshotFails
  /\ UNCHANGED <<config, device, event, search, stamps, answer, matched, denied>>

\* The time is over.
RunsOut ==
  /\ at = "top" /\ ~event /\ Over
  /\ \/ Leave(IF stats.dark = stats.valid THEN "too_dark" ELSE "timeout") /\ UNCHANGED fault
     \/ SnapshotFails
  /\ UNCHANGED <<config, device, event, search, stamps, answer, matched, denied>>

GoOn ==
  /\ at = "top" /\ ~event /\ ~Over
  /\ stats.valid + stats.black < MaxFrames
  /\ at' = "read"
  /\ UNCHANGED <<config, code, device, event, search, stamps, answer, history>>

\* The readers of ffmpeg and of pyv4l2 return 0 beside each frame.
Ret == plugin = "opencv"

Reads == device = "open" /\ Ret

\* VideoCapture.read_frame() exits the interpreter.
ReadRefused ==
  /\ ~Reads
  /\ Leave("invalid_device")
  /\ UNCHANGED <<config, device, event, search, stamps, answer, history>>

\* The device fails, or OpenCV or a library raises.
ReadRaises ==
  /\ \E result \in {"invalid_device", "error"} : Leave(result)
  /\ fault' = TRUE
  /\ UNCHANGED <<config, device, event, search, stamps, answer, matched, denied>>

SearchFails == at = "read" /\ (ReadRefused \/ ReadRaises)

\* A black or a dark frame is only counted.
Passed(darkness) ==
  /\ at = "read" /\ Reads /\ State(darkness) # "usable"
  /\ at' = "top"
  /\ stats' = IF State(darkness) = "black"
                THEN [stats EXCEPT !.black = @ + 1]
                ELSE [stats EXCEPT !.valid = @ + 1, !.dark = @ + 1]
  /\ UNCHANGED <<config, code, device, event, elapsed, stamps, answer, history>>

\* The pipeline detects faces and matches them one by one.
Searched(darkness, faces) ==
  /\ at = "read" /\ Reads /\ State(darkness) = "usable"
  /\ at' = IF Accepted(faces) THEN "matched" ELSE "top"
  /\ matched' = Accepted(faces)
  /\ stats' = [stats EXCEPT !.valid = @ + 1]
  /\ UNCHANGED <<config, code, device, event, elapsed, stamps, answer, denied, fault>>

Finally ==
  /\ at = "finally"
  /\ at' = "ended" /\ device' = "released"
  /\ UNCHANGED <<config, code, event, search, stamps, answer, history>>

--------------------------------------------------------------------------------
(* rubberstamps.execute() *)

\* Only the dlib backend has the detectors that stamps need.
StampsCanRun == backend = "dlib"

\* A face was accepted. The stamps are off, cannot be run, or the rules are run.
Matched ==
  /\ at = "matched"
  /\ \/ Leave("success") /\ UNCHANGED <<lines, fault>>
     \/ ~StampsCanRun /\ Leave("rubberstamp") /\ UNCHANGED <<lines, fault>>
     \/ StampsCanRun /\ at' = "rules" /\ lines' \in 0 .. MaxRules /\ UNCHANGED <<code, fault>>
     \/ SnapshotFails /\ UNCHANGED lines
  /\ UNCHANGED <<config, device, event, search, stamp, left, key, answer, matched, denied>>

\* sys.exit(0)
AllRun ==
  /\ at = "rules" /\ lines = 0
  /\ Leave("success")
  /\ UNCHANGED <<config, device, event, search, stamps, answer, history>>

\* A line that is no rule, or whose stamp is not there, is passed over. The rest of
\* a line is parsed without a net.
Skip(rule) ==
  /\ at = "rules" /\ lines > 0 /\ rule.stamp \in {"skipped", "malformed"}
  /\ lines' = lines - 1
  /\ IF rule.stamp = "skipped" THEN UNCHANGED <<at, code, fault>>
                               ELSE Leave("error") /\ fault' = TRUE
  /\ UNCHANGED <<config, device, event, search, stamp, left, key, answer, matched, denied>>

\* The module that hotkey imports is missing, sys.exit(1).
KeyboardMissing(rule) ==
  /\ rule.stamp = "hotkey"
  /\ Leave("keyboard") /\ fault' = TRUE /\ UNCHANGED <<stamp, left>>

\* instance.run() begins.
StartStamp(rule) ==
  /\ at = "rules" /\ lines > 0 /\ rule.stamp \in Running
  /\ lines' = lines - 1
  /\ key' = "none"
  /\ \/ at' = rule.stamp /\ stamp' = rule /\ left' = rule.time /\ UNCHANGED <<code, fault>>
     \/ KeyboardMissing(rule)
  /\ UNCHANGED <<config, device, event, search, answer, matched, denied>>

\* The next rule is looked at.
NextRule == at' = "rules" /\ UNCHANGED code

StampOver == stamp' = NoRule /\ left' = 0 /\ key' = "none"

\* run() returns: False ends the login, sys.exit(15).
Result(yes) == StampOver /\ IF yes THEN NextRule ELSE Leave("rubberstamp")

\* The user nods or shakes the head.
Nod(yes) ==
  /\ at = "nod" /\ left > 0 /\ Reads
  /\ Result(yes)
  /\ denied' = (denied \/ ~yes)
  /\ UNCHANGED <<lines, config, device, event, search, answer, matched, fault>>

\* SystemExit is no Exception: what read_frame() exits with ends the login.
NodRefused == at = "nod" /\ left > 0 /\ ReadRefused

\* Any other exception is logged, and the next rule is tried.
StampRaises ==
  /\ \/ at = "nod" /\ left > 0 /\ Leave("invalid_device") /\ UNCHANGED <<stamp, left, key>>
     \/ at \in Running /\ NextRule /\ StampOver
  /\ fault' = TRUE
  /\ UNCHANGED <<lines, config, device, event, search, answer, matched, denied>>

PressKey(k) ==
  /\ at = "hotkey" /\ key # k
  /\ key' = k
  /\ UNCHANGED <<config, at, code, device, event, search, lines, stamp, left, answer, history>>

KeyIsSeen ==
  /\ at = "hotkey" /\ left > 0 /\ key # "none"
  /\ Result(key = "confirm")
  /\ denied' = (denied \/ key = "abort")
  /\ UNCHANGED <<lines, config, device, event, search, answer, matched, fault>>

\* Variant of StampRunsOut that turns the failure modes round.
StampRunsOutDeadly ==
  /\ at \in Running /\ left = 0
  /\ Result(stamp.failsafe)
  /\ denied' = (denied \/ stamp.failsafe)
  /\ UNCHANGED <<lines, config, device, event, search, answer, matched, fault>>

\* Variant of StampRunsOut for a stamp that waits for the user.
StampRunsOutNever == FALSE /\ UNCHANGED vars

\* The time of the stamp is over: failsafe denies, faildeadly lets pass.
StampRunsOut ==
  /\ at \in Running /\ left = 0
  /\ Result(~stamp.failsafe)
  /\ denied' = (denied \/ stamp.failsafe)
  /\ UNCHANGED <<lines, config, device, event, search, answer, matched, fault>>

\* What the session does by itself: the user's answers to a stamp, and what goes
\* wrong while one runs, may stay away.
Progress ==
  \/ LoadTemplates \/ LoadPipeline \/ OpenStream \/ Register
  \/ Cancelled \/ RunsOut \/ GoOn \/ SearchFails
  \/ \E darkness \in Darkness :
       Passed(darkness) \/ \E faces \in SUBSET Distance : Searched(darkness, faces)
  \/ Matched \/ AllRun
  \/ \E rule \in Rule : Skip(rule) \/ StartStamp(rule)
  \/ NodRefused \/ KeyIsSeen \/ StampRunsOut
  \/ Finally

Session == Progress \/ StampRaises \/ \E yes \in BOOLEAN : Nod(yes)

--------------------------------------------------------------------------------
(* _run_session() *)

\* Variant of Deadline that does not set the event.
DeadlineReleasing ==
  /\ handler = "waits" /\ wait = 0 /\ at # "ended"
  /\ handler' = "cancels"
  /\ UNCHANGED <<config, at, code, device, event, search, stamps, wait, reply, history>>

\* future.result() times out, and cancel() sets the event.
Deadline ==
  /\ handler = "waits" /\ wait = 0 /\ at # "ended"
  /\ handler' = "cancels" /\ event' = TRUE
  /\ UNCHANGED <<config, at, code, device, search, stamps, wait, reply, history>>

\* Then it releases a stream that is there.
Release ==
  /\ handler = "cancels"
  /\ handler' = "answered" /\ reply' = "timeout"
  /\ device' = IF device = "open" /\ at # "register" THEN "released" ELSE device
  /\ UNCHANGED <<config, at, code, event, search, stamps, wait, history>>

\* Variant of Answer that takes the code before the session is over.
AnswerEarly ==
  /\ handler = "waits" /\ code # "none"
  /\ handler' = "answered" /\ reply' = code
  /\ UNCHANGED <<config, at, code, device, event, search, stamps, wait, history>>

\* The session's code, also when it came as SystemExit; anything else it raised is 99.
Answer ==
  /\ handler = "waits" /\ at = "ended"
  /\ handler' = "answered" /\ reply' = code
  /\ UNCHANGED <<config, at, code, device, event, search, stamps, wait, history>>

Handler == Deadline \/ Release \/ Answer

Less(time) == Larger(0, time - Step)

Searching == at \in {"top", "read"}

\* Step milliseconds pass in every timer that somebody will look at.
Tick ==
  /\ wait' = IF handler = "waits" THEN Less(wait) ELSE wait
  /\ elapsed' = IF Searching /\ ~Over THEN elapsed + Step ELSE elapsed
  /\ left' = Less(left)
  /\ <<wait, elapsed, left>>' # <<wait, elapsed, left>>
  /\ UNCHANGED <<config, at, code, device, event, stats, lines, stamp, key, handler, reply, history>>

\* The login is over for everybody.
Done == at = "ended" /\ handler = "answered" /\ UNCHANGED vars

Next == Session \/ Handler \/ Tick \/ (\E k \in {"abort", "confirm"} : PressKey(k)) \/ Done

Spec == Init /\ [][Next]_vars

\* Reading, computing and waiting come to an end, and time passes.
FairSpec == Spec /\ WF_vars(Progress) /\ WF_vars(Handler) /\ WF_vars(Tick)

--------------------------------------------------------------------------------

\* Types, and no timer below zero.
TypeOK ==
  /\ plugin \in {"opencv", "ffmpeg", "pyv4l2"} /\ backend \in {"none", "dlib", "mediapipe"}
  /\ at \in Place /\ code \in Code
  /\ device \in {"none", "open", "released"} /\ event \in BOOLEAN
  /\ stats \in [valid : 0 .. MaxFrames, dark : 0 .. MaxFrames, black : 0 .. MaxFrames]
  /\ elapsed \in Nat /\ lines \in 0 .. MaxRules /\ stamp \in Rule \union {NoRule} /\ left \in Nat
  /\ key \in {"none", "abort", "confirm"}
  /\ wait \in Nat /\ handler \in {"waits", "cancels", "answered"} /\ reply \in Code
  /\ matched \in BOOLEAN /\ denied \in BOOLEAN /\ fault \in BOOLEAN

\* A login succeeds only after the user's face was accepted, and never when a stamp was
\* denied: no way through the rules, with whatever skipped, raising or running out, lets
\* a later rule or the end of the list overrule it (rubberstamps.execute()).
SuccessWasEarned == code = "success" => matched /\ ~denied

\* What a login ends with has its reason (ExitCode). The search says that the frames were
\* too dark when it saw none that were not, and that time is over when it was, or when it
\* was cancelled; the device is invalid only when it failed, was taken away by a cancel, or
\* is read with a plugin whose reader never returns a true ret; a stamp is to blame only
\* when it was denied or could not be run at all; no fault looks like a denial, nor like
\* a login that ran out.
EndIsExplained ==
  /\ code = "timeout" => event \/ (Over /\ stats.dark < stats.valid)
  /\ code = "too_dark" => Over /\ stats.dark = stats.valid /\ ~matched
  /\ code = "invalid_device" => fault \/ event \/ ~Ret
  /\ code = "rubberstamp" => matched /\ (denied \/ backend # "dlib")
  /\ code \in {"error", "detector", "keyboard"} => fault

\* The code is answered that the session ended with, except that a session which used
\* up the time of the request is answered for before it ends (_run_session()).
AnswerIsTrue ==
  reply # "none" => \/ reply = code /\ at = "ended"
                    \/ reply = "timeout" /\ event /\ wait = 0

\* Whatever the user does, the session ends and the client is answered.
SessionEnds == <>(at = "ended" /\ reply # "none")

\* The daemon takes the deadline that the PAM module sends for a timeout, and answers
\* before the module gives up; a search that can be run in the time has more than a
\* second left for all that comes before it.
MarginFits(seconds) ==
  LET deadline == PamDeadline(seconds) IN
  /\ Valid(deadline)
  /\ deadline - WorkerWait(deadline) >= 700
  /\ seconds \in 1 .. 28 => WorkerWait(deadline) >= 1000 * seconds + 1200

\* The handler waits no longer than the request lets it, and the time it has fits for
\* every timeout that config.ini may have.
MarginsFit ==
  /\ wait \in 0 .. WorkerWait(PamDeadline(Seconds))
  /\ \A seconds \in -1 .. 60 : MarginFits(seconds)

--------------------------------------------------------------------------------

\* The login as SessionAnswer sees it: it has the camera from the start.
Promise == INSTANCE SessionAnswer WITH
  Session <- {"login"}, Ending <- Code \ {"none"}, Refusal <- {}, TimeOver <- "timeout", None <- "none",
  Says <- [s \in {"login"} |-> [result \in Code |-> {result}]],
  phase <- [s \in {"login"} |-> CASE handler = "waits" -> "served"
                                 [] handler = "cancels" -> "stopped"
                                 [] OTHER -> "answered"],
  ending <- [s \in {"login"} |-> IF at = "ended" THEN code ELSE "none"],
  answer <- [s \in {"login"} |-> reply]

\* The daemon keeps its promise to the client, however the session's thread and that of the
\* connection meet: the session's own ending is told once it is over, or the time is over and
\* the session was told to stop first; and what it ends with afterwards is its own matter.
KeepsPromise == Promise!Spec
================================================================================
