-------------------------- MODULE LoginSessionProofs ---------------------------
(***************************************************************************)
(* Theorems about LoginSession, for every time the search may take, every  *)
(* tick of the clock, and every set of rules.                              *)
(***************************************************************************)
EXTENDS LoginSession, TLAPS

--------------------------------------------------------------------------------
(* The deadline *)

\* The clamp of identify().
LEMMA DeadlineInRange ==
  ASSUME NEW seconds \in Int
  PROVE  /\ PamDeadline(seconds) \in Int
         /\ 1000 <= PamDeadline(seconds) /\ PamDeadline(seconds) <= 30000
  BY DEF PamDeadline, Smaller, Larger

\* The daemon takes such a deadline, and its own minimum does not matter.
LEMMA MarginIsKept ==
  ASSUME NEW deadline \in Int, 1000 <= deadline, deadline <= 30000
  PROVE  Valid(deadline) /\ WorkerWait(deadline) = deadline - 700
  BY DEF Valid, WorkerWait, Larger

\* Whatever timeout config.ini has, also one that is negative or larger than any clamp,
\* the daemon accepts the deadline that the PAM module sends for it, keeps its margin for
\* the answer, and a timeout that can be met leaves the search its time.
THEOREM DeadlineFits == \A seconds \in Int : MarginFits(seconds)
  <1> SUFFICES ASSUME NEW seconds \in Int PROVE MarginFits(seconds)
    OBVIOUS
  <1>1. PICK deadline \in Int : deadline = PamDeadline(seconds)
    BY DeadlineInRange
  <1>2. Valid(deadline) /\ WorkerWait(deadline) = deadline - 700
    BY <1>1, DeadlineInRange, MarginIsKept
  <1>3. seconds \in 1 .. 28 => deadline = 1900 + 1000 * seconds
    BY <1>1 DEF PamDeadline, Smaller, Larger
  <1>4. deadline - WorkerWait(deadline) >= 700
    BY <1>2
  <1>5. seconds \in 1 .. 28 => WorkerWait(deadline) >= 1000 * seconds + 1200
    BY <1>2, <1>3
  <1> QED
    BY <1>1, <1>2, <1>4, <1>5 DEF MarginFits

\* The handler's time to begin with.
LEMMA WaitIsNatural == WorkerWait(PamDeadline(Seconds)) \in Nat
  <1>1. PICK deadline \in Int :
          deadline = PamDeadline(Seconds) /\ 1000 <= deadline /\ deadline <= 30000
    BY SecondsAssumption, DeadlineInRange
  <1>2. WorkerWait(deadline) \in Nat
    BY <1>1, MarginIsKept
  <1> QED
    BY <1>1, <1>2

\* A timer that is over stays at zero.
LEMMA LessIsNatural ==
  ASSUME NEW time \in Nat
  PROVE  Less(time) \in 0 .. time
  BY BoundAssumption DEF Less, Larger

--------------------------------------------------------------------------------
(* The inductive invariant *)

\* A dark frame is a valid one, and a frame is read only when there is one left.
Counted ==
  /\ stats.dark <= stats.valid
  /\ stats.valid + stats.black <= MaxFrames
  /\ at = "read" => stats.valid + stats.black < MaxFrames

\* Who has a stream, and who gave it up.
StreamIsThere ==
  /\ at = "register" => device = "open"
  /\ at \in {"top", "read", "matched", "rules"} \union Running => device = "open" \/ event

\* The face is accepted once, on the way to the rules, and a denial ends the login.
MatchedThenRules ==
  /\ at \notin {"finally", "ended"} => code = "none" /\ ~denied
  /\ at \in {"templates", "load", "open", "register", "top", "read"} => ~matched
  /\ at \in {"matched", "rules"} \union Running => matched

\* The handler cancels when its time is over, and answers last.
HandlerInOrder ==
  /\ handler # "answered" => reply = "none"
  /\ handler = "cancels" => event /\ wait = 0

\* The handler's time only gets less.
WaitBounded == wait <= WorkerWait(PamDeadline(Seconds))

Search == StreamIsThere /\ MatchedThenRules

\* What the session's thread is to show, and what the handler is.
Explained == Search /\ SuccessWasEarned /\ EndIsExplained

Answered == HandlerInOrder /\ AnswerIsTrue /\ WaitBounded

IInv == TypeOK /\ Counted /\ Explained /\ Answered

\* It holds at first.
LEMMA InitIInv == Init => IInv
  <1> SUFFICES ASSUME Init PROVE IInv
    OBVIOUS
  <1>1. TypeOK /\ Counted
    <2>1. wait \in Nat
      BY WaitIsNatural DEF Init
    <2>2. stats \in [valid : 0 .. MaxFrames, dark : 0 .. MaxFrames, black : 0 .. MaxFrames]
      BY BoundAssumption DEF Init, NoStats
    <2>3. Counted
      BY BoundAssumption DEF Init, NoStats, Counted
    <2>4. /\ lines \in 0 .. MaxRules /\ stamp \in Rule \union {NoRule}
          /\ left \in Nat /\ elapsed \in Nat
      BY BoundAssumption DEF Init
    <2> QED
      BY <2>1, <2>2, <2>3, <2>4 DEF Init, TypeOK, Place, Code
  <1>2. Explained
    BY DEF Init, Explained, Search, StreamIsThere, MatchedThenRules, SuccessWasEarned,
           EndIsExplained, Running
  <1>3. Answered
    BY WaitIsNatural DEF Init, Answered, HandlerInOrder, AnswerIsTrue, WaitBounded
  <1> QED
    BY <1>1, <1>2, <1>3 DEF IInv

--------------------------------------------------------------------------------
(* What each step keeps *)

\* The session's thread does not touch what the handler has, and is over when it ended.
LEMMA SessionIsApart ==
  ASSUME Session
  PROVE  UNCHANGED <<event, answer>> /\ at # "ended"
  <1>1. UNCHANGED <<event, answer>>
    BY DEF Session, Progress, LoadTemplates, LoadPipeline, OpenStream, Register, Cancelled,
           RunsOut, GoOn, SearchFails, ReadRefused, ReadRaises, Passed, Searched, Matched,
           AllRun, Skip, StartStamp, NodRefused, KeyIsSeen, StampRunsOut, Finally, StampRaises, Nod, answer
  <1>2. at # "ended"
    BY DEF Session, Progress, LoadTemplates, LoadPipeline, OpenStream, Register, Cancelled,
           RunsOut, GoOn, SearchFails, Passed, Searched, Matched, AllRun, Skip, StartStamp,
           NodRefused, KeyIsSeen, StampRunsOut, Finally, StampRaises, Nod, Running
  <1> QED
    BY <1>1, <1>2

\* So what the client is told stays true.
LEMMA SessionKeepsAnswer ==
  ASSUME Session, IInv
  PROVE  Answered'
  BY SessionIsApart DEF IInv, Answered, HandlerInOrder, AnswerIsTrue, WaitBounded, answer

\* Every step of the connection's thread.
LEMMA HandlerKeeps ==
  ASSUME Handler, IInv
  PROVE  IInv'
  <1> USE DEF config, search, stamps, history
  <1>1. CASE Deadline
    <2>1. TypeOK' /\ Counted'
      BY <1>1 DEF Deadline, IInv, TypeOK, Counted
    <2>2. Explained'
      BY <1>1
      DEF Deadline, IInv, Explained, Search, StreamIsThere, MatchedThenRules, SuccessWasEarned,
          EndIsExplained, Over, Ret
    <2>3. Answered'
      BY <1>1 DEF Deadline, IInv, Answered, HandlerInOrder, AnswerIsTrue, WaitBounded
    <2> QED
      BY <2>1, <2>2, <2>3 DEF IInv
  <1>2. CASE Release
    <2>1. TypeOK' /\ Counted'
      BY <1>2 DEF Release, IInv, TypeOK, Counted, Code
    <2>2. Explained'
      BY <1>2
      DEF Release, IInv, Answered, HandlerInOrder, Explained, Search, StreamIsThere,
          MatchedThenRules, SuccessWasEarned, EndIsExplained, Over, Ret
    <2>3. Answered'
      BY <1>2 DEF Release, IInv, Answered, HandlerInOrder, AnswerIsTrue, WaitBounded
    <2> QED
      BY <2>1, <2>2, <2>3 DEF IInv
  <1>3. CASE Answer
    <2>1. TypeOK' /\ Counted'
      BY <1>3 DEF Answer, IInv, TypeOK, Counted
    <2>2. Explained'
      BY <1>3
      DEF Answer, IInv, Explained, Search, StreamIsThere, MatchedThenRules, SuccessWasEarned,
          EndIsExplained, Over, Ret
    <2>3. Answered'
      BY <1>3 DEF Answer, IInv, Answered, HandlerInOrder, AnswerIsTrue, WaitBounded
    <2> QED
      BY <2>1, <2>2, <2>3 DEF IInv
  <1> QED
    BY <1>1, <1>2, <1>3 DEF Handler

\* Time that passes.
LEMMA TickKeeps ==
  ASSUME Tick, IInv
  PROVE  IInv'
  <1> USE DEF config, history
  <1>1. wait' \in 0 .. wait /\ left' \in Nat
    BY LessIsNatural DEF Tick, IInv, TypeOK
  <1>2. elapsed' \in Nat /\ (at \in {"finally", "ended"} => elapsed' = elapsed)
    BY BoundAssumption DEF Tick, IInv, TypeOK, Searching
  <1>3. handler # "waits" => wait' = wait
    BY DEF Tick
  <1>4. TypeOK' /\ Counted'
    BY <1>1, <1>2 DEF Tick, IInv, TypeOK, Counted
  <1>5. Explained'
    BY <1>2
    DEF Tick, IInv, Explained, Search, StreamIsThere, MatchedThenRules, SuccessWasEarned,
        EndIsExplained, Over, Ret
  <1>6. Answered'
    <2>1. WaitBounded'
      BY <1>1, WaitIsNatural DEF IInv, TypeOK, Answered, WaitBounded
    <2> QED
      BY <2>1, <1>3 DEF Tick, IInv, Answered, HandlerInOrder, AnswerIsTrue
  <1> QED
    BY <1>4, <1>5, <1>6 DEF IInv

\* Before there is a stream to search.
LEMMA BeforeSearchKeeps ==
  ASSUME IInv,
         \/ LoadTemplates
         \/ LoadPipeline
         \/ OpenStream
         \/ Register
  PROVE  TypeOK' /\ Counted' /\ Explained'
  <1> USE DEF config, search, stamps, answer, history
  <1>1. CASE LoadTemplates
    <2>1. TypeOK' /\ Counted'
      BY <1>1, RuleAssumption, BoundAssumption
      DEF LoadTemplates, Return, IInv, TypeOK, Counted, Place, Code, Running
    <2>2. Explained'
      BY <1>1
      DEF LoadTemplates, Return, IInv, TypeOK, Explained, Search, StreamIsThere, MatchedThenRules,
          SuccessWasEarned, EndIsExplained, Over, Ret, Running
    <2> QED
      BY <2>1, <2>2
  <1>2. CASE LoadPipeline
    <2>1. TypeOK' /\ Counted'
      <3>1. at' \in Place /\ code' \in Code /\ at' # "read"
        BY <1>2, RuleAssumption DEF LoadPipeline, Return, IInv, TypeOK, Place, Code, Running
      <3>2. backend' \in {"none", "dlib", "mediapipe"} /\ fault' \in BOOLEAN
        BY <1>2, RuleAssumption, BoundAssumption DEF LoadPipeline, Return, IInv, TypeOK
      <3>3. UNCHANGED <<plugin, device, event, stats, elapsed, lines, stamp, left, key, wait,
                        handler, reply, matched, denied>>
        BY <1>2 DEF LoadPipeline, Return
      <3> QED
        BY <3>1, <3>2, <3>3 DEF IInv, TypeOK, Counted
    <2>2. Explained'
      BY <1>2
      DEF LoadPipeline, Return, IInv, TypeOK, Explained, Search, StreamIsThere, MatchedThenRules,
          SuccessWasEarned, EndIsExplained, Over, Ret, Running
    <2> QED
      BY <2>1, <2>2
  <1>3. CASE OpenStream
    <2>1. TypeOK' /\ Counted'
      <3>1. at' \in Place /\ code' \in Code /\ at' # "read"
        BY <1>3, RuleAssumption DEF OpenStream, Return, IInv, TypeOK, Place, Code, Running
      <3>2. device' \in {"none", "open", "released"} /\ fault' \in BOOLEAN
        BY <1>3, RuleAssumption, BoundAssumption DEF OpenStream, Return, IInv, TypeOK
      <3>3. UNCHANGED <<plugin, backend, event, stats, elapsed, lines, stamp, left, key, wait,
                        handler, reply, matched, denied>>
        BY <1>3 DEF OpenStream, Return
      <3> QED
        BY <3>1, <3>2, <3>3 DEF IInv, TypeOK, Counted
    <2>2. Explained'
      BY <1>3
      DEF OpenStream, Return, IInv, TypeOK, Explained, Search, StreamIsThere, MatchedThenRules,
          SuccessWasEarned, EndIsExplained, Over, Ret, Running
    <2> QED
      BY <2>1, <2>2
  <1>4. CASE Register
    <2>1. TypeOK' /\ Counted'
      BY <1>4, RuleAssumption, BoundAssumption
      DEF Register, Return, IInv, TypeOK, Counted, Place, Code, Running
    <2>2. Explained'
      BY <1>4
      DEF Register, Return, IInv, TypeOK, Explained, Search, StreamIsThere, MatchedThenRules,
          SuccessWasEarned, EndIsExplained, Over, Ret, Running
    <2> QED
      BY <2>1, <2>2
  <1> QED
    BY <1>1, <1>2, <1>3, <1>4

\* One pass of the search.
LEMMA SearchKeeps ==
  ASSUME IInv,
         \/ Cancelled
         \/ RunsOut
         \/ GoOn
         \/ SearchFails
         \/ Finally
  PROVE  TypeOK' /\ Counted' /\ Explained'
  <1> USE DEF config, search, stamps, answer, history
  <1>1. CASE Cancelled
    <2>1. TypeOK' /\ Counted'
      BY <1>1, RuleAssumption, BoundAssumption
      DEF Cancelled, Leave, SnapshotFails, ReadRefused, ReadRaises, Reads, IInv, TypeOK, Counted,
          Place, Code, Running
    <2>2. Explained'
      BY <1>1
      DEF Cancelled, Leave, SnapshotFails, ReadRefused, ReadRaises, Reads, IInv, TypeOK,
          Explained, Search, StreamIsThere, MatchedThenRules, SuccessWasEarned, EndIsExplained,
          Over, Ret, Running
    <2> QED
      BY <2>1, <2>2
  <1>2. CASE RunsOut
    <2>1. TypeOK' /\ Counted'
      <3>1. at' \in Place /\ code' \in Code /\ at' # "read"
        BY <1>2, RuleAssumption
        DEF RunsOut, Leave, SnapshotFails, ReadRefused, ReadRaises, Reads, IInv, TypeOK, Place,
            Code, Running
      <3>2. fault' \in BOOLEAN
        BY <1>2, RuleAssumption, BoundAssumption
        DEF RunsOut, Leave, SnapshotFails, ReadRefused, ReadRaises, Reads, IInv, TypeOK
      <3>3. UNCHANGED <<plugin, backend, device, event, stats, elapsed, lines, stamp, left, key,
                        wait, handler, reply, matched, denied>>
        BY <1>2 DEF RunsOut, Leave, SnapshotFails, ReadRefused, ReadRaises, Reads
      <3> QED
        BY <3>1, <3>2, <3>3 DEF IInv, TypeOK, Counted
    <2>2. Explained'
      <3>1. /\ at' = "finally" /\ at = "top" /\ Over
            /\ UNCHANGED <<plugin, backend, device, event, stats, elapsed, matched, denied>>
        BY <1>2 DEF RunsOut, Leave, SnapshotFails
      <3>2. \/ code' = "too_dark" /\ stats.dark = stats.valid
            \/ code' = "timeout" /\ stats.dark # stats.valid
            \/ code' = "error" /\ fault'
        BY <1>2 DEF RunsOut, Leave, SnapshotFails
      <3>3. stats.dark # stats.valid => stats.dark < stats.valid
        BY DEF IInv, TypeOK, Counted
      <3>4. ~matched /\ ~denied
        BY <3>1 DEF IInv, Explained, Search, MatchedThenRules
      <3> QED
        BY <3>1, <3>2, <3>3, <3>4 DEF Explained, Search, StreamIsThere, MatchedThenRules,
                                      SuccessWasEarned, EndIsExplained, Over, Running
    <2> QED
      BY <2>1, <2>2
  <1>3. CASE GoOn
    <2>1. TypeOK' /\ Counted'
      BY <1>3, RuleAssumption, BoundAssumption
      DEF GoOn, Leave, SnapshotFails, ReadRefused, ReadRaises, Reads, IInv, TypeOK, Counted,
          Place, Code, Running
    <2>2. Explained'
      BY <1>3
      DEF GoOn, Leave, SnapshotFails, ReadRefused, ReadRaises, Reads, IInv, TypeOK, Explained,
          Search, StreamIsThere, MatchedThenRules, SuccessWasEarned, EndIsExplained, Over, Ret,
          Running
    <2> QED
      BY <2>1, <2>2
  <1>4. CASE SearchFails
    <2>1. TypeOK' /\ Counted'
      <3>1. at' \in Place /\ code' \in Code /\ at' # "read"
        BY <1>4, RuleAssumption
        DEF SearchFails, Leave, SnapshotFails, ReadRefused, ReadRaises, Reads, IInv, TypeOK,
            Place, Code, Running
      <3>2. fault' \in BOOLEAN
        BY <1>4, RuleAssumption, BoundAssumption
        DEF SearchFails, Leave, SnapshotFails, ReadRefused, ReadRaises, Reads, IInv, TypeOK
      <3>3. UNCHANGED <<plugin, backend, device, event, stats, elapsed, lines, stamp, left, key,
                        wait, handler, reply, matched, denied>>
        BY <1>4 DEF SearchFails, Leave, SnapshotFails, ReadRefused, ReadRaises, Reads
      <3> QED
        BY <3>1, <3>2, <3>3 DEF IInv, TypeOK, Counted
    <2>2. Explained'
      BY <1>4
      DEF SearchFails, Leave, SnapshotFails, ReadRefused, ReadRaises, Reads, IInv, TypeOK,
          Explained, Search, StreamIsThere, MatchedThenRules, SuccessWasEarned, EndIsExplained,
          Over, Ret, Running
    <2> QED
      BY <2>1, <2>2
  <1>5. CASE Finally
    <2>1. TypeOK' /\ Counted'
      BY <1>5, RuleAssumption, BoundAssumption
      DEF Finally, Leave, SnapshotFails, ReadRefused, ReadRaises, Reads, IInv, TypeOK, Counted,
          Place, Code, Running
    <2>2. Explained'
      BY <1>5
      DEF Finally, Leave, SnapshotFails, ReadRefused, ReadRaises, Reads, IInv, TypeOK, Explained,
          Search, StreamIsThere, MatchedThenRules, SuccessWasEarned, EndIsExplained, Over, Ret,
          Running
    <2> QED
      BY <2>1, <2>2
  <1> QED
    BY <1>1, <1>2, <1>3, <1>4, <1>5

\* Between the stamps.
LEMMA RulesKeep ==
  ASSUME IInv,
         \/ Matched
         \/ AllRun
         \/ \E rule \in Rule : Skip(rule)
         \/ \E rule \in Rule : StartStamp(rule)
  PROVE  TypeOK' /\ Counted' /\ Explained'
  <1> USE DEF config, search, stamps, answer, history
  <1>1. CASE Matched
    <2>1. TypeOK' /\ Counted'
      <3>1. at' \in Place /\ code' \in Code /\ at' # "read"
        BY <1>1, RuleAssumption
        DEF Matched, Leave, SnapshotFails, StampsCanRun, KeyboardMissing, IInv, TypeOK, Place,
            Code, Running
      <3>2. lines' \in 0 .. MaxRules /\ fault' \in BOOLEAN
        BY <1>1, RuleAssumption, BoundAssumption
        DEF Matched, Leave, SnapshotFails, StampsCanRun, KeyboardMissing, IInv, TypeOK
      <3>3. UNCHANGED <<plugin, backend, device, event, stats, elapsed, stamp, left, key, wait,
                        handler, reply, matched, denied>>
        BY <1>1 DEF Matched, Leave, SnapshotFails, StampsCanRun, KeyboardMissing
      <3> QED
        BY <3>1, <3>2, <3>3 DEF IInv, TypeOK, Counted
    <2>2. Explained'
      BY <1>1
      DEF Matched, Leave, SnapshotFails, StampsCanRun, KeyboardMissing, IInv, TypeOK, Explained,
          Search, StreamIsThere, MatchedThenRules, SuccessWasEarned, EndIsExplained, Over, Ret,
          Running
    <2> QED
      BY <2>1, <2>2
  <1>2. CASE AllRun
    <2>1. TypeOK' /\ Counted'
      BY <1>2, RuleAssumption, BoundAssumption
      DEF AllRun, Leave, SnapshotFails, StampsCanRun, KeyboardMissing, IInv, TypeOK, Counted,
          Place, Code, Running
    <2>2. Explained'
      BY <1>2
      DEF AllRun, Leave, SnapshotFails, StampsCanRun, KeyboardMissing, IInv, TypeOK, Explained,
          Search, StreamIsThere, MatchedThenRules, SuccessWasEarned, EndIsExplained, Over, Ret,
          Running
    <2> QED
      BY <2>1, <2>2
  <1>3. CASE \E rule \in Rule : Skip(rule)
    <2> PICK rule \in Rule : Skip(rule)
      BY <1>3
    <2>1. TypeOK' /\ Counted'
      <3>1. at' \in Place /\ code' \in Code /\ at' # "read"
        BY RuleAssumption
        DEF Skip, Leave, SnapshotFails, StampsCanRun, KeyboardMissing, IInv, TypeOK, Place, Code,
            Running
      <3>2. lines' \in 0 .. MaxRules /\ fault' \in BOOLEAN
        <4>1. lines > 0 /\ lines' = lines - 1
          BY DEF Skip
        <4>2. fault' = fault \/ fault' = TRUE
          BY DEF Skip
        <4>3. lines' \in 0 .. MaxRules
          BY <4>1, BoundAssumption DEF IInv, TypeOK
        <4>4. fault' \in BOOLEAN
          BY <4>2 DEF IInv, TypeOK
        <4> QED
          BY <4>3, <4>4
      <3>3. UNCHANGED <<plugin, backend, device, event, stats, elapsed, stamp, left, key, wait,
                        handler, reply, matched, denied>>
        BY DEF Skip, Leave, SnapshotFails, StampsCanRun, KeyboardMissing
      <3> QED
        BY <3>1, <3>2, <3>3 DEF IInv, TypeOK, Counted
    <2>2. Explained'
      BY DEF Skip, Leave, SnapshotFails, StampsCanRun, KeyboardMissing, IInv, TypeOK, Explained,
             Search, StreamIsThere, MatchedThenRules, SuccessWasEarned, EndIsExplained, Over, Ret,
             Running
    <2> QED
      BY <2>1, <2>2
  <1>4. CASE \E rule \in Rule : StartStamp(rule)
    <2> PICK rule \in Rule : StartStamp(rule)
      BY <1>4
    <2>1. TypeOK' /\ Counted'
      <3>1. at' \in Place /\ code' \in Code /\ at' # "read"
        BY RuleAssumption
        DEF StartStamp, Leave, SnapshotFails, StampsCanRun, KeyboardMissing, IInv, TypeOK, Place,
            Code, Running
      <3>2. /\ lines' \in 0 .. MaxRules /\ key' \in {"none", "abort", "confirm"} /\ fault' \in BOOLEAN
            /\ stamp' \in Rule \union {NoRule} /\ left' \in Nat
        <4>1. lines > 0 /\ lines' = lines - 1 /\ key' = "none"
          BY DEF StartStamp
        <4>2. fault' = fault \/ fault' = TRUE
          BY DEF StartStamp, KeyboardMissing
        <4>3. (stamp' = rule /\ left' = rule.time) \/ UNCHANGED <<stamp, left>>
          BY DEF StartStamp, KeyboardMissing
        <4>4. rule.time \in Nat
          BY RuleAssumption
        <4>5. lines' \in 0 .. MaxRules
          BY <4>1, BoundAssumption DEF IInv, TypeOK
        <4>6. fault' \in BOOLEAN
          BY <4>2 DEF IInv, TypeOK
        <4>7. stamp' \in Rule \union {NoRule} /\ left' \in Nat
          BY <4>3, <4>4 DEF IInv, TypeOK
        <4> QED
          BY <4>1, <4>5, <4>6, <4>7
      <3>3. UNCHANGED <<plugin, backend, device, event, stats, elapsed, wait, handler, reply,
                        matched, denied>>
        BY DEF StartStamp, Leave, SnapshotFails, StampsCanRun, KeyboardMissing
      <3> QED
        BY <3>1, <3>2, <3>3 DEF IInv, TypeOK, Counted
    <2>2. Explained'
      BY DEF StartStamp, Leave, SnapshotFails, StampsCanRun, KeyboardMissing, IInv, TypeOK,
             Explained, Search, StreamIsThere, MatchedThenRules, SuccessWasEarned, EndIsExplained,
             Over, Ret, Running
    <2> QED
      BY <2>1, <2>2
  <1> QED
    BY <1>1, <1>2, <1>3, <1>4

\* While a stamp runs.
LEMMA StampKeeps ==
  ASSUME IInv,
         \/ NodRefused
         \/ KeyIsSeen
         \/ StampRunsOut
         \/ StampRaises
         \/ \E yes \in BOOLEAN : Nod(yes)
  PROVE  TypeOK' /\ Counted' /\ Explained'
  <1> USE DEF config, search, stamps, answer, history
  <1>1. CASE NodRefused
    <2>1. TypeOK' /\ Counted'
      BY <1>1, RuleAssumption, BoundAssumption
      DEF NodRefused, Leave, ReadRefused, Reads, Result, NextRule, StampOver, IInv, TypeOK,
          Counted, Place, Code, Running
    <2>2. Explained'
      BY <1>1
      DEF NodRefused, Leave, ReadRefused, Reads, Result, NextRule, StampOver, IInv, TypeOK,
          Explained, Search, StreamIsThere, MatchedThenRules, SuccessWasEarned, EndIsExplained,
          Over, Ret, Running
    <2> QED
      BY <2>1, <2>2
  <1>2. CASE KeyIsSeen
    <2>1. TypeOK' /\ Counted'
      BY <1>2, RuleAssumption, BoundAssumption
      DEF KeyIsSeen, Leave, ReadRefused, Reads, Result, NextRule, StampOver, IInv, TypeOK,
          Counted, Place, Code, Running
    <2>2. Explained'
      <3>1. /\ at = "hotkey" /\ key \in {"abort", "confirm"}
            /\ UNCHANGED <<plugin, backend, device, event, stats, elapsed, matched, fault>>
        BY <1>2 DEF KeyIsSeen, IInv, TypeOK
      <3>2. CASE key = "confirm"
        <4>1. at' = "rules" /\ UNCHANGED code /\ denied' = denied
          BY <1>2, <3>2 DEF KeyIsSeen, Result, NextRule, IInv, TypeOK
        <4> QED
          BY <3>1, <4>1 DEF IInv, Explained, Search, StreamIsThere, MatchedThenRules,
                            SuccessWasEarned, EndIsExplained, Over, Ret, Running
      <3>3. CASE key = "abort"
        <4>1. at' = "finally" /\ code' = "rubberstamp" /\ denied'
          BY <1>2, <3>3 DEF KeyIsSeen, Result, Leave
        <4> QED
          BY <3>1, <4>1 DEF IInv, Explained, Search, StreamIsThere, MatchedThenRules,
                            SuccessWasEarned, EndIsExplained, Over, Ret, Running
      <3> QED
        BY <3>1, <3>2, <3>3
    <2> QED
      BY <2>1, <2>2
  <1>3. CASE StampRunsOut
    <2>1. TypeOK' /\ Counted'
      BY <1>3, RuleAssumption, BoundAssumption
      DEF StampRunsOut, Leave, ReadRefused, Reads, Result, NextRule, StampOver, IInv, TypeOK,
          Counted, Place, Code, Running
    <2>2. Explained'
      BY <1>3
      DEF StampRunsOut, Leave, ReadRefused, Reads, Result, NextRule, StampOver, IInv, TypeOK,
          Explained, Search, StreamIsThere, MatchedThenRules, SuccessWasEarned, EndIsExplained,
          Over, Ret, Running
    <2> QED
      BY <2>1, <2>2
  <1>4. CASE StampRaises
    <2>1. TypeOK' /\ Counted'
      BY <1>4, RuleAssumption, BoundAssumption
      DEF StampRaises, Leave, ReadRefused, Reads, Result, NextRule, StampOver, IInv, TypeOK,
          Counted, Place, Code, Running
    <2>2. Explained'
      BY <1>4
      DEF StampRaises, Leave, ReadRefused, Reads, Result, NextRule, StampOver, IInv, TypeOK,
          Explained, Search, StreamIsThere, MatchedThenRules, SuccessWasEarned, EndIsExplained,
          Over, Ret, Running
    <2> QED
      BY <2>1, <2>2
  <1>5. CASE \E yes \in BOOLEAN : Nod(yes)
    <2> PICK yes \in BOOLEAN : Nod(yes)
      BY <1>5
    <2>1. TypeOK' /\ Counted'
      BY RuleAssumption, BoundAssumption
      DEF Nod, Leave, ReadRefused, Reads, Result, NextRule, StampOver, IInv, TypeOK, Counted,
          Place, Code, Running
    <2>2. Explained'
      BY DEF Nod, Leave, ReadRefused, Reads, Result, NextRule, StampOver, IInv, TypeOK, Explained,
             Search, StreamIsThere, MatchedThenRules, SuccessWasEarned, EndIsExplained, Over, Ret,
             Running
    <2> QED
      BY <2>1, <2>2
  <1> QED
    BY <1>1, <1>2, <1>3, <1>4, <1>5

\* A frame was read, and counted.
LEMMA FrameKeeps ==
  ASSUME IInv,
         NEW darkness \in Darkness, NEW faces \in SUBSET Distance,
         Passed(darkness) \/ Searched(darkness, faces)
  PROVE  TypeOK' /\ Counted' /\ Explained'
  <1> USE DEF config, search, stamps, answer
  <1>1. CASE Passed(darkness)
    <2>1. at = "read" /\ at' = "top"
          /\ UNCHANGED <<plugin, backend, code, device, event, elapsed, lines, stamp, left, key, wait,
                         handler, reply, matched, denied, fault>>
      BY <1>1 DEF Passed, history
    <2>2. \/ stats' = [stats EXCEPT !.black = @ + 1]
          \/ stats' = [stats EXCEPT !.valid = @ + 1, !.dark = @ + 1]
      BY <1>1 DEF Passed
    <2>3. /\ stats' \in [valid : 0 .. MaxFrames, dark : 0 .. MaxFrames, black : 0 .. MaxFrames]
          /\ Counted'
      <3>1. CASE stats' = [stats EXCEPT !.black = @ + 1]
        BY <2>1, <3>1, BoundAssumption DEF IInv, TypeOK, Counted
      <3>2. CASE stats' = [stats EXCEPT !.valid = @ + 1, !.dark = @ + 1]
        <4>1. /\ stats.valid \in Nat /\ stats.dark \in Nat /\ stats.black \in Nat
              /\ stats.dark <= stats.valid /\ stats.valid + stats.black < MaxFrames
          BY <2>1, BoundAssumption DEF IInv, TypeOK, Counted
        <4>2. /\ stats'.valid = stats.valid + 1 /\ stats'.dark = stats.dark + 1
              /\ stats'.black = stats.black
          BY <3>2 DEF IInv, TypeOK
        <4>3. Counted'
          BY <2>1, <4>1, <4>2, BoundAssumption DEF Counted
        <4>4. stats.valid + 1 \in 0 .. MaxFrames /\ stats.dark + 1 \in 0 .. MaxFrames
          BY <4>1, BoundAssumption
        <4>5. stats' \in [valid : 0 .. MaxFrames, dark : 0 .. MaxFrames, black : 0 .. MaxFrames]
          BY <3>2, <4>4 DEF IInv, TypeOK
        <4> QED
          BY <4>3, <4>5
      <3> QED
        BY <2>2, <3>1, <3>2
    <2>4. TypeOK'
      BY <2>1, <2>3 DEF IInv, TypeOK, Place
    <2>5. Explained'
      BY <2>1
      DEF IInv, Explained, Search, StreamIsThere, MatchedThenRules, SuccessWasEarned,
          EndIsExplained, Running
    <2> QED
      BY <2>3, <2>4, <2>5
  <1>2. CASE Searched(darkness, faces)
    <2>1. at = "read" /\ stats' = [stats EXCEPT !.valid = @ + 1]
          /\ UNCHANGED <<plugin, backend, code, device, event, elapsed, lines, stamp, left, key, wait,
                         handler, reply, denied, fault>>
      BY <1>2 DEF Searched
    <2>2. at' \in {"matched", "top"} /\ (at' = "matched" => matched') /\ (at' = "top" => ~matched')
      BY <1>2 DEF Searched
    <2>3. matched' \in BOOLEAN
      <3>1. matched' = Accepted(faces)
        BY <1>2 DEF Searched
      <3>2. Accepted(faces) \in BOOLEAN
        BY Zenon DEF Accepted
      <3> QED
        BY <3>1, <3>2
    <2>4. /\ stats' \in [valid : 0 .. MaxFrames, dark : 0 .. MaxFrames, black : 0 .. MaxFrames]
          /\ Counted'
      BY <2>1, <2>2, BoundAssumption DEF IInv, TypeOK, Counted
    <2>5. TypeOK'
      BY <2>1, <2>2, <2>3, <2>4 DEF IInv, TypeOK, Place
    <2>6. Explained'
      BY <2>1, <2>2
      DEF IInv, Explained, Search, StreamIsThere, MatchedThenRules, SuccessWasEarned,
          EndIsExplained, Running
    <2> QED
      BY <2>4, <2>5, <2>6
  <1> QED
    BY <1>1, <1>2

\* The user presses a hotkey.
LEMMA PressKeyKeeps ==
  ASSUME IInv, NEW k \in {"abort", "confirm"}, PressKey(k)
  PROVE  IInv'
  <1> USE DEF config, search, answer, history
  <1>1. TypeOK' /\ Counted'
    BY DEF PressKey, IInv, TypeOK, Counted
  <1>2. Explained'
    BY DEF PressKey, IInv, Explained, Search, StreamIsThere, MatchedThenRules, SuccessWasEarned,
           EndIsExplained, Over, Ret
  <1>3. Answered'
    BY DEF PressKey, IInv, Answered, HandlerInOrder, AnswerIsTrue, WaitBounded
  <1> QED
    BY <1>1, <1>2, <1>3 DEF IInv

\* Every step of the session's thread.
LEMMA SessionKeeps ==
  ASSUME IInv, Session
  PROVE  IInv'
  <1>1. TypeOK' /\ Counted' /\ Explained'
    <2>1. CASE LoadTemplates \/ LoadPipeline \/ OpenStream \/ Register
      BY <2>1, BeforeSearchKeeps
    <2>2. CASE Cancelled \/ RunsOut \/ GoOn \/ SearchFails \/ Finally
      BY <2>2, SearchKeeps
    <2>3. CASE \E darkness \in Darkness :
                 Passed(darkness) \/ \E faces \in SUBSET Distance : Searched(darkness, faces)
      BY <2>3, FrameKeeps
    <2>4. CASE Matched \/ AllRun \/ \E rule \in Rule : Skip(rule) \/ StartStamp(rule)
      BY <2>4, RulesKeep
    <2>5. CASE \/ NodRefused \/ KeyIsSeen \/ StampRunsOut \/ StampRaises
               \/ \E yes \in BOOLEAN : Nod(yes)
      BY <2>5, StampKeeps
    <2> QED
      BY <2>1, <2>2, <2>3, <2>4, <2>5 DEF Session, Progress
  <1>2. Answered'
    BY SessionKeepsAnswer
  <1> QED
    BY <1>1, <1>2 DEF IInv

\* The invariant is inductive.
LEMMA StepIInv == IInv /\ [Next]_vars => IInv'
  <1> SUFFICES ASSUME IInv, [Next]_vars PROVE IInv'
    OBVIOUS
  <1>1. CASE Session
    BY <1>1, SessionKeeps
  <1>2. CASE Handler
    BY <1>2, HandlerKeeps
  <1>3. CASE Tick
    BY <1>3, TickKeeps
  <1>4. CASE \E k \in {"abort", "confirm"} : PressKey(k)
    BY <1>4, PressKeyKeeps
  <1>5. CASE UNCHANGED vars
    <2> USE <1>5 DEF vars, config, search, stamps, answer, history
    <2>1. TypeOK' /\ Counted'
      BY DEF IInv, TypeOK, Counted
    <2>2. Explained'
      BY DEF IInv, Explained, Search, StreamIsThere, MatchedThenRules, SuccessWasEarned,
             EndIsExplained, Over, Ret
    <2>3. Answered'
      BY DEF IInv, Answered, HandlerInOrder, AnswerIsTrue, WaitBounded
    <2> QED
      BY <2>1, <2>2, <2>3 DEF IInv
  <1> QED
    BY <1>1, <1>2, <1>3, <1>4, <1>5 DEF Next, Done

LEMMA Invariance == Spec => []IInv
  BY InitIInv, StepIInv, PTL DEF Spec

--------------------------------------------------------------------------------

\* Types, for every instance: no timer is below zero, no counter above its bound.
THEOREM LoginTypeCorrect == Spec => []TypeOK
  BY Invariance, PTL DEF IInv

\* Whatever the rules are and however the stamps go, a login that succeeds had its face accepted
\* and no stamp denied (rubberstamps.execute()).
THEOREM SuccessIsEarned == Spec => []SuccessWasEarned
  <1>1. IInv => SuccessWasEarned
    BY DEF IInv, Explained
  <1> QED
    BY <1>1, Invariance, PTL

\* Every exit of run() has its reason, for every time of the search and number of frames.
THEOREM EveryEndIsExplained == Spec => []EndIsExplained
  <1>1. IInv => EndIsExplained
    BY DEF IInv, Explained
  <1> QED
    BY <1>1, Invariance, PTL

\* The client is told the session's code or, when its time is over, just that.
THEOREM AnswersAreTheSessions == Spec => []AnswerIsTrue
  <1>1. IInv => AnswerIsTrue
    BY DEF IInv, Answered
  <1> QED
    BY <1>1, Invariance, PTL

\* The handler never waits longer than the request lets it, and the daemon's margins fit
\* every timeout (_run_session(), identify()).
THEOREM MarginsAlwaysFit == Spec => []MarginsFit
  <1>1. \A seconds \in -1 .. 60 : MarginFits(seconds)
    BY DeadlineFits
  <1>2. IInv => wait \in 0 .. WorkerWait(PamDeadline(Seconds))
    BY WaitIsNatural DEF IInv, TypeOK, Answered, WaitBounded
  <1>3. IInv => MarginsFit
    BY <1>1, <1>2 DEF MarginsFit
  <1> QED
    BY <1>3, Invariance, PTL

--------------------------------------------------------------------------------
(* The promise to the client *)

\* Where run() is over, or on its way out, it has a code.
EndHasCode == at \in {"finally", "ended"} => code # "none"

\* Every way out of run() sets the code, and nothing takes it back.
LEMMA StepCode ==
  ASSUME EndHasCode, [Next]_vars
  PROVE  EndHasCode'
  <1> USE DEF EndHasCode, Leave, Return
  <1>1. CASE LoadTemplates \/ LoadPipeline \/ OpenStream \/ Register
    BY <1>1 DEF LoadTemplates, LoadPipeline, OpenStream, Register
  <1>2. CASE Cancelled \/ RunsOut \/ GoOn \/ SearchFails \/ Finally
    BY <1>2 DEF Cancelled, RunsOut, SnapshotFails, GoOn, SearchFails, ReadRefused, ReadRaises, Finally
  <1>3. ASSUME NEW darkness \in Darkness,
               Passed(darkness) \/ \E faces \in SUBSET Distance : Searched(darkness, faces)
        PROVE  EndHasCode'
    BY <1>3 DEF Passed, Searched
  <1>4. CASE Matched \/ AllRun
    BY <1>4 DEF Matched, SnapshotFails, AllRun
  <1>5. ASSUME NEW rule \in Rule, Skip(rule) \/ StartStamp(rule) PROVE EndHasCode'
    BY <1>5 DEF Skip, StartStamp, KeyboardMissing, Running
  <1>6. CASE NodRefused \/ KeyIsSeen \/ StampRunsOut \/ StampRaises \/ \E yes \in BOOLEAN : Nod(yes)
    BY <1>6 DEF NodRefused, ReadRefused, KeyIsSeen, StampRunsOut, StampRaises, Nod, Result, NextRule
  <1>7. CASE Handler \/ Tick \/ (\E k \in {"abort", "confirm"} : PressKey(k)) \/ UNCHANGED vars
    BY <1>7 DEF Handler, Deadline, Release, Answer, Tick, PressKey, vars
  <1> QED
    BY <1>1, <1>2, <1>3, <1>4, <1>5, <1>6, <1>7 DEF Next, Session, Progress, Done

\* It holds from the beginning.
LEMMA EndsHaveCodes == Spec => []EndHasCode
  <1>1. Init => EndHasCode
    BY DEF Init, EndHasCode
  <1> QED
    BY <1>1, StepCode, PTL DEF Spec

\* What the promise is about: a step that leaves it alone, and one that ends the session.
LEMMA PromiseStands ==
  ASSUME UNCHANGED <<handler, reply>>, at' = "ended" <=> at = "ended", at = "ended" => code' = code
  PROVE  UNCHANGED Promise!vars
  BY DEF Promise!vars

\* The end of the session is one for the promise, whatever its client was told by then.
LEMMA SessionEnding ==
  ASSUME TypeOK, TypeOK', EndHasCode', UNCHANGED <<handler, reply>>, at # "ended", at' = "ended"
  PROVE  Promise!End("login")
  <1>1. code' \in Code \ {"none"}
    BY DEF TypeOK, EndHasCode
  <1> QED
    BY <1>1 DEF TypeOK, Promise!End, Promise!Ends

\* Every step of a login is one that the promise allows.
LEMMA StepPromise ==
  ASSUME IInv, IInv', EndHasCode, EndHasCode', [Next]_vars
  PROVE  [Promise!Next]_(Promise!vars)
  <1>1. TypeOK /\ TypeOK'
    BY DEF IInv
  <1>2. CASE Session
    <2>1. UNCHANGED <<handler, reply>> /\ at # "ended"
      BY <1>2, SessionIsApart DEF answer
    <2>2. CASE at' = "ended"
      BY <1>1, <2>1, <2>2, SessionEnding DEF Promise!Next
    <2>3. CASE at' # "ended"
      BY <2>1, <2>3, PromiseStands
    <2> QED
      BY <2>2, <2>3
  <1>3. CASE Deadline
    <2>1. /\ handler = "waits" /\ handler' = "cancels" /\ at # "ended"
          /\ UNCHANGED <<at, code, reply>>
      BY <1>3 DEF Deadline
    <2>2. Promise!Stop("login")
      BY <2>1 DEF Promise!Stop, Promise!Move
    <2> QED
      BY <2>2 DEF Promise!Next
  <1>4. CASE Release
    <2>1. /\ handler = "cancels" /\ handler' = "answered" /\ reply' = "timeout"
          /\ UNCHANGED <<at, code>>
      BY <1>4 DEF Release
    <2>2. Promise!GiveUp("login")
      BY <2>1 DEF Promise!GiveUp, Promise!Move, Promise!Told
    <2> QED
      BY <2>2 DEF Promise!Next
  <1>5. CASE Answer
    <2>1. /\ handler = "waits" /\ handler' = "answered" /\ at = "ended" /\ reply' = code
          /\ UNCHANGED <<at, code>> /\ code \in Code \ {"none"}
      BY <1>1, <1>5 DEF Answer, TypeOK, EndHasCode
    <2>2. Promise!Tell("login")
      BY <2>1 DEF Promise!Tell, Promise!Move, Promise!Told
    <2> QED
      BY <2>2 DEF Promise!Next
  <1>6. CASE Tick \/ (\E k \in {"abort", "confirm"} : PressKey(k)) \/ UNCHANGED vars
    <2>1. UNCHANGED <<at, code, handler, reply>>
      BY <1>6 DEF Tick, PressKey, vars, answer
    <2> QED
      BY <2>1, PromiseStands
  <1> QED
    BY <1>2, <1>3, <1>4, <1>5, <1>6 DEF Next, Handler, Done

\* For every search time and all rules, a login implements SessionAnswer: its client is told
\* its own ending or, after it was told to stop, that the time is over (_run_session()).
THEOREM LoginKeepsPromise == Spec => KeepsPromise
  <1>1. Init => Promise!Init
    BY DEF Init, Promise!Init
  <1> QED
    BY <1>1, Invariance, EndsHaveCodes, StepPromise, PTL DEF Spec, KeepsPromise, Promise!Spec

================================================================================
