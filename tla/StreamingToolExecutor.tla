------------------------- MODULE StreamingToolExecutor -------------------------
(* One model turn of query.ts executing tools while the response streams in:   *)
(* StreamingToolExecutor.ts, the part of query.ts that drives it, and the tool *)
(* generators (runToolUse) it consumes.  A turn may go through several         *)
(* ATTEMPTS: a streaming fallback discards the executor and makes a new one,   *)
(* while the tools of the discarded one are still running.                     *)
(*                                                                             *)
(* JavaScript is single-threaded, so an action is a stretch of code between    *)
(* two suspension points; everything that can be pending between them (a queue *)
(* sweep that awaits a start, a generator suspended in a yield, a tool waiting *)
(* for I/O) interleaves freely.                                                *)
EXTENDS Naturals, Sequences, FiniteSets

CONSTANTS
  MaxTools,      \* bound: tool_use blocks received in the turn, over all attempts
  MaxAttempts,   \* bound: executors created in the turn
  Kinds,         \* the tools the model may call
  SafeKinds,     \* isConcurrencySafe(input) is true
  BashKinds,     \* the Bash tool, whose errors cancel its siblings
  CancelKinds,   \* interruptBehavior() is 'cancel'
  UnknownKinds   \* names findToolByName does not know

ASSUME BoundsAssumption == MaxTools \in Nat \ {0} /\ MaxAttempts \in Nat \ {0}
ASSUME KindsAssumption ==
  /\ Kinds # {}
  /\ SafeKinds \subseteq Kinds /\ BashKinds \subseteq Kinds
  /\ CancelKinds \subseteq Kinds
  /\ UnknownKinds \subseteq SafeKinds   \* addTool pushes them as concurrency safe

Tools == 1..MaxTools
Attempts == 1..MaxAttempts

\* The calls of processQueue that can be suspended at the same time: one per
\* addTool, one per finished tool, and the one getRemainingResults awaits.
Sweeps == ({"add", "done"} \X Tools) \cup {<<"drain", 0>>}

VARIABLES
  received,    \* how many tool_use blocks have been handed to an executor
  kind,        \* kind[t]: the tool that block t names
  attempt,     \* attempt[t]: the executor whose tools array holds t
  status,      \* TrackedTool.status ("none": not received yet)
  body,        \* the tool call behind runToolUse, which outlives its consumer
  progress,    \* pendingProgress is non-empty
  answers,     \* the kinds of tool_result block in TrackedTool.results
  sweep,       \* sweep[s]: next index of that processQueue loop; 0 when not running
  hasErrored,  \* per executor
  discarded,   \* per executor
  current,     \* the executor query.ts holds
  aborted,     \* toolUseContext.abortController: "no", or why it was aborted
  interruptible, \* hasInterruptibleToolInProgress, as the REPL last heard it
  cursor,      \* next index of the running getCompletedResults; 0 when none runs
  suspended,   \* that getCompletedResults is suspended in a yield
  pc           \* where query.ts is

blocks == <<received, kind, attempt>>
execution == <<status, body, progress, answers, sweep, hasErrored, interruptible>>
turn == <<discarded, current, aborted>>
reader == <<cursor, suspended, pc>>
vars == <<blocks, execution, turn, reader>>

Statuses == {"none", "queued", "executing", "completed", "yielded"}
Bodies == {"none", "running", "trailing", "ended"}
AnswerKinds == {"own", "ownError", "synthetic", "internal"}
AbortReasons == {"no", "interrupt", "user"}

Safe(t) == kind[t] \in SafeKinds
Held(a) == {t \in Tools : t <= received /\ attempt[t] = a}
Executing(a) == {t \in Held(a) : status[t] = "executing"}

\* Nothing is runnable before the next event: a processQueue loop resumes in the
\* microtask after each start, and a generator that is not suspended runs on.
\* I/O (the user, a tool's progress or result) is heard only then; query.ts itself
\* is one of those who resume in microtasks, so AddTool, ScanBegins, Discard and
\* StreamEnds do not wait for it.
Idle == /\ \A s \in Sweeps : sweep[s] = 0
        /\ cursor = 0 \/ suspended

\* Seeded bugs (the Bug* operators here and below): forms of a definition that a
\* plausible mistake in the code would give it.  No specification uses them.
BugSafeRunsAnytime(t) == Safe(t) \/ Executing(attempt[t]) = {}

\* canExecuteTool
CanExecute(t) ==
  LET running == Executing(attempt[t])
  IN  running = {} \/ (Safe(t) /\ \A u \in running : Safe(u))

\* getAbortReason: "none" stands for null
AbortReason(t) ==
  IF discarded[attempt[t]] THEN "streaming_fallback"
  ELSE IF hasErrored[attempt[t]] THEN "sibling_error"
  ELSE IF aborted = "user" \/ (aborted = "interrupt" /\ kind[t] \in CancelKinds)
       THEN "user_interrupted"
  ELSE "none"

Init ==
  /\ received = 0 /\ current = 1 /\ aborted = "no" /\ cursor = 0
  /\ suspended = FALSE
  /\ kind = [t \in Tools |-> CHOOSE k \in Kinds : TRUE]
  /\ attempt = [t \in Tools |-> 1]
  /\ status = [t \in Tools |-> "none"]
  /\ body = [t \in Tools |-> "none"]
  /\ progress = [t \in Tools |-> FALSE]
  /\ answers = [t \in Tools |-> {}]
  /\ sweep = [s \in Sweeps |-> 0]
  /\ hasErrored = [a \in Attempts |-> FALSE]
  /\ discarded = [a \in Attempts |-> FALSE]
  /\ interruptible = FALSE /\ pc = "stream"

-------------------------------------------------------------------------------
(* The executor *)

\* A Bash error sets hasErrored and aborts siblingAbortController.
NoteError(t) ==
  hasErrored' = IF kind[t] \in BashKinds
                THEN [hasErrored EXCEPT ![attempt[t]] = TRUE] ELSE hasErrored

\* updateInterruptibleState, told by the executor of t.
TellInterruptible(t) ==
  LET running == {u \in Held(attempt[t]) : status'[u] = "executing"}
  IN  interruptible' = (running # {} /\ \A u \in running : kind[u] \in CancelKinds)

BugQueueNotResumed(t, kinds) ==
  /\ status' = [status EXCEPT ![t] = "completed"]
  /\ answers' = [answers EXCEPT ![t] = @ \cup kinds]
  /\ TellInterruptible(t) /\ UNCHANGED sweep

\* completeTool, and the processQueue its promise then runs.
Complete(t, kinds) ==
  /\ status' = [status EXCEPT ![t] = "completed"]
  /\ answers' = [answers EXCEPT ![t] = @ \cup kinds]
  /\ sweep' = [sweep EXCEPT ![<<"done", t>>] = 1]
  /\ TellInterruptible(t)

\* addTool, called by query.ts for a tool_use block unless the turn is aborted: for
\* all blocks of a message in one go, so the loops of several may be suspended.
AddTool ==
  LET t == received + 1
  IN  /\ pc = "stream" /\ cursor = 0 /\ aborted = "no"
      /\ received < MaxTools
      /\ received' = t
      /\ attempt' = [attempt EXCEPT ![t] = current]
      /\ \E k \in Kinds : kind' = [kind EXCEPT ![t] = k]
      /\ IF kind'[t] \in UnknownKinds
         THEN /\ status' = [status EXCEPT ![t] = "completed"]
              /\ answers' = [answers EXCEPT ![t] = {"ownError"}]
              /\ UNCHANGED sweep
         ELSE /\ status' = [status EXCEPT ![t] = "queued"]
              /\ sweep' = [sweep EXCEPT ![<<"add", t>>] = 1]
              /\ UNCHANGED answers
      /\ UNCHANGED <<body, progress, hasErrored, turn, interruptible, reader>>

\* The executor a processQueue call belongs to.
Owner(s) == IF s[1] = "drain" THEN current ELSE attempt[s[2]]

BugNoBreak(a, p) == {t \in Held(a) : t >= p /\ status[t] = "queued"}

\* Queued tools a processQueue loop of executor a standing at index p gets to:
\* it stops at a tool that cannot run and is not concurrency safe.
Reached(a, p) ==
  {t \in Held(a) : /\ t >= p /\ status[t] = "queued"
                   /\ \A u \in Held(a) :
                        p <= u /\ u < t /\ status[u] = "queued"
                          => CanExecute(u) \/ Safe(u)}
Startable(a, p) == {t \in Reached(a, p) : CanExecute(t)}

BugNoSyntheticResult(t, s) ==
  /\ AbortReason(t) # "none"
  /\ status' = [status EXCEPT ![t] = "completed"]
  /\ sweep' = [sweep EXCEPT ![s] = t + 1, ![<<"done", t>>] = 1]
  /\ UNCHANGED <<answers, body, hasErrored>>

\* executeTool up to its first suspension, for the loop s.
StartRefused(t, s) ==       \* initialAbortReason: a synthetic result, nothing runs
  /\ AbortReason(t) # "none"
  /\ status' = [status EXCEPT ![t] = "completed"]
  /\ answers' = [answers EXCEPT ![t] = {"synthetic"}]
  /\ sweep' = [sweep EXCEPT ![s] = t + 1, ![<<"done", t>>] = 1]
  /\ UNCHANGED <<body, hasErrored>>

StartCancelled(t, s) ==     \* runToolUse finds its signal aborted ('interrupt')
  /\ AbortReason(t) = "none" /\ aborted # "no"
  /\ status' = [status EXCEPT ![t] = "executing"]
  /\ answers' = [answers EXCEPT ![t] = {"ownError"}]
  /\ body' = [body EXCEPT ![t] = "trailing"]
  /\ sweep' = [sweep EXCEPT ![s] = t + 1]
  /\ NoteError(t)

BugStatusOfBody(t, s) ==
  /\ AbortReason(t) = "none" /\ aborted = "no"
  /\ body' = [body EXCEPT ![t] = "running"] /\ status' = [status EXCEPT ![t] = body'[t]]
  /\ sweep' = [sweep EXCEPT ![s] = t + 1]
  /\ UNCHANGED <<answers, hasErrored>>

StartRuns(t, s) ==
  /\ AbortReason(t) = "none" /\ aborted = "no"
  /\ status' = [status EXCEPT ![t] = "executing"]
  /\ body' = [body EXCEPT ![t] = "running"]
  /\ sweep' = [sweep EXCEPT ![s] = t + 1]
  /\ UNCHANGED <<answers, hasErrored>>

StartThrows(t, s) ==        \* the catch of collectResults
  /\ AbortReason(t) = "none"
  /\ status' = [status EXCEPT ![t] = "completed"]
  /\ answers' = [answers EXCEPT ![t] = {"internal"}]
  /\ sweep' = [sweep EXCEPT ![s] = t + 1, ![<<"done", t>>] = 1]
  /\ NoteError(t) /\ UNCHANGED body

Start(t, s) == /\ \/ StartRefused(t, s) \/ StartCancelled(t, s)
                  \/ StartRuns(t, s) \/ StartThrows(t, s)
               /\ TellInterruptible(t)

\* One leg of a processQueue loop: run on to the next start, or to the end.
SweepStarts(s) ==
  /\ sweep[s] > 0
  /\ \E t \in Startable(Owner(s), sweep[s]) :
       /\ \A u \in Startable(Owner(s), sweep[s]) : t <= u
       /\ Start(t, s)
  /\ UNCHANGED <<blocks, progress, turn, reader>>

SweepEnds(s) ==
  /\ sweep[s] > 0 /\ Startable(Owner(s), sweep[s]) = {}
  /\ sweep' = [sweep EXCEPT ![s] = 0]
  /\ IF s[1] = "drain" THEN pc' = "scan" /\ cursor' = 1
                       ELSE UNCHANGED <<pc, cursor>>
  /\ UNCHANGED suspended
  /\ UNCHANGED <<blocks, status, body, progress, answers, hasErrored, turn, interruptible>>

-------------------------------------------------------------------------------
(* The updates of a tool's generator, consumed by collectResults *)

Erred(t) == "ownError" \in answers[t]
BugOwnErrorForgotten(t) == AbortReason(t) # "none"
CutShort(t) == AbortReason(t) # "none" /\ ~Erred(t)

\* A progress update; on an abort the loop breaks and leaves the call running.
ToolProgress(t) ==
  /\ Idle /\ status[t] = "executing" /\ body[t] = "running"
  /\ IF CutShort(t)
     THEN Complete(t, {"synthetic"}) /\ UNCHANGED progress
     ELSE /\ ~progress[t]
          /\ progress' = [progress EXCEPT ![t] = TRUE]
          /\ UNCHANGED <<status, answers, sweep, interruptible>>
  /\ UNCHANGED <<blocks, body, hasErrored, turn, reader>>

\* The tool_result of the call; its attachments follow while body is "trailing".
ToolResult(t, outcome) ==
  /\ Idle /\ status[t] = "executing" /\ body[t] = "running"
  /\ IF CutShort(t)
     THEN /\ Complete(t, {"synthetic"})
          /\ body' = [body EXCEPT ![t] = "ended"]
          /\ UNCHANGED hasErrored
     ELSE /\ answers' = [answers EXCEPT ![t] = {outcome}]
          /\ body' = [body EXCEPT ![t] = "trailing"]
          /\ IF outcome = "ownError" THEN NoteError(t) ELSE UNCHANGED hasErrored
          /\ UNCHANGED <<status, sweep, interruptible>>
  /\ UNCHANGED <<blocks, progress, turn, reader>>

\* A trailing attachment reaches the loop after an abort.
ToolCutAfterResult(t) ==
  /\ status[t] = "executing" /\ body[t] = "trailing" /\ CutShort(t)
  /\ Complete(t, {"synthetic"})
  /\ body' = [body EXCEPT ![t] = "ended"]
  /\ UNCHANGED <<blocks, progress, hasErrored, turn, reader>>

\* The generator ends; a context modifier of an exclusive tool may throw.
ToolEnds(t) ==
  /\ status[t] = "executing" /\ body[t] = "trailing"
  /\ \E extra \in {{}, {"internal"}} :
       (extra # {} => ~Safe(t)) /\ Complete(t, extra)
  /\ body' = [body EXCEPT ![t] = "ended"]
  /\ UNCHANGED <<blocks, progress, hasErrored, turn, reader>>

\* A call whose loop has broken off comes to its end unheard.
DetachedCallEnds(t) ==
  /\ Idle /\ status[t] \in {"completed", "yielded"} /\ body[t] = "running"
  /\ body' = [body EXCEPT ![t] = "ended"]
  /\ UNCHANGED <<blocks, status, progress, answers, sweep, hasErrored, turn, interruptible, reader>>

\* A permission dialog is rejected: cancelAndAbort aborts the tool's controller,
\* which bubbles up to the turn's controller unless the executor was discarded.
PermissionRejected(t) ==
  /\ Idle /\ body[t] = "running" /\ aborted = "no" /\ ~discarded[attempt[t]]
  /\ aborted' = "user"
  /\ UNCHANGED <<blocks, execution, discarded, current, reader>>

-------------------------------------------------------------------------------
(* query.ts *)

\* The user presses ESC, or submits a message while only 'cancel' tools run.
AbortTurn ==
  /\ Idle /\ pc # "done" /\ aborted = "no"
  /\ \/ aborted' = "user"
     \/ interruptible /\ aborted' = "interrupt"
  /\ UNCHANGED <<blocks, execution, discarded, current, reader>>

\* Streaming fallback, model fallback, malformed-output retry: a fresh executor.
Discard ==
  /\ pc = "stream" /\ cursor = 0 /\ current < MaxAttempts
  /\ discarded' = [discarded EXCEPT ![current] = TRUE]
  /\ current' = current + 1
  /\ UNCHANGED <<blocks, execution, aborted, reader>>

\* After a stream message query.ts iterates getCompletedResults, right behind the
\* calls of addTool and with their loops still suspended.
ScanBegins ==
  /\ pc = "stream" /\ cursor = 0 /\ aborted = "no"
  /\ ~discarded[current]
  /\ cursor' = 1
  /\ UNCHANGED <<blocks, execution, turn, suspended, pc>>

\* The tools a getCompletedResults at the cursor can still yield for: it breaks
\* at an executing tool that is not concurrency safe (after its progress).
Yieldable ==
  {t \in Held(current) :
     /\ t >= cursor
     /\ progress[t] \/ status[t] = "completed"
     /\ \A u \in Held(current) :
          cursor <= u /\ u < t => ~(status[u] = "executing" /\ ~Safe(u))}

\* It yields for the first of them, and is suspended while its consumer works.
ScanYields ==
  /\ cursor > 0 /\ suspended' = TRUE
  /\ \E t \in Yieldable :
       /\ \A u \in Yieldable : t <= u
       /\ progress' = [progress EXCEPT ![t] = FALSE]
       /\ IF progress[t]
          THEN cursor' = t /\ UNCHANGED status
          ELSE /\ cursor' = t + 1
               /\ status' = [status EXCEPT ![t] = "yielded"]
  /\ UNCHANGED <<blocks, body, answers, sweep, hasErrored, turn, interruptible, pc>>

Unfinished == \E t \in Held(current) : status[t] # "yielded"
BugOnlyProgressWakes == \E t \in Held(current) : progress[t]
SomethingToYield ==
  \E t \in Held(current) : status[t] = "completed" \/ progress[t]

\* The next iteration of getRemainingResults, which awaits processQueue, or its end.
DrainLoop ==
  IF ~discarded[current] /\ Unfinished
  THEN pc' = "sweep" /\ sweep' = [sweep EXCEPT ![<<"drain", 0>>] = 1]
  ELSE pc' = "done" /\ UNCHANGED sweep

ScanEnds ==
  /\ cursor > 0 /\ Yieldable = {}
  /\ cursor' = 0 /\ suspended' = FALSE
  /\ IF pc = "stream" THEN UNCHANGED <<pc, sweep>>
     ELSE IF Executing(current) # {} /\ ~SomethingToYield
          THEN pc' = "wait" /\ UNCHANGED sweep
     ELSE DrainLoop
  /\ UNCHANGED <<blocks, status, body, progress, answers, hasErrored, turn, interruptible>>

\* The race of the executing tools' promises and the progress promise resolves.
WaitEnds ==
  /\ pc = "wait" /\ SomethingToYield
  /\ DrainLoop
  /\ UNCHANGED <<blocks, status, body, progress, answers, hasErrored, turn, interruptible, cursor, suspended>>

StreamEnds ==
  /\ pc = "stream" /\ cursor = 0
  /\ DrainLoop
  /\ UNCHANGED <<blocks, status, body, progress, answers, hasErrored, turn, interruptible, cursor, suspended>>

-------------------------------------------------------------------------------
QueryStep == ScanBegins \/ ScanYields \/ ScanEnds \/ WaitEnds \/ StreamEnds
ToolStep(t) ==
  \/ ToolProgress(t) \/ \E outcome \in {"own", "ownError"} : ToolResult(t, outcome)
  \/ ToolCutAfterResult(t) \/ ToolEnds(t) \/ DetachedCallEnds(t)
  \/ PermissionRejected(t)
SweepStep(s) == SweepStarts(s) \/ SweepEnds(s)

\* The turn is over and nothing it started is still to run.
TurnOver ==
  /\ pc = "done" /\ \A s \in Sweeps : sweep[s] = 0
  /\ \A t \in Tools : body[t] \notin {"running", "trailing"}
  /\ UNCHANGED vars

\* processQueue runs synchronously up to its first start, so a loop that addTool
\* or getRemainingResults has just called is in front of everything else.
Called(s) == s[1] # "done" /\ sweep[s] = 1

Next ==
  \/ \E s \in Sweeps : Called(s) /\ SweepStep(s)
  \/ /\ \A s \in Sweeps : ~Called(s)
     /\ \/ AddTool \/ AbortTurn \/ Discard \/ QueryStep \/ TurnOver
        \/ \E s \in Sweeps : SweepStep(s)
        \/ \E t \in Tools : ToolStep(t)

Spec == Init /\ [][Next]_vars

\* What is runnable is run.  The stream delivers finitely many messages and a call
\* finitely many progress updates, so what follows them is strongly fair.
Fairness ==
  /\ \A s \in Sweeps : WF_vars(SweepStep(s))
  /\ WF_vars(ScanYields \/ ScanEnds \/ WaitEnds)
  /\ SF_vars(StreamEnds)
  /\ \A t \in Tools :
       /\ SF_vars(\E outcome \in {"own", "ownError"} : ToolResult(t, outcome))
       /\ WF_vars(ToolCutAfterResult(t) \/ ToolEnds(t))

FairSpec == Spec /\ Fairness

-------------------------------------------------------------------------------
(* Properties *)

TypeOK ==
  /\ received \in 0..MaxTools
  /\ kind \in [Tools -> Kinds] /\ attempt \in [Tools -> Attempts]
  /\ status \in [Tools -> Statuses] /\ body \in [Tools -> Bodies]
  /\ progress \in [Tools -> BOOLEAN] /\ answers \in [Tools -> SUBSET AnswerKinds]
  /\ sweep \in [Sweeps -> 0..MaxTools + 1]
  /\ hasErrored \in [Attempts -> BOOLEAN] /\ discarded \in [Attempts -> BOOLEAN]
  /\ current \in Attempts /\ aborted \in AbortReasons
  /\ interruptible \in BOOLEAN /\ suspended \in BOOLEAN
  /\ cursor \in 0..MaxTools + 1
  /\ pc \in {"stream", "sweep", "scan", "wait", "done"}

\* "Non-concurrent tools must execute alone" (class comment): no call runs beside
\* one that is not concurrency safe, among the calls of one executor.  It holds
\* of the calls themselves, not only of statuses: a tool whose loop broke off is
\* completed while its call still runs.
ExclusiveCalls ==
  \A t, u \in Tools :
    t # u /\ attempt[t] = attempt[u] /\ body[t] = "running" /\ body[u] = "running"
      => Safe(t) /\ Safe(u)

\* "We need to maintain order for non-concurrent tools" (processQueue): no tool
\* leaves the queue before one received earlier, whichever loops are suspended.
StartsInOrder ==
  [][\A t, u \in Tools :
       /\ status[t] = "queued" /\ status'[t] # "queued"
       /\ u < t /\ attempt[u] = attempt[t]
       => status[u] # "queued"]_vars

\* Tools execute as they stream in: when the event loop goes idle, no queued tool
\* that could run has been left behind by the processQueue loops.
NothingLeftStartable == Idle => \A a \in Attempts : Startable(a, 1) = {}

\* "Queued tools won't start, and in-progress tools will receive synthetic errors"
\* (discard), and so it is after a Bash error or an abort: a tool still queued then
\* does get its synthetic answer, and never a call, although its loop may be suspended
\* or cut off behind a running tool and nobody drains a discarded executor.
QueuedNotRun ==
  \A t \in Tools :
    status[t] = "queued" /\ AbortReason(t) # "none"
      ~> body[t] = "none" /\ answers[t] = {"synthetic"}

\* "This prevents the tool from receiving a duplicate 'sibling error' message when
\* it is the one that caused the error" (collectResults).
OwnErrorNotDoubled ==
  \A t \in Tools : ~({"ownError", "synthetic"} \subseteq answers[t])

\* A turn that ends has yielded a tool_result for every tool_use handed to the
\* executor query.ts holds, aborted or not ("tool_use blocks would lack matching
\* tool_result blocks", query.ts).
EveryBlockAnswered ==
  pc = "done" => \A t \in Held(current) : status[t] = "yielded" /\ answers[t] # {}

\* "Wait for remaining tools and yield their results as they complete": the turn
\* ends when every call does.
TurnFinishes == <>(pc = "done")
================================================================================
