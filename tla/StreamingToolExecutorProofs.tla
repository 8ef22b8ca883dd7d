---------------------- MODULE StreamingToolExecutorProofs ----------------------
(* Proofs about StreamingToolExecutor for any number of tools, attempts and    *)
(* kinds of tool.                                                              *)
EXTENDS StreamingToolExecutor, TLAPS

\* The processQueue loops that a step may set going.
LEMMA SweepNames ==
  /\ <<"drain", 0>> \in Sweeps
  /\ \A t \in Tools : <<"add", t>> \in Sweeps /\ <<"done", t>> \in Sweeps
BY DEF Sweeps

LEMMA ReachedAreTools ==
  \A s \in Sweeps : Startable(Owner(s), sweep[s]) \subseteq Tools
BY DEF Startable, Reached, Held

-------------------------------------------------------------------------------
(* Type correctness *)

LEMMA InitTypeOK == Init => TypeOK
<1> SUFFICES ASSUME Init PROVE TypeOK
  OBVIOUS
<1>1. (CHOOSE k \in Kinds : TRUE) \in Kinds
  BY KindsAssumption
<1>2. 1 \in Attempts /\ 0 \in 0..MaxTools /\ 0 \in 0..MaxTools + 1
  BY BoundsAssumption, SMT DEF Attempts
<1>3. kind \in [Tools -> Kinds] /\ attempt \in [Tools -> Attempts]
  BY <1>1, <1>2 DEF Init
<1>4. /\ status \in [Tools -> Statuses] /\ body \in [Tools -> Bodies]
      /\ progress \in [Tools -> BOOLEAN] /\ answers \in [Tools -> SUBSET AnswerKinds]
  BY DEF Init, Statuses, Bodies
<1>5. /\ sweep \in [Sweeps -> 0..MaxTools + 1]
      /\ hasErrored \in [Attempts -> BOOLEAN] /\ discarded \in [Attempts -> BOOLEAN]
  BY <1>2 DEF Init
<1> QED
  BY <1>2, <1>3, <1>4, <1>5 DEF Init, TypeOK, AbortReasons

LEMMA CompleteTypeOK ==
  ASSUME TypeOK, NEW t \in Tools, NEW K \in SUBSET AnswerKinds, Complete(t, K)
  PROVE  /\ status' \in [Tools -> Statuses]
         /\ answers' \in [Tools -> SUBSET AnswerKinds]
         /\ sweep' \in [Sweeps -> 0..MaxTools + 1]
         /\ interruptible' \in BOOLEAN
<1>1. 1 \in 0..MaxTools + 1
  BY BoundsAssumption, SMT
<1>2. status' \in [Tools -> Statuses]
  BY DEF TypeOK, Complete, Statuses
<1>3. answers' \in [Tools -> SUBSET AnswerKinds]
  BY DEF TypeOK, Complete
<1>4. sweep' \in [Sweeps -> 0..MaxTools + 1]
  BY <1>1, SweepNames DEF TypeOK, Complete
<1> QED
  BY <1>2, <1>3, <1>4 DEF Complete, TellInterruptible

LEMMA NoteErrorTypeOK ==
  ASSUME TypeOK, NEW t \in Tools, NoteError(t)
  PROVE  hasErrored' \in [Attempts -> BOOLEAN]
BY DEF TypeOK, NoteError

LEMMA DrainLoopTypeOK ==
  ASSUME TypeOK, DrainLoop
  PROVE  /\ sweep' \in [Sweeps -> 0..MaxTools + 1]
         /\ pc' \in {"stream", "sweep", "scan", "wait", "done"}
<1>1. 1 \in 0..MaxTools + 1
  BY BoundsAssumption, SMT
<1> QED
  BY <1>1, SweepNames, SMT DEF TypeOK, DrainLoop

LEMMA StartTypeOK ==
  ASSUME TypeOK, NEW t \in Tools, NEW s \in Sweeps, Start(t, s)
  PROVE  /\ status' \in [Tools -> Statuses] /\ body' \in [Tools -> Bodies]
         /\ answers' \in [Tools -> SUBSET AnswerKinds]
         /\ sweep' \in [Sweeps -> 0..MaxTools + 1]
         /\ hasErrored' \in [Attempts -> BOOLEAN]
         /\ interruptible' \in BOOLEAN
<1>1. 1 \in 0..MaxTools + 1 /\ t + 1 \in 0..MaxTools + 1
  BY BoundsAssumption, SMT DEF Tools
<1>2. interruptible' \in BOOLEAN
  BY DEF Start, TellInterruptible
<1>3. CASE StartRefused(t, s)
  <2>1. sweep' \in [Sweeps -> 0..MaxTools + 1]
    BY <1>1, <1>3, SweepNames DEF TypeOK, StartRefused
  <2>2. status' \in [Tools -> Statuses] /\ answers' \in [Tools -> SUBSET AnswerKinds]
    BY <1>3 DEF TypeOK, StartRefused, Statuses, AnswerKinds
  <2> QED
    BY <1>2, <1>3, <2>1, <2>2 DEF TypeOK, StartRefused
<1>4. CASE StartCancelled(t, s)
  BY <1>1, <1>2, <1>4, NoteErrorTypeOK, SMT
  DEF TypeOK, StartCancelled, Statuses, AnswerKinds, Bodies
<1>5. CASE StartRuns(t, s)
  BY <1>1, <1>2, <1>5, SMT DEF TypeOK, StartRuns, Statuses, Bodies
<1>6. CASE StartThrows(t, s)
  <2>1. sweep' \in [Sweeps -> 0..MaxTools + 1]
    BY <1>1, <1>6, SweepNames DEF TypeOK, StartThrows
  <2>2. status' \in [Tools -> Statuses] /\ answers' \in [Tools -> SUBSET AnswerKinds]
    BY <1>6 DEF TypeOK, StartThrows, Statuses, AnswerKinds
  <2> QED
    BY <1>2, <1>6, <2>1, <2>2, NoteErrorTypeOK DEF TypeOK, StartThrows
<1> QED
  BY <1>3, <1>4, <1>5, <1>6 DEF Start

LEMMA SweepTypeOK ==
  ASSUME TypeOK, NEW s \in Sweeps, SweepStep(s)
  PROVE  TypeOK'
<1>1. CASE SweepStarts(s)
  <2>1. PICK t \in Tools : Start(t, s)
    BY <1>1, ReachedAreTools DEF SweepStarts
  <2> QED
    BY <1>1, <2>1, StartTypeOK
    DEF SweepStarts, TypeOK, blocks, turn, reader
<1>2. CASE SweepEnds(s)
  <2>1. 0 \in 0..MaxTools + 1 /\ 1 \in 0..MaxTools + 1
    BY BoundsAssumption, SMT
  <2>2. sweep' \in [Sweeps -> 0..MaxTools + 1]
    BY <1>2, <2>1 DEF TypeOK, SweepEnds
  <2>3. cursor' \in 0..MaxTools + 1 /\ pc' \in {"stream", "sweep", "scan", "wait", "done"}
    BY <1>2, <2>1 DEF TypeOK, SweepEnds
  <2> QED
    BY <1>2, <2>2, <2>3 DEF TypeOK, SweepEnds, blocks, turn
<1> QED
  BY <1>1, <1>2 DEF SweepStep

LEMMA ToolTypeOK ==
  ASSUME TypeOK, NEW t \in Tools, ToolStep(t)
  PROVE  TypeOK'
<1>1. CASE ToolProgress(t)
  <2>1. {"synthetic"} \in SUBSET AnswerKinds
    BY DEF AnswerKinds
  <2>2. CASE CutShort(t)
    BY <1>1, <2>1, <2>2, CompleteTypeOK
    DEF ToolProgress, TypeOK, blocks, turn, reader
  <2>3. CASE ~CutShort(t)
    <3>1. progress' \in [Tools -> BOOLEAN]
      BY <1>1, <2>3 DEF ToolProgress, TypeOK
    <3> QED
      BY <1>1, <2>3, <3>1 DEF ToolProgress, TypeOK, blocks, turn, reader
  <2> QED
    BY <2>2, <2>3
<1>2. ASSUME NEW outcome \in {"own", "ownError"}, ToolResult(t, outcome)
      PROVE  TypeOK'
  <2>1. {"synthetic"} \in SUBSET AnswerKinds
    BY DEF AnswerKinds
  <2>2. body' \in [Tools -> Bodies]
    BY <1>2 DEF ToolResult, TypeOK, Bodies
  <2>3. CASE CutShort(t)
    BY <1>2, <2>1, <2>2, <2>3, CompleteTypeOK
    DEF ToolResult, TypeOK, blocks, turn, reader
  <2>4. CASE ~CutShort(t)
    <3>1. answers' \in [Tools -> SUBSET AnswerKinds]
      BY <1>2, <2>4 DEF ToolResult, TypeOK, AnswerKinds
    <3>2. hasErrored' \in [Attempts -> BOOLEAN]
      BY <1>2, <2>4, NoteErrorTypeOK DEF ToolResult, TypeOK
    <3> QED
      BY <1>2, <2>2, <2>4, <3>1, <3>2 DEF ToolResult, TypeOK, blocks, turn, reader
  <2> QED
    BY <2>3, <2>4
<1>3. CASE ToolCutAfterResult(t) \/ ToolEnds(t)
  <2>1. PICK K \in SUBSET AnswerKinds : Complete(t, K)
    BY <1>3 DEF ToolCutAfterResult, ToolEnds, AnswerKinds
  <2>2. body' \in [Tools -> Bodies]
    BY <1>3 DEF ToolCutAfterResult, ToolEnds, TypeOK, Bodies
  <2> QED
    BY <1>3, <2>1, <2>2, CompleteTypeOK
    DEF ToolCutAfterResult, ToolEnds, TypeOK, blocks, turn, reader
<1>4. CASE DetachedCallEnds(t)
  <2>1. body' \in [Tools -> Bodies]
    BY <1>4 DEF DetachedCallEnds, TypeOK, Bodies
  <2> QED
    BY <1>4, <2>1 DEF DetachedCallEnds, TypeOK, blocks, turn, reader
<1>5. CASE PermissionRejected(t)
  BY <1>5 DEF PermissionRejected, TypeOK, blocks, execution, reader, AbortReasons
<1> QED
  BY <1>1, <1>2, <1>3, <1>4, <1>5 DEF ToolStep

LEMMA AddToolTypeOK == TypeOK /\ AddTool => TypeOK'
<1> SUFFICES ASSUME TypeOK, AddTool PROVE TypeOK'
  OBVIOUS
<1> DEFINE t == received + 1
<1>1. t \in Tools /\ t \in 0..MaxTools /\ 1 \in 0..MaxTools + 1
  BY BoundsAssumption, SMT DEF TypeOK, AddTool, Tools
<1>2. kind' \in [Tools -> Kinds] /\ attempt' \in [Tools -> Attempts] /\ received' \in 0..MaxTools
  BY <1>1 DEF TypeOK, AddTool
<1>3. status' \in [Tools -> Statuses] /\ answers' \in [Tools -> SUBSET AnswerKinds]
  BY <1>1 DEF TypeOK, AddTool, Statuses, AnswerKinds
<1>4. sweep' \in [Sweeps -> 0..MaxTools + 1]
  BY <1>1, SweepNames DEF TypeOK, AddTool
<1> QED
  BY <1>2, <1>3, <1>4 DEF TypeOK, AddTool, turn, reader

LEMMA QueryTypeOK == TypeOK /\ QueryStep => TypeOK'
<1> SUFFICES ASSUME TypeOK, QueryStep PROVE TypeOK'
  OBVIOUS
<1>0. 0 \in 0..MaxTools + 1 /\ 1 \in 0..MaxTools + 1
  BY BoundsAssumption, SMT
<1>1. CASE ScanBegins
  BY <1>0, <1>1 DEF ScanBegins, TypeOK, blocks, execution, turn
<1>2. CASE ScanYields
  <2>1. PICK t \in Tools :
          /\ progress' = [progress EXCEPT ![t] = FALSE]
          /\ IF progress[t] THEN cursor' = t /\ UNCHANGED status
             ELSE cursor' = t + 1 /\ status' = [status EXCEPT ![t] = "yielded"]
    <3>1. Yieldable \subseteq Tools
      BY DEF Yieldable, Held
    <3> QED
      BY <1>2, <3>1, Zenon DEF ScanYields
  <2>2. cursor' \in 0..MaxTools + 1
    BY <2>1, BoundsAssumption, SMT DEF Tools
  <2>3. status' \in [Tools -> Statuses] /\ progress' \in [Tools -> BOOLEAN]
    BY <2>1 DEF TypeOK, Statuses
  <2> QED
    BY <1>2, <2>2, <2>3 DEF ScanYields, TypeOK, blocks, turn
<1>3. CASE ScanEnds
  <2>1. /\ sweep' \in [Sweeps -> 0..MaxTools + 1]
        /\ pc' \in {"stream", "sweep", "scan", "wait", "done"}
    BY <1>3, DrainLoopTypeOK DEF ScanEnds, TypeOK
  <2> QED
    BY <1>0, <1>3, <2>1 DEF ScanEnds, TypeOK, blocks, turn
<1>4. CASE WaitEnds \/ StreamEnds
  BY <1>4, DrainLoopTypeOK DEF WaitEnds, StreamEnds, TypeOK, blocks, turn
<1> QED
  BY <1>1, <1>2, <1>3, <1>4 DEF QueryStep

LEMMA TurnTypeOK == TypeOK /\ (AbortTurn \/ Discard) => TypeOK'
<1> SUFFICES ASSUME TypeOK, AbortTurn \/ Discard PROVE TypeOK'
  OBVIOUS
<1>1. CASE AbortTurn
  BY <1>1 DEF AbortTurn, TypeOK, blocks, execution, reader, AbortReasons
<1>2. CASE Discard
  <2>1. current' \in Attempts
    BY <1>2, BoundsAssumption, SMT DEF Discard, TypeOK, Attempts
  <2>2. discarded' \in [Attempts -> BOOLEAN]
    BY <1>2 DEF Discard, TypeOK
  <2> QED
    BY <1>2, <2>1, <2>2 DEF Discard, TypeOK, blocks, execution, reader
<1> QED
  BY <1>1, <1>2

LEMMA NextTypeOK == TypeOK /\ [Next]_vars => TypeOK'
<1> SUFFICES ASSUME TypeOK, [Next]_vars PROVE TypeOK'
  OBVIOUS
<1>1. CASE UNCHANGED vars
  BY <1>1 DEF vars, blocks, execution, turn, reader, TypeOK
<1>2. CASE TurnOver
  BY <1>1, <1>2 DEF TurnOver
<1> QED
  BY <1>1, <1>2, AddToolTypeOK, TurnTypeOK, QueryTypeOK, SweepTypeOK, ToolTypeOK
  DEF Next

\* Every variable keeps its type.
THEOREM TypeCorrect == Spec => []TypeOK
BY InitTypeOK, NextTypeOK, PTL DEF Spec

-------------------------------------------------------------------------------
(* Exclusive access *)

\* The executor of attempt a starts no further call: getAbortReason has an answer
\* for every tool of it, or runToolUse finds the signal aborted.
Halted(a) == discarded[a] \/ hasErrored[a] \/ aborted # "no"

\* What makes ExclusiveCalls inductive: a call belongs to a tool that has started,
\* and it outlives its tool's execution only in an executor that has halted, so
\* canExecuteTool, which looks at statuses, sees every call that matters.
ExclusiveInv ==
  /\ TypeOK
  /\ \A t \in Tools : status[t] # "none" => t <= received
  /\ \A t \in Tools : body[t] = "running" => status[t] \notin {"none", "queued"}
  /\ \A t \in Tools :
       body[t] = "running" => status[t] = "executing" \/ Halted(attempt[t])
  /\ ExclusiveCalls

LEMMA InitExclusive == Init => ExclusiveInv
BY InitTypeOK DEF Init, ExclusiveInv, ExclusiveCalls

LEMMA StartExclusive ==
  ASSUME ExclusiveInv, TypeOK', NEW s \in Sweeps, SweepStarts(s)
  PROVE  ExclusiveInv'
<1>1. PICK t \in Startable(Owner(s), sweep[s]) : Start(t, s)
  BY DEF SweepStarts
<1>2. t \in Tools /\ t <= received /\ status[t] = "queued" /\ CanExecute(t)
  BY <1>1 DEF Startable, Reached, Held
<1>3. /\ UNCHANGED <<received, kind, attempt, discarded, aborted>>
      /\ \E st \in {"executing", "completed"} : status' = [status EXCEPT ![t] = st]
  BY <1>1 DEF SweepStarts, blocks, turn, Start, StartRefused, StartCancelled,
              StartRuns, StartThrows
<1>4. \A a \in Attempts : hasErrored[a] => hasErrored'[a]
  BY <1>1, <1>2 DEF Start, StartRefused, StartCancelled, StartRuns, StartThrows,
                    NoteError, ExclusiveInv, TypeOK
<1>5. \A u \in Tools : attempt[u] \in Attempts
  BY DEF ExclusiveInv, TypeOK
<1>6. CASE StartRuns(t, s)
  <2>1. status' = [status EXCEPT ![t] = "executing"] /\ body' = [body EXCEPT ![t] = "running"]
    BY <1>6 DEF StartRuns
  <2>2. ~Halted(attempt[t])
    BY <1>6 DEF StartRuns, AbortReason, Halted
  <2>3. \A u \in Tools : u # t /\ attempt[u] = attempt[t] /\ body[u] = "running"
                           => Safe(t) /\ Safe(u)
    BY <1>2, <2>2 DEF ExclusiveInv, CanExecute, Executing, Held
  <2>4. ExclusiveCalls'
    BY <1>2, <1>3, <2>1, <2>3 DEF ExclusiveInv, ExclusiveCalls, TypeOK, Safe
  <2> QED
    BY <1>2, <1>3, <1>4, <1>5, <2>1, <2>4 DEF ExclusiveInv, TypeOK, Halted
<1>7. CASE ~StartRuns(t, s)
  <2>1. \A u \in Tools : body'[u] = "running" => body[u] = "running" /\ u # t
    BY <1>1, <1>2, <1>7
    DEF Start, StartRefused, StartCancelled, StartThrows, ExclusiveInv, TypeOK
  <2>2. ExclusiveCalls'
    BY <1>3, <2>1 DEF ExclusiveInv, ExclusiveCalls, Safe
  <2> QED
    BY <1>2, <1>3, <1>4, <1>5, <2>1, <2>2 DEF ExclusiveInv, TypeOK, Halted
<1> QED
  BY <1>6, <1>7

LEMMA ToolExclusive ==
  ASSUME ExclusiveInv, TypeOK', NEW t \in Tools, ToolStep(t)
  PROVE  ExclusiveInv'
<1>1. /\ UNCHANGED <<received, kind, attempt, discarded>>
      /\ \A a \in Attempts : hasErrored[a] => hasErrored'[a]
      /\ aborted # "no" => aborted' # "no"
  BY DEF ToolStep, ToolProgress, ToolResult, ToolCutAfterResult, ToolEnds,
         DetachedCallEnds, PermissionRejected, Complete, NoteError, blocks, turn,
         execution, ExclusiveInv, TypeOK
<1>2. \A u \in Tools : body'[u] = "running" => body[u] = "running"
  BY DEF ToolStep, ToolProgress, ToolResult, ToolCutAfterResult, ToolEnds,
         DetachedCallEnds, PermissionRejected, execution, ExclusiveInv, TypeOK
<1>3. \/ UNCHANGED status
      \/ status[t] = "executing" /\ status' = [status EXCEPT ![t] = "completed"]
  BY DEF ToolStep, ToolProgress, ToolResult, ToolCutAfterResult, ToolEnds,
         DetachedCallEnds, PermissionRejected, Complete, execution
<1>4. body'[t] = "running" /\ status'[t] # "executing" => Halted(attempt[t])
  <2>1. CASE ToolProgress(t)
    BY <2>1 DEF ToolProgress, CutShort, AbortReason, Halted, ExclusiveInv, TypeOK
  <2>2. CASE ~ToolProgress(t)
    BY <2>2 DEF ToolStep, ToolResult, ToolCutAfterResult, ToolEnds,
         DetachedCallEnds, PermissionRejected, Complete, execution, ExclusiveInv, TypeOK
  <2> QED
    BY <2>1, <2>2
<1>5. \A u \in Tools : attempt[u] \in Attempts
  BY DEF ExclusiveInv, TypeOK
<1>6. ExclusiveCalls'
  BY <1>1, <1>2 DEF ExclusiveInv, ExclusiveCalls, Safe
<1> QED
  BY <1>1, <1>2, <1>3, <1>4, <1>5, <1>6 DEF ExclusiveInv, TypeOK, Halted

\* What the steps of query.ts may do to a status: a completed tool is yielded.
LEMMA QueryYields ==
  ASSUME QueryStep \/ AbortTurn \/ Discard
  PROVE  \/ UNCHANGED status
         \/ \E t \in Tools : status[t] = "completed"
                               /\ status' = [status EXCEPT ![t] = "yielded"]
<1>1. CASE ScanYields
  <2>1. PICK t \in Yieldable :
          IF progress[t] THEN UNCHANGED status
          ELSE status' = [status EXCEPT ![t] = "yielded"]
    BY <1>1, Zenon DEF ScanYields
  <2>2. t \in Tools /\ (progress[t] \/ status[t] = "completed")
    BY <2>1 DEF Yieldable, Held
  <2> QED
    BY <2>1, <2>2
<1>2. CASE ~ScanYields
  BY <1>2 DEF QueryStep, ScanBegins, ScanEnds, WaitEnds, StreamEnds, AbortTurn,
              Discard, execution
<1> QED
  BY <1>1, <1>2

\* The steps of query.ts move results and flags; none makes a call.
LEMMA QueryExclusive ==
  ASSUME ExclusiveInv, TypeOK', QueryStep \/ AbortTurn \/ Discard
  PROVE  ExclusiveInv'
<1>1. /\ UNCHANGED <<received, kind, attempt, body, hasErrored>>
      /\ \A a \in Attempts : discarded[a] => discarded'[a]
      /\ aborted # "no" => aborted' # "no"
  BY DEF QueryStep, ScanBegins, ScanYields, ScanEnds, WaitEnds, StreamEnds,
         AbortTurn, Discard, blocks, execution, turn, ExclusiveInv, TypeOK
<1>2. \/ UNCHANGED status
      \/ \E t \in Tools : status[t] = "completed"
                            /\ status' = [status EXCEPT ![t] = "yielded"]
  BY QueryYields
<1>3. \A u \in Tools : attempt[u] \in Attempts
  BY DEF ExclusiveInv, TypeOK
<1>4. ExclusiveCalls'
  BY <1>1 DEF ExclusiveInv, ExclusiveCalls, Safe
<1> QED
  BY <1>1, <1>2, <1>3, <1>4 DEF ExclusiveInv, TypeOK, Halted

LEMMA AddToolExclusive ==
  ASSUME ExclusiveInv, TypeOK', AddTool
  PROVE  ExclusiveInv'
<1> DEFINE t == received + 1
<1>1. t \in Tools /\ received' = t /\ received \in Nat
  BY BoundsAssumption, SMT DEF AddTool, Tools, ExclusiveInv, TypeOK
<1>2. body[t] # "running" /\ UNCHANGED <<body, hasErrored, discarded, aborted>>
  BY <1>1, SMT DEF AddTool, turn, ExclusiveInv
<1>3. \A u \in Tools : u # t => /\ kind'[u] = kind[u] /\ attempt'[u] = attempt[u]
                                /\ status'[u] = status[u]
  BY <1>1 DEF AddTool, ExclusiveInv, TypeOK
<1>4. ExclusiveCalls'
  BY <1>2, <1>3 DEF ExclusiveInv, ExclusiveCalls, Safe
<1>5. \A u \in Tools : status'[u] # "none" => u <= received'
  BY <1>1, <1>3, SMT DEF ExclusiveInv, Tools
<1> QED
  BY <1>2, <1>3, <1>4, <1>5 DEF ExclusiveInv, Halted

LEMMA NextExclusive == ExclusiveInv /\ [Next]_vars => ExclusiveInv'
<1> SUFFICES ASSUME ExclusiveInv, [Next]_vars PROVE ExclusiveInv'
  OBVIOUS
<1>0. TypeOK'
  BY NextTypeOK DEF ExclusiveInv
<1>1. CASE UNCHANGED vars
  BY <1>0, <1>1 DEF vars, blocks, execution, turn, reader, ExclusiveInv, ExclusiveCalls,
                    Halted, Safe
<1>2. CASE TurnOver
  BY <1>1, <1>2 DEF TurnOver
<1>3. ASSUME NEW s \in Sweeps, SweepEnds(s) PROVE ExclusiveInv'
  BY <1>0, <1>3 DEF SweepEnds, blocks, turn, ExclusiveInv, ExclusiveCalls, Halted, Safe
<1> QED
  BY <1>0, <1>1, <1>2, <1>3, StartExclusive, ToolExclusive, QueryExclusive,
     AddToolExclusive DEF Next, SweepStep

\* However many tools the model calls, a call that is not concurrency safe never
\* overlaps another call of its executor.
THEOREM ExclusiveAccess == Spec => []ExclusiveCalls
<1>1. ExclusiveInv => ExclusiveCalls
  BY DEF ExclusiveInv
<1> QED
  BY <1>1, InitExclusive, NextExclusive, PTL DEF Spec

-------------------------------------------------------------------------------
(* Answers *)

\* The answers a tool has, by how far it has come: none in the queue, one when its
\* call has delivered its result (or was refused, or threw), at least one from the
\* moment it is completed.  A call's own error keeps the synthetic one out.
AnswerInv ==
  /\ ExclusiveInv
  /\ OwnErrorNotDoubled
  /\ \A t \in Tools : status[t] \in {"none", "queued"} => answers[t] = {}
  /\ \A t \in Tools : body[t] = "trailing" => answers[t] # {}
  /\ \A t \in Tools : status[t] \in {"completed", "yielded"} => answers[t] # {}

LEMMA InitAnswer == Init => AnswerInv
BY InitExclusive DEF Init, AnswerInv, OwnErrorNotDoubled

LEMMA StartAnswer ==
  ASSUME AnswerInv, ExclusiveInv', NEW s \in Sweeps, SweepStarts(s)
  PROVE  AnswerInv'
<1>1. PICK t \in Startable(Owner(s), sweep[s]) : Start(t, s)
  BY DEF SweepStarts
<1>2. t \in Tools /\ status[t] = "queued" /\ answers[t] = {}
  BY <1>1 DEF Startable, Reached, Held, AnswerInv
<1>3. /\ \E st \in {"executing", "completed"} :
           status' = [status EXCEPT ![t] = st]
      /\ \/ UNCHANGED answers /\ status'[t] = "executing"
                /\ body' = [body EXCEPT ![t] = "running"]
         \/ /\ \E k \in AnswerKinds : answers' = [answers EXCEPT ![t] = {k}]
            /\ body' = [body EXCEPT ![t] = "trailing"] \/ UNCHANGED body
  BY <1>1, <1>2
  DEF Start, StartRefused, StartCancelled, StartRuns, StartThrows, AnswerKinds,
      AnswerInv, ExclusiveInv, TypeOK
<1>4. \A u \in Tools \ {t} : /\ status'[u] = status[u] /\ answers'[u] = answers[u]
                             /\ body'[u] = body[u]
  BY <1>2, <1>3 DEF AnswerInv, ExclusiveInv, TypeOK
<1>5. /\ status'[t] \in {"executing", "completed"}
      /\ \/ answers'[t] = {} /\ status'[t] = "executing" /\ body'[t] = "running"
         \/ \E k \in AnswerKinds : answers'[t] = {k}
  BY <1>2, <1>3 DEF AnswerInv, ExclusiveInv, TypeOK
<1>6. ~({"ownError", "synthetic"} \subseteq answers'[t])
  BY <1>5
<1> QED
  BY <1>4, <1>5, <1>6 DEF AnswerInv, OwnErrorNotDoubled

LEMMA ToolAnswer ==
  ASSUME AnswerInv, ExclusiveInv', NEW t \in Tools, ToolStep(t)
  PROVE  AnswerInv'
<1>1. CASE ToolProgress(t)
  BY <1>1 DEF ToolProgress, Complete, CutShort, Erred, AnswerInv, OwnErrorNotDoubled,
              ExclusiveInv, TypeOK
<1>2. ASSUME NEW outcome \in {"own", "ownError"}, ToolResult(t, outcome)
      PROVE  AnswerInv'
  <2>1. CASE CutShort(t)
    BY <1>2, <2>1 DEF ToolResult, Complete, CutShort, Erred, AnswerInv,
                      OwnErrorNotDoubled, ExclusiveInv, TypeOK
  <2>2. CASE ~CutShort(t)
    <3>1. answers' = [answers EXCEPT ![t] = {outcome}] /\ UNCHANGED status
          /\ body' = [body EXCEPT ![t] = "trailing"] /\ status[t] = "executing"
      BY <1>2, <2>2 DEF ToolResult
    <3> QED
      BY <3>1 DEF AnswerInv, OwnErrorNotDoubled, ExclusiveInv, TypeOK
  <2> QED
    BY <2>1, <2>2
<1>3. CASE ToolCutAfterResult(t)
  BY <1>3 DEF ToolCutAfterResult, Complete, CutShort, Erred, AnswerInv,
              OwnErrorNotDoubled, ExclusiveInv, TypeOK
<1>4. CASE ToolEnds(t)
  BY <1>4 DEF ToolEnds, Complete, AnswerInv, OwnErrorNotDoubled, ExclusiveInv, TypeOK
<1>5. CASE DetachedCallEnds(t) \/ PermissionRejected(t)
  BY <1>5 DEF DetachedCallEnds, PermissionRejected, execution, AnswerInv,
              OwnErrorNotDoubled, ExclusiveInv, TypeOK
<1> QED
  BY <1>1, <1>2, <1>3, <1>4, <1>5 DEF ToolStep

LEMMA AddToolAnswer ==
  ASSUME AnswerInv, ExclusiveInv', AddTool
  PROVE  AnswerInv'
<1> DEFINE t == received + 1
<1>1. t \in Tools /\ status[t] = "none" /\ answers[t] = {}
  BY BoundsAssumption, SMT DEF AddTool, Tools, AnswerInv, ExclusiveInv, TypeOK
<1>2. /\ UNCHANGED body
      /\ \/ /\ status' = [status EXCEPT ![t] = "completed"]
            /\ answers' = [answers EXCEPT ![t] = {"ownError"}]
         \/ status' = [status EXCEPT ![t] = "queued"] /\ UNCHANGED answers
  BY DEF AddTool
<1> HIDE DEF t
<1>3. \A u \in Tools \ {t} : status'[u] = status[u] /\ answers'[u] = answers[u]
  BY <1>1, <1>2 DEF AnswerInv, ExclusiveInv, TypeOK
<1>4. \/ status'[t] = "completed" /\ answers'[t] = {"ownError"}
      \/ status'[t] = "queued" /\ answers'[t] = {} /\ body'[t] # "trailing"
  BY <1>1, <1>2 DEF AnswerInv, ExclusiveInv, TypeOK
<1>5. ~({"ownError", "synthetic"} \subseteq answers'[t])
  BY <1>4
<1> QED
  BY <1>2, <1>3, <1>4, <1>5 DEF AnswerInv, OwnErrorNotDoubled

LEMMA QueryAnswer ==
  ASSUME AnswerInv, ExclusiveInv', QueryStep \/ AbortTurn \/ Discard
  PROVE  AnswerInv'
<1>1. UNCHANGED <<body, answers>>
  BY DEF QueryStep, ScanBegins, ScanYields, ScanEnds, WaitEnds, StreamEnds,
         AbortTurn, Discard, execution
<1>2. \/ UNCHANGED status
      \/ \E t \in Tools : status[t] = "completed"
                            /\ status' = [status EXCEPT ![t] = "yielded"]
  BY QueryYields
<1> QED
  BY <1>1, <1>2 DEF AnswerInv, OwnErrorNotDoubled, ExclusiveInv, TypeOK

LEMMA NextAnswer == AnswerInv /\ [Next]_vars => AnswerInv'
<1> SUFFICES ASSUME AnswerInv, [Next]_vars PROVE AnswerInv'
  OBVIOUS
<1>0. ExclusiveInv'
  BY NextExclusive DEF AnswerInv
<1>1. CASE UNCHANGED vars
  BY <1>0, <1>1 DEF vars, execution, AnswerInv, OwnErrorNotDoubled
<1>2. CASE TurnOver
  BY <1>1, <1>2 DEF TurnOver
<1>3. ASSUME NEW s \in Sweeps, SweepEnds(s) PROVE AnswerInv'
  BY <1>0, <1>3 DEF SweepEnds, AnswerInv, OwnErrorNotDoubled
<1> QED
  BY <1>0, <1>1, <1>2, <1>3, StartAnswer, ToolAnswer, QueryAnswer, AddToolAnswer
  DEF Next, SweepStep

\* The tool that caused a sibling error is never told about it by a synthetic
\* result beside its own.
THEOREM OneErrorEach == Spec => []OwnErrorNotDoubled
<1>1. AnswerInv => OwnErrorNotDoubled
  BY DEF AnswerInv
<1> QED
  BY <1>1, InitAnswer, NextAnswer, PTL DEF Spec
\* query.ts ends the turn only on finding every tool of the executor it holds
\* yielded: that executor is never the discarded one, the last processQueue it
\* awaited is over, and no iteration of getCompletedResults is left running.
TurnInv ==
  /\ AnswerInv
  /\ \A a \in Attempts : discarded[a] => a < current
  /\ sweep[<<"drain", 0>>] > 0 => pc = "sweep"
  /\ cursor > 0 => pc \in {"stream", "scan"}
  /\ pc = "done" => ~Unfinished

LEMMA InitTurn == Init => TurnInv
BY InitAnswer, SweepNames, SMT DEF Init, TurnInv, Unfinished

LEMMA TurnNotDiscarded == TurnInv => ~discarded[current]
BY SMT DEF TurnInv, AnswerInv, ExclusiveInv, TypeOK, Attempts

\* A yielded tool stays yielded: no step of the executor touches it.
LEMMA YieldedStays ==
  ASSUME ExclusiveInv, [Next]_vars, NEW t \in Tools, t <= received, status[t] = "yielded"
  PROVE  status'[t] = "yielded"
<1>1. CASE UNCHANGED vars \/ TurnOver
  BY <1>1 DEF vars, execution, TurnOver
<1>2. CASE AddTool
  <2>1. t # received + 1 /\ received + 1 \in Tools
    BY <1>2, BoundsAssumption, SMT DEF AddTool, Tools, ExclusiveInv, TypeOK
  <2> QED
    BY <1>2, <2>1 DEF AddTool, ExclusiveInv, TypeOK
<1>3. CASE QueryStep \/ AbortTurn \/ Discard
  BY <1>3, QueryYields DEF ExclusiveInv, TypeOK
<1>4. ASSUME NEW u \in Tools, ToolStep(u) PROVE status'[t] = "yielded"
  BY <1>4
  DEF ToolStep, ToolProgress, ToolResult, ToolCutAfterResult, ToolEnds,
      DetachedCallEnds, PermissionRejected, Complete, execution, ExclusiveInv, TypeOK
<1>5. ASSUME NEW s \in Sweeps, SweepStep(s) PROVE status'[t] = "yielded"
  <2>1. CASE SweepEnds(s)
    BY <2>1 DEF SweepEnds
  <2>2. CASE SweepStarts(s)
    <3>1. PICK u \in Startable(Owner(s), sweep[s]) : Start(u, s)
      BY <2>2 DEF SweepStarts
    <3>2. u # t
      BY <3>1 DEF Startable, Reached
    <3> QED
      BY <3>1, <3>2 DEF Start, StartRefused, StartCancelled, StartRuns, StartThrows,
                        ExclusiveInv, TypeOK
  <2> QED
    BY <1>5, <2>1, <2>2 DEF SweepStep
<1> QED
  BY <1>1, <1>2, <1>3, <1>4, <1>5 DEF Next

LEMMA DoneStays ==
  ASSUME TurnInv, [Next]_vars, UNCHANGED <<received, attempt, current>>,
         pc' = "done" => pc = "done"
  PROVE  pc' = "done" => ~Unfinished'
BY YieldedStays DEF TurnInv, AnswerInv, Unfinished, Held

\* Beside query.ts's own steps only the end of the processQueue loop it awaits
\* moves the turn.
LEMMA SweepTurn ==
  ASSUME TurnInv, AnswerInv', [Next]_vars, NEW s \in Sweeps, SweepStep(s)
  PROVE  TurnInv'
<1> DEFINE d == <<"drain", 0>>
<1>1. d \in Sweeps /\ \A t \in Tools : <<"done", t>> # d
  BY SweepNames
<1>2. UNCHANGED <<received, attempt, discarded, current>>
  BY DEF SweepStep, SweepStarts, SweepEnds, blocks, turn
<1>3. CASE SweepStarts(s)
  <2>1. PICK t \in Tools : Start(t, s)
    BY <1>3, ReachedAreTools DEF SweepStarts
  <2>2. sweep'[d] > 0 => sweep[d] > 0
    BY <1>1, <1>3, <2>1
    DEF SweepStarts, Start, StartRefused, StartCancelled, StartRuns, StartThrows,
        TurnInv, AnswerInv, ExclusiveInv, TypeOK
  <2>3. UNCHANGED <<pc, cursor>>
    BY <1>3 DEF SweepStarts, reader
  <2> QED
    BY <1>2, <2>2, <2>3, DoneStays DEF TurnInv
<1>4. CASE SweepEnds(s)
  <2>1. sweep' = [sweep EXCEPT ![s] = 0] /\ UNCHANGED status
    BY <1>4 DEF SweepEnds
  <2>2. CASE s[1] = "drain"
    <3>1. s = d /\ pc' = "scan" /\ cursor' = 1
      BY <1>4, <2>2 DEF SweepEnds, Sweeps
    <3>2. ~(sweep'[d] > 0)
      BY <1>1, <2>1, <3>1 DEF TurnInv, AnswerInv, ExclusiveInv, TypeOK
    <3> QED
      BY <1>2, <3>1, <3>2 DEF TurnInv
  <2>3. CASE s[1] # "drain"
    <3>1. s # d /\ UNCHANGED <<pc, cursor>>
      BY <1>4, <2>3 DEF SweepEnds
    <3>2. sweep'[d] = sweep[d]
      BY <1>1, <2>1, <3>1 DEF TurnInv, AnswerInv, ExclusiveInv, TypeOK
    <3> QED
      BY <1>2, <3>1, <3>2, DoneStays DEF TurnInv
  <2> QED
    BY <2>2, <2>3
<1> QED
  BY <1>3, <1>4 DEF SweepStep

LEMMA ToolTurn ==
  ASSUME TurnInv, AnswerInv', [Next]_vars, NEW t \in Tools, ToolStep(t)
  PROVE  TurnInv'
<1> DEFINE d == <<"drain", 0>>
<1>1. d \in Sweeps /\ <<"done", t>> # d
  BY SweepNames
<1>2. UNCHANGED <<received, attempt, discarded, current, pc, cursor>>
  BY DEF ToolStep, ToolProgress, ToolResult, ToolCutAfterResult, ToolEnds,
         DetachedCallEnds, PermissionRejected, blocks, turn, reader
<1>3. \/ UNCHANGED sweep
      \/ sweep' = [sweep EXCEPT ![<<"done", t>>] = 1]
  BY DEF ToolStep, ToolProgress, ToolResult, ToolCutAfterResult, ToolEnds,
         DetachedCallEnds, PermissionRejected, Complete, execution
<1>4. sweep'[d] = sweep[d]
  BY <1>1, <1>3 DEF TurnInv, AnswerInv, ExclusiveInv, TypeOK
<1> QED
  BY <1>2, <1>4, DoneStays DEF TurnInv

LEMMA AddToolTurn ==
  ASSUME TurnInv, AnswerInv', AddTool
  PROVE  TurnInv'
<1> DEFINE d == <<"drain", 0>>
<1>1. d \in Sweeps /\ \A t \in Tools : <<"add", t>> # d
  BY SweepNames
<1>2. UNCHANGED <<discarded, current, pc, cursor>> /\ pc = "stream"
  BY DEF AddTool, turn, reader
<1>3. \/ UNCHANGED sweep
      \/ sweep' = [sweep EXCEPT ![<<"add", received + 1>>] = 1]
  BY DEF AddTool
<1>4. received + 1 \in Tools
  BY BoundsAssumption, SMT DEF AddTool, Tools, TurnInv, AnswerInv, ExclusiveInv, TypeOK
<1>5. sweep'[d] = sweep[d]
  BY <1>1, <1>3, <1>4 DEF TurnInv, AnswerInv, ExclusiveInv, TypeOK
<1> QED
  BY <1>2, <1>5 DEF TurnInv

LEMMA DiscardTurn ==
  ASSUME TurnInv, AnswerInv', [Next]_vars, AbortTurn \/ Discard
  PROVE  TurnInv'
<1>1. CASE AbortTurn
  BY <1>1, DoneStays DEF AbortTurn, blocks, execution, reader, TurnInv
<1>2. CASE Discard
  <2>1. /\ discarded' = [discarded EXCEPT ![current] = TRUE] /\ current' = current + 1
        /\ UNCHANGED <<sweep, pc, cursor>> /\ pc = "stream"
    BY <1>2 DEF Discard, execution, reader
  <2>2. ASSUME NEW a \in Attempts, discarded'[a] PROVE a < current'
    BY <2>1, <2>2, SMT DEF TurnInv, AnswerInv, ExclusiveInv, TypeOK, Attempts
  <2> QED
    BY <2>1, <2>2 DEF TurnInv
<1> QED
  BY <1>1, <1>2

\* DrainLoop, at the end of an iteration of getRemainingResults.
LEMMA DrainLoopTurn ==
  ASSUME TurnInv, AnswerInv', DrainLoop, cursor' = 0, UNCHANGED <<blocks, status, turn>>,
         ~(sweep[<<"drain", 0>>] > 0)
  PROVE  TurnInv'
<1>1. UNCHANGED <<received, attempt, discarded, current>>
  BY DEF blocks, turn
<1>2. Unfinished' = Unfinished
  BY <1>1 DEF Unfinished, Held
<1>3. CASE Unfinished
  <2>1. pc' = "sweep"
    BY <1>3, TurnNotDiscarded DEF DrainLoop
  <2> QED
    BY <1>1, <2>1, SMT DEF TurnInv
<1>4. CASE ~Unfinished
  <2>1. pc' = "done" /\ UNCHANGED sweep
    BY <1>4 DEF DrainLoop
  <2> QED
    BY <1>1, <1>2, <1>4, <2>1, SMT DEF TurnInv
<1> QED
  BY <1>3, <1>4

LEMMA QueryTurn ==
  ASSUME TurnInv, AnswerInv', [Next]_vars, QueryStep
  PROVE  TurnInv'
<1> DEFINE d == <<"drain", 0>>
<1>1. CASE ScanBegins
  BY <1>1 DEF ScanBegins, execution, turn, TurnInv
<1>2. CASE ScanYields
  <2>1. UNCHANGED <<received, attempt, discarded, current, sweep, pc>> /\ cursor > 0
    BY <1>2 DEF ScanYields, blocks, turn
  <2> QED
    BY <2>1 DEF TurnInv
<1>3. CASE ScanEnds
  <2>0. ~(sweep[d] > 0) /\ cursor' = 0 /\ UNCHANGED <<blocks, status, turn>>
    BY <1>3 DEF ScanEnds, TurnInv
  <2>1. CASE pc = "stream"
    BY <1>3, <2>0, <2>1, SMT DEF ScanEnds, TurnInv, turn
  <2>2. CASE pc # "stream" /\ Executing(current) # {} /\ ~SomethingToYield
    BY <1>3, <2>0, <2>2, SMT DEF ScanEnds, TurnInv, turn
  <2>3. CASE pc # "stream" /\ ~(Executing(current) # {} /\ ~SomethingToYield)
    BY <1>3, <2>0, <2>3, DrainLoopTurn DEF ScanEnds
  <2> QED
    BY <2>1, <2>2, <2>3
<1>4. CASE WaitEnds
  <2>1. cursor = 0
    BY <1>4, SMT DEF WaitEnds, TurnInv, AnswerInv, ExclusiveInv, TypeOK
  <2> QED
    BY <1>4, <2>1, DrainLoopTurn DEF WaitEnds, TurnInv
<1>5. CASE StreamEnds
  BY <1>5, DrainLoopTurn DEF StreamEnds, TurnInv
<1> QED
  BY <1>1, <1>2, <1>3, <1>4, <1>5 DEF QueryStep

LEMMA NextTurn == TurnInv /\ [Next]_vars => TurnInv'
<1> SUFFICES ASSUME TurnInv, [Next]_vars PROVE TurnInv'
  OBVIOUS
<1>0. AnswerInv'
  BY NextAnswer DEF TurnInv
<1>1. CASE UNCHANGED vars
  BY <1>0, <1>1 DEF vars, blocks, execution, turn, reader, TurnInv, Unfinished, Held
<1>2. CASE TurnOver
  BY <1>1, <1>2 DEF TurnOver
<1> QED
  BY <1>0, <1>1, <1>2, SweepTurn, ToolTurn, AddToolTurn, DiscardTurn, QueryTurn DEF Next

\* Whatever was refused, cut short, aborted or discarded on the way, a turn that has
\* ended has yielded an answer for every block of the executor query.ts holds.
THEOREM NoBlockUnanswered == Spec => []EveryBlockAnswered
<1>1. TurnInv => EveryBlockAnswered
  BY DEF TurnInv, AnswerInv, EveryBlockAnswered, Unfinished, Held
<1> QED
  BY <1>1, InitTurn, NextTurn, PTL DEF Spec
-------------------------------------------------------------------------------
(* Tools start in the order they were received *)

\* A processQueue loop has left no queued tool behind its index.  This is what lets
\* it resume where it was after an await, whatever other loops did meanwhile.
SweptClean ==
  \A s \in Sweeps :
    sweep[s] > 0 => \A u \in Held(Owner(s)) : u < sweep[s] => status[u] # "queued"

\* A loop was called for a tool that has been received, or by query.ts, and stands at
\* most one behind the last tool: what addTool pushes comes in front of every loop
\* that is suspended.
LoopsInPlace ==
  \A s \in Sweeps :
    sweep[s] > 0 => sweep[s] <= received + 1 /\ (s[1] # "drain" => s[2] <= received)

OrderInv == TurnInv /\ LoopsInPlace /\ SweptClean

\* While the response streams the only loops are those of tools, which do not change
\* their executor: Discard takes the executor from no loop.
LEMMA DrainIsAlone ==
  ASSUME TurnInv, NEW s \in Sweeps, sweep[s] > 0, pc = "stream"
  PROVE  s[1] # "drain"
BY DEF TurnInv, Sweeps

\* A loop that starts t goes on behind it.
LEMMA InPlaceStart ==
  ASSUME OrderInv, NEW s \in Sweeps, SweepStarts(s)
  PROVE  LoopsInPlace'
<1>1. PICK t \in Startable(Owner(s), sweep[s]) : Start(t, s)
  BY DEF SweepStarts
<1>2. t \in Tools /\ t <= received /\ sweep[s] > 0 /\ received' = received
  BY <1>1 DEF SweepStarts, Startable, Reached, Held, blocks
<1>3. \A r \in Sweeps : \/ r = s /\ sweep'[r] \in {1, t + 1}
                        \/ r = <<"done", t>> /\ sweep'[r] = 1
                        \/ sweep'[r] = sweep[r]
  <2>1. \/ sweep' = [sweep EXCEPT ![s] = t + 1]
        \/ sweep' = [sweep EXCEPT ![s] = t + 1, ![<<"done", t>>] = 1]
    BY <1>1 DEF Start, StartRefused, StartCancelled, StartRuns, StartThrows
  <2>2. <<"done", t>> \in Sweeps /\ sweep \in [Sweeps -> 0..MaxTools + 1]
    BY <1>2, SweepNames DEF OrderInv, TurnInv, AnswerInv, ExclusiveInv, TypeOK
  <2>3. ASSUME NEW r \in Sweeps, r # s, r # <<"done", t>> PROVE sweep'[r] = sweep[r]
    BY <2>1, <2>2, <2>3
  <2>4. s # <<"done", t>> => sweep'[s] = t + 1 /\ sweep'[<<"done", t>>] \in {1, sweep[<<"done", t>>]}
    BY <2>1, <2>2
  <2>5. s = <<"done", t>> => sweep'[s] \in {1, t + 1}
    BY <2>1, <2>2
  <2> QED
    BY <2>2, <2>3, <2>4, <2>5
<1>4. t \in Nat /\ received \in Nat /\ 1 <= t
  BY <1>2, SMT DEF Tools, OrderInv, TurnInv, AnswerInv, ExclusiveInv, TypeOK
<1>5. \A r \in Sweeps : sweep'[r] = sweep[r] /\ sweep'[r] > 0
                          => sweep'[r] <= received + 1 /\ (r[1] # "drain" => r[2] <= received)
  BY DEF OrderInv, LoopsInPlace
<1>6. \A r \in Sweeps : r = <<"done", t>> /\ sweep'[r] = 1
                          => sweep'[r] <= received + 1 /\ r[2] <= received
  BY <1>2, <1>4, SMT
<1>7. s[1] # "drain" => s[2] <= received
  BY <1>2 DEF OrderInv, LoopsInPlace
<1>8. \A x \in {1, t + 1} : x <= received + 1
  BY <1>2, <1>4, SMT
<1> QED
  BY <1>2, <1>3, <1>5, <1>6, <1>7, <1>8 DEF LoopsInPlace

\* A loop passes over a queued tool only when nothing after it can start either.
LEMMA FirstStartableIsFirstQueued ==
  ASSUME OrderInv, NEW s \in Sweeps, sweep[s] > 0,
         NEW t \in Startable(Owner(s), sweep[s]),
         \A u \in Startable(Owner(s), sweep[s]) : t <= u,
         NEW u \in Tools, attempt[u] = attempt[t], u < t
  PROVE  status[u] # "queued"
<1> SUFFICES ASSUME status[u] = "queued" PROVE FALSE
  OBVIOUS
<1>1. /\ t \in Tools /\ t <= received /\ attempt[t] = Owner(s) /\ t >= sweep[s]
      /\ CanExecute(t)
  BY DEF Startable, Reached, Held
<1>2. sweep[s] \in Nat /\ received \in Nat
  BY BoundsAssumption, SMT DEF OrderInv, TurnInv, AnswerInv, ExclusiveInv, TypeOK
<1>3. u \in Held(Owner(s)) /\ sweep[s] <= u
  BY <1>1, <1>2, SMT DEF OrderInv, SweptClean, Held, Tools
<1>4. CanExecute(u) \/ Safe(u)
  BY <1>3 DEF Startable, Reached
<1>5. CASE CanExecute(u)
  <2>1. u \in Reached(Owner(s), sweep[s])
    BY <1>1, <1>2, <1>3, SMT DEF Startable, Reached, Held, Tools
  <2> QED
    BY <1>1, <1>5, <2>1, SMT DEF Startable, Tools
<1>6. CASE ~CanExecute(u) /\ Safe(u)
  BY <1>1, <1>6 DEF CanExecute
<1> QED
  BY <1>4, <1>5, <1>6

\* What one step may do to statuses and loops, from the point of view of order.
LEMMA StartOrder ==
  ASSUME OrderInv, NEW s \in Sweeps, SweepStarts(s)
  PROVE  /\ SweptClean'
         /\ \A t, u \in Tools :
              status[t] = "queued" /\ status'[t] # "queued" /\ u < t
                /\ attempt[u] = attempt[t] => status[u] # "queued"
<1>1. PICK t \in Startable(Owner(s), sweep[s]) :
        (\A u \in Startable(Owner(s), sweep[s]) : t <= u) /\ Start(t, s)
  BY DEF SweepStarts
<1>2. t \in Tools /\ sweep[s] > 0 /\ attempt[t] = Owner(s)
  BY <1>1 DEF SweepStarts, Startable, Reached, Held
<1>3. \A u \in Tools : attempt[u] = attempt[t] /\ u < t => status[u] # "queued"
  BY <1>1, <1>2, FirstStartableIsFirstQueued
<1>4. /\ UNCHANGED <<received, attempt, current>>
      /\ \A u \in Tools : u # t => status'[u] = status[u]
      /\ status'[t] # "queued"
      /\ \A r \in Sweeps : \/ sweep'[r] = 1
                           \/ r = s /\ sweep'[r] = t + 1
                           \/ r # s /\ sweep'[r] = sweep[r]
  BY <1>1, <1>2, SweepNames
  DEF SweepStarts, blocks, turn, Start, StartRefused, StartCancelled, StartRuns,
      StartThrows, OrderInv, TurnInv, AnswerInv, ExclusiveInv, TypeOK
<1>5. ASSUME NEW r \in Sweeps, sweep'[r] > 0, NEW u \in Held(Owner(r))', u < sweep'[r]
      PROVE  status'[u] # "queued"
  <2>1. u \in Tools /\ u \in Held(Owner(r))
    BY <1>4, <1>5 DEF Held, Owner
  <2>2. CASE sweep'[r] = 1
    BY <1>5, <2>1, <2>2, SMT DEF Tools
  <2>3. CASE r = s /\ sweep'[r] = t + 1
    BY <1>2, <1>3, <1>4, <1>5, <2>1, <2>3, SMT DEF Tools, Held
  <2>4. CASE r # s /\ sweep'[r] = sweep[r]
    BY <1>4, <1>5, <2>1, <2>4 DEF OrderInv, SweptClean
  <2> QED
    BY <1>4, <2>2, <2>3, <2>4
<1>6. SweptClean'
  BY <1>5 DEF SweptClean
<1> QED
  BY <1>3, <1>4, <1>6

\* The tool that arrives lies in front of every loop that is suspended, and gets one of
\* its own.
LEMMA AddToolLoops ==
  ASSUME OrderInv, AddTool
  PROVE  /\ received + 1 \in Tools /\ received' = received + 1 /\ received \in Nat
         /\ status[received + 1] = "none" /\ UNCHANGED current
         /\ \A u \in Tools : u # received + 1 => /\ attempt'[u] = attempt[u]
                                                /\ kind'[u] = kind[u]
                                                /\ status'[u] = status[u]
         /\ \A s \in Sweeps : \/ s = <<"add", received + 1>> /\ sweep'[s] = 1
                              \/ sweep'[s] = sweep[s]
         /\ \A s \in Sweeps :
              sweep[s] > 0 => Owner(s)' = Owner(s) /\ s # <<"add", received + 1>>
<1> DEFINE t == received + 1
<1>1. t \in Tools /\ received \in Nat /\ ~(t <= received)
  BY BoundsAssumption, SMT
  DEF AddTool, Tools, OrderInv, TurnInv, AnswerInv, ExclusiveInv, TypeOK
<1>2. status[t] = "none" /\ UNCHANGED current /\ received' = t
  BY <1>1 DEF AddTool, turn, OrderInv, TurnInv, AnswerInv, ExclusiveInv, TypeOK
<1>3. \A u \in Tools : u # t => /\ attempt'[u] = attempt[u] /\ kind'[u] = kind[u]
                                /\ status'[u] = status[u]
  BY <1>1 DEF AddTool, OrderInv, TurnInv, AnswerInv, ExclusiveInv, TypeOK
<1>4. \A s \in Sweeps : \/ s = <<"add", t>> /\ sweep'[s] = 1
                        \/ sweep'[s] = sweep[s]
  BY <1>1, SweepNames DEF AddTool, OrderInv, TurnInv, AnswerInv, ExclusiveInv, TypeOK
<1>5. ASSUME NEW s \in Sweeps, sweep[s] > 0
      PROVE  Owner(s)' = Owner(s) /\ s # <<"add", t>>
  <2>1. s[1] # "drain" /\ s[2] <= received
    BY <1>5, DrainIsAlone DEF AddTool, OrderInv, LoopsInPlace
  <2>2. s[2] \in Tools /\ s[2] # t
    BY <1>1, <2>1 DEF Sweeps
  <2> QED
    BY <1>3, <2>1, <2>2 DEF Owner
<1> QED
  BY <1>1, <1>2, <1>3, <1>4, <1>5

LEMMA AddToolOrder ==
  ASSUME OrderInv, AddTool
  PROVE  /\ SweptClean' /\ LoopsInPlace'
         /\ \A t \in Tools : status[t] = "queued" => status'[t] = "queued"
<1> DEFINE t == received + 1
<1>1. t \in Tools /\ received' = t /\ received \in Nat /\ status[t] = "none"
  BY AddToolLoops
<1>2. ASSUME NEW s \in Sweeps, sweep'[s] > 0
      PROVE  \/ s = <<"add", t>> /\ sweep'[s] = 1
             \/ sweep'[s] = sweep[s] /\ sweep[s] > 0 /\ Owner(s)' = Owner(s)
  BY <1>2, AddToolLoops
<1>3. ASSUME NEW s \in Sweeps, sweep'[s] > 0, NEW u \in Held(Owner(s))', u < sweep'[s]
      PROVE  status'[u] # "queued"
  <2>1. u \in Tools /\ u \in Nat /\ u >= 1 /\ attempt'[u] = Owner(s)'
    BY <1>3, SMT DEF Held, Tools
  <2>2. sweep'[s] = sweep[s] /\ sweep[s] > 0 /\ Owner(s)' = Owner(s)
    BY <1>2, <1>3, <2>1, SMT
  <2>3. sweep[s] <= received + 1 /\ sweep[s] \in Nat
    BY <2>2, BoundsAssumption, SMT
    DEF OrderInv, LoopsInPlace, TurnInv, AnswerInv, ExclusiveInv, TypeOK
  <2>4. u # t /\ u <= received
    BY <1>1, <1>3, <2>1, <2>2, <2>3, SMT
  <2>5. attempt'[u] = attempt[u] /\ status'[u] = status[u]
    BY <2>1, <2>4, AddToolLoops
  <2>6. u \in Held(Owner(s))
    BY <2>1, <2>2, <2>4, <2>5 DEF Held
  <2> QED
    BY <1>3, <2>2, <2>5, <2>6 DEF OrderInv, SweptClean
<1>4. ASSUME NEW s \in Sweeps, sweep'[s] > 0
      PROVE  sweep'[s] <= received' + 1 /\ (s[1] # "drain" => s[2] <= received')
  <2>1. CASE s = <<"add", t>> /\ sweep'[s] = 1
    BY <1>1, <2>1, SMT
  <2>2. CASE sweep'[s] = sweep[s] /\ sweep[s] > 0
    <3>1. sweep[s] <= received + 1 /\ (s[1] # "drain" => s[2] <= received)
      BY <2>2 DEF OrderInv, LoopsInPlace
    <3>2. sweep[s] \in Nat
      BY BoundsAssumption, SMT DEF OrderInv, TurnInv, AnswerInv, ExclusiveInv, TypeOK
    <3>3. s[1] # "drain" => s[2] \in Nat
      BY SMT DEF Sweeps, Tools
    <3> QED
      BY <1>1, <2>2, <3>1, <3>2, <3>3, SMT
  <2> QED
    BY <1>2, <1>4, <2>1, <2>2
<1>5. SweptClean' /\ LoopsInPlace'
  BY <1>3, <1>4 DEF SweptClean, LoopsInPlace
<1>6. ASSUME NEW u \in Tools, status[u] = "queued" PROVE status'[u] = "queued"
  BY <1>1, <1>6, AddToolLoops
<1> QED
  BY <1>5, <1>6

LEMMA OtherOrder ==
  ASSUME OrderInv,
         \/ QueryStep \/ AbortTurn \/ Discard
         \/ \E s \in Sweeps : SweepEnds(s)
         \/ \E t \in Tools : ToolStep(t)
  PROVE  /\ SweptClean' /\ LoopsInPlace'
         /\ \A t \in Tools : status[t] = "queued" => status'[t] = "queued"
<1>1. UNCHANGED <<received, attempt>> /\ (current' = current \/ Discard)
  BY DEF QueryStep, ScanBegins, ScanYields, ScanEnds, WaitEnds, StreamEnds, AbortTurn,
         Discard, SweepEnds, ToolStep, ToolProgress, ToolResult, ToolCutAfterResult,
         ToolEnds, DetachedCallEnds, PermissionRejected, blocks, turn
<1>2. \A s \in Sweeps : \/ sweep'[s] \in {sweep[s], 0}
                        \/ sweep'[s] = 1 /\ (s[1] # "drain" => s[2] <= received)
  <2>0. sweep \in [Sweeps -> 0..MaxTools + 1]
    BY DEF OrderInv, TurnInv, AnswerInv, ExclusiveInv, TypeOK
  <2>1. CASE QueryStep \/ AbortTurn \/ Discard
    <3>1. UNCHANGED sweep \/ sweep' = [sweep EXCEPT ![<<"drain", 0>>] = 1]
      BY <2>1 DEF QueryStep, ScanBegins, ScanYields, ScanEnds, WaitEnds, StreamEnds,
                  AbortTurn, Discard, DrainLoop, execution
    <3>2. \A s \in Sweeps : sweep'[s] = sweep[s] \/ (s = <<"drain", 0>> /\ sweep'[s] = 1)
      BY <2>0, <3>1
    <3> QED
      BY <3>2
  <2>2. CASE \E s \in Sweeps : SweepEnds(s)
    <3>1. PICK r \in Sweeps : sweep' = [sweep EXCEPT ![r] = 0]
      BY <2>2 DEF SweepEnds
    <3>2. \A s \in Sweeps : sweep'[s] = sweep[s] \/ sweep'[s] = 0
      BY <2>0, <3>1
    <3> QED
      BY <3>2
  <2>3. ASSUME NEW t \in Tools, ToolStep(t)
        PROVE  \A s \in Sweeps : \/ sweep'[s] = sweep[s]
                                 \/ s = <<"done", t>> /\ sweep'[s] = 1 /\ t <= received
    <3>1. \/ UNCHANGED sweep
          \/ sweep' = [sweep EXCEPT ![<<"done", t>>] = 1] /\ status[t] = "executing"
      BY <2>3 DEF ToolStep, ToolProgress, ToolResult, ToolCutAfterResult, ToolEnds,
                  DetachedCallEnds, PermissionRejected, Complete, execution
    <3>2. status[t] = "executing" => t <= received
      BY DEF OrderInv, TurnInv, AnswerInv, ExclusiveInv
    <3> QED
      BY <2>0, <3>1, <3>2
  <2>4. ASSUME NEW t \in Tools, ToolStep(t), NEW s \in Sweeps
        PROVE  \/ sweep'[s] \in {sweep[s], 0}
               \/ sweep'[s] = 1 /\ (s[1] # "drain" => s[2] <= received)
    BY <2>3, <2>4
  <2> QED
    BY <2>1, <2>2, <2>4
<1>3. \/ UNCHANGED status
      \/ \E t \in Tools : /\ status[t] \in {"executing", "completed"}
                          /\ status' = [status EXCEPT ![t] = "completed"]
      \/ \E t \in Tools : /\ status[t] \in {"executing", "completed"}
                          /\ status' = [status EXCEPT ![t] = "yielded"]
  <2>1. CASE ScanYields
    <3>1. PICK t \in Yieldable :
            IF progress[t] THEN UNCHANGED status
            ELSE status' = [status EXCEPT ![t] = "yielded"]
      BY <2>1, Zenon DEF ScanYields
    <3>2. t \in Tools /\ (progress[t] \/ status[t] = "completed")
      BY <3>1 DEF Yieldable, Held
    <3> QED
      BY <3>1, <3>2
  <2>2. CASE ~ScanYields
    BY <2>2
    DEF QueryStep, ScanBegins, ScanEnds, WaitEnds, StreamEnds, AbortTurn, Discard,
        SweepEnds, ToolStep, ToolProgress, ToolResult, ToolCutAfterResult, ToolEnds,
        DetachedCallEnds, PermissionRejected, Complete, execution
  <2> QED
    BY <2>1, <2>2
<1>4. \A t \in Tools : /\ status[t] = "queued" => status'[t] = "queued"
                       /\ status'[t] = "queued" => status[t] = "queued"
  BY <1>3 DEF OrderInv, TurnInv, AnswerInv, ExclusiveInv, TypeOK
<1>5. ASSUME NEW r \in Sweeps, sweep'[r] > 0, NEW u \in Held(Owner(r))', u < sweep'[r]
      PROVE  status'[u] # "queued"
  <2>0. current' = current \/ r[1] # "drain"
    BY <1>1, <1>5, DrainIsAlone DEF OrderInv, Discard, execution
  <2>1. u \in Tools /\ u \in Held(Owner(r))
    BY <1>1, <1>5, <2>0 DEF Held, Owner
  <2>2. CASE sweep'[r] \in {0, 1}
    BY <1>5, <2>1, <2>2, SMT DEF Tools
  <2>3. CASE sweep'[r] = sweep[r]
    BY <1>4, <1>5, <2>1, <2>3 DEF OrderInv, SweptClean
  <2> QED
    BY <1>2, <2>2, <2>3
<1>6. LoopsInPlace'
  <2>1. received \in Nat /\ received' = received
    BY <1>1, SMT DEF OrderInv, TurnInv, AnswerInv, ExclusiveInv, TypeOK
  <2>2. ASSUME NEW s \in Sweeps, sweep'[s] > 0
        PROVE  sweep'[s] <= received + 1 /\ (s[1] # "drain" => s[2] <= received)
    <3>1. CASE sweep'[s] = sweep[s]
      BY <2>2, <3>1 DEF OrderInv, LoopsInPlace
    <3>2. CASE sweep'[s] = 1 /\ (s[1] # "drain" => s[2] <= received)
      BY <2>1, <3>2, SMT
    <3>3. sweep'[s] # 0
      BY <2>2, SMT
    <3> QED
      BY <1>2, <3>1, <3>2, <3>3
  <2> QED
    BY <2>1, <2>2 DEF LoopsInPlace
<1> QED
  BY <1>4, <1>5, <1>6 DEF SweptClean

LEMMA InitOrder == Init => OrderInv
BY InitTurn, SMT DEF OrderInv, SweptClean, LoopsInPlace, Init

LEMMA NextOrder ==
  ASSUME OrderInv, [Next]_vars
  PROVE  /\ OrderInv'
         /\ \A t, u \in Tools :
              status[t] = "queued" /\ status'[t] # "queued" /\ u < t
                /\ attempt[u] = attempt[t] => status[u] # "queued"
<1>0. TurnInv'
  BY NextTurn DEF OrderInv
<1>1. CASE UNCHANGED vars
  BY <1>0, <1>1 DEF vars, blocks, execution, turn, reader, OrderInv, SweptClean, LoopsInPlace,
                    Held, Owner
<1>2. CASE TurnOver
  BY <1>1, <1>2 DEF TurnOver
<1> QED
  BY <1>0, <1>1, <1>2, StartOrder, InPlaceStart, AddToolOrder, OtherOrder
  DEF Next, SweepStep, OrderInv

\* Whatever loops are suspended at whatever indices, no tool overtakes another of
\* its executor on the way out of the queue.
THEOREM InOrder == Spec => StartsInOrder
<1>1. OrderInv /\ [Next]_vars
        => [\A t, u \in Tools :
              /\ status[t] = "queued" /\ status'[t] # "queued"
              /\ u < t /\ attempt[u] = attempt[t]
              => status[u] # "queued"]_vars
  BY NextOrder
<1>2. OrderInv /\ [Next]_vars => OrderInv'
  BY NextOrder
<1> QED
  BY <1>1, <1>2, InitOrder, PTL DEF Spec, StartsInOrder

-------------------------------------------------------------------------------
(* Nothing startable is left behind *)

\* Some processQueue loop of executor a is on its way.
Watched(a) == \E s \in Sweeps : sweep[s] > 0 /\ Owner(s) = a

\* What makes NothingLeftStartable inductive: whatever makes a queued tool startable
\* (its own arrival, the completion of the tools it waits for) sets a loop going, and
\* a loop ends only when it finds nothing to start.
QueueInv ==
  /\ OrderInv
  /\ \A a \in Attempts : Startable(a, 1) # {} => Watched(a)

\* Where a loop stands does not matter: nothing behind it is queued.
LEMMA StartableFromTheStart ==
  ASSUME OrderInv, NEW s \in Sweeps, sweep[s] > 0
  PROVE  Startable(Owner(s), 1) = Startable(Owner(s), sweep[s])
<1> DEFINE a == Owner(s)
<1>1. sweep[s] \in Nat /\ \A u \in Tools : u \in Nat /\ u >= 1
  BY BoundsAssumption, SMT DEF OrderInv, TurnInv, AnswerInv, ExclusiveInv, TypeOK, Tools
<1>2. \A u \in Held(a) : status[u] = "queued" => u >= sweep[s]
  BY <1>1, SMT DEF OrderInv, SweptClean, Held
<1>3. Held(a) \subseteq Tools
  BY DEF Held
<1> HIDE DEF a
<1>4. Reached(a, 1) = Reached(a, sweep[s])
  BY <1>1, <1>2, <1>3, SMT DEF Reached
<1> QED
  BY <1>4 DEF Startable, a

\* What can start depends on the queued and the executing tools of an executor only.
LEMMA StartableSame ==
  ASSUME NEW a, Held(a)' = Held(a),
         \A t \in Held(a) :
           /\ status'[t] = "queued" <=> status[t] = "queued"
           /\ status'[t] = "executing" <=> status[t] = "executing"
           /\ kind'[t] = kind[t] /\ attempt'[t] = attempt[t]
  PROVE  Startable(a, 1)' = Startable(a, 1)
<1>1. \A t \in Held(a) : attempt[t] = a
  BY DEF Held
<1>2. Executing(a)' = Executing(a) /\ Executing(a) \subseteq Held(a)
  BY DEF Executing
<1>3. \A t \in Held(a) : Safe(t)' = Safe(t)
  BY DEF Safe
<1>4. \A t \in Held(a) : CanExecute(t)' = CanExecute(t)
  BY <1>1, <1>2, <1>3 DEF CanExecute
<1>5. Reached(a, 1)' = Reached(a, 1) /\ Reached(a, 1) \subseteq Held(a)
  BY <1>3, <1>4 DEF Reached
<1> QED
  BY <1>4, <1>5 DEF Startable

LEMMA SweepWatched ==
  ASSUME QueueInv, OrderInv', NEW s \in Sweeps, SweepStep(s)
  PROVE  QueueInv'
<1>1. UNCHANGED <<received, kind, attempt, current>>
  BY DEF SweepStep, SweepStarts, SweepEnds, blocks, turn
<1>2. \A r \in Sweeps : Owner(r)' = Owner(r)
  BY <1>1 DEF Owner
<1>3. \A a : Held(a)' = Held(a)
  BY <1>1 DEF Held
<1>4. CASE SweepStarts(s)
  <2>1. PICK t \in Startable(Owner(s), sweep[s]) : Start(t, s)
    BY <1>4 DEF SweepStarts
  <2>2. t \in Tools /\ attempt[t] = Owner(s)
    BY <2>1 DEF Startable, Reached, Held
  <2>3. /\ \A r \in Sweeps : sweep[r] > 0 => sweep'[r] > 0
        /\ \A u \in Tools \ {t} : status'[u] = status[u]
        /\ sweep'[s] > 0
    <3>1. /\ \E st \in Statuses : status' = [status EXCEPT ![t] = st]
          /\ \/ sweep' = [sweep EXCEPT ![s] = t + 1]
             \/ sweep' = [sweep EXCEPT ![s] = t + 1, ![<<"done", t>>] = 1]
      BY <2>1 DEF Start, StartRefused, StartCancelled, StartRuns, StartThrows, Statuses
    <3>2. t + 1 > 0
      BY <2>2, SMT DEF Tools
    <3> QED
      BY <2>2, <3>1, <3>2, SweepNames DEF QueueInv, OrderInv, TurnInv, AnswerInv, ExclusiveInv, TypeOK
  <2>4. ASSUME NEW a \in Attempts, Startable(a, 1)' # {} PROVE Watched(a)'
    <3>1. CASE a = Owner(s)
      BY <1>2, <2>3, <3>1 DEF Watched
    <3>2. CASE a # Owner(s)
      <4>1. \A u \in Held(a) : u \in Tools \ {t}
        BY <2>2, <3>2 DEF Held
      <4>2. Startable(a, 1)' = Startable(a, 1)
        BY <1>1, <1>3, <2>3, <4>1, StartableSame
      <4> QED
        BY <1>2, <2>3, <2>4, <4>2 DEF QueueInv, Watched
    <3> QED
      BY <3>1, <3>2
  <2> QED
    BY <2>4 DEF QueueInv
<1>5. CASE SweepEnds(s)
  <2>1. /\ sweep[s] > 0 /\ Startable(Owner(s), sweep[s]) = {}
        /\ sweep' = [sweep EXCEPT ![s] = 0] /\ UNCHANGED status
    BY <1>5 DEF SweepEnds
  <2>2. Startable(Owner(s), 1) = {}
    BY <2>1, StartableFromTheStart DEF QueueInv
  <2>3. ASSUME NEW a \in Attempts, Startable(a, 1)' # {} PROVE Watched(a)'
    <3>1. Startable(a, 1)' = Startable(a, 1)
      BY <1>1, <1>3, <2>1, StartableSame
    <3>2. PICK r \in Sweeps : sweep[r] > 0 /\ Owner(r) = a
      BY <2>3, <3>1 DEF QueueInv, Watched
    <3>3. r # s
      BY <2>2, <2>3, <3>1, <3>2
    <3> QED
      BY <1>2, <2>1, <3>2, <3>3 DEF Watched, QueueInv, OrderInv, TurnInv, AnswerInv, ExclusiveInv, TypeOK
  <2> QED
    BY <2>3 DEF QueueInv
<1> QED
  BY <1>4, <1>5 DEF SweepStep

\* A completed tool wakes a loop of its executor, the one its completion concerns.
LEMMA CompleteWatched ==
  ASSUME QueueInv, OrderInv', UNCHANGED <<received, kind, attempt, current>>,
         NEW t \in Tools, status' = [status EXCEPT ![t] = "completed"],
         sweep' = [sweep EXCEPT ![<<"done", t>>] = 1]
  PROVE  QueueInv'
<1>1. \A r \in Sweeps : Owner(r)' = Owner(r)
  BY DEF Owner
<1>2. \A a : Held(a)' = Held(a)
  BY DEF Held
<1>3. <<"done", t>> \in Sweeps /\ Owner(<<"done", t>>) = attempt[t]
  BY SweepNames DEF Owner
<1>4. /\ \A r \in Sweeps : sweep[r] > 0 => sweep'[r] > 0
      /\ sweep'[<<"done", t>>] > 0
  BY <1>3 DEF QueueInv, OrderInv, TurnInv, AnswerInv, ExclusiveInv, TypeOK
<1>5. ASSUME NEW a \in Attempts, Startable(a, 1)' # {} PROVE Watched(a)'
  <2>1. CASE a = attempt[t]
    BY <1>1, <1>3, <1>4, <2>1 DEF Watched
  <2>2. CASE a # attempt[t]
    <3>1. \A u \in Held(a) : status'[u] = status[u]
      BY <2>2 DEF Held, QueueInv, OrderInv, TurnInv, AnswerInv, ExclusiveInv, TypeOK
    <3>2. Startable(a, 1)' = Startable(a, 1)
      BY <1>2, <3>1, StartableSame
    <3> QED
      BY <1>1, <1>4, <1>5, <3>2 DEF QueueInv, Watched
  <2> QED
    BY <2>1, <2>2
<1> QED
  BY <1>5 DEF QueueInv

\* A step that neither queues, starts nor completes a tool changes nothing here as
\* long as it stops no loop.
LEMMA QuietWatched ==
  ASSUME QueueInv, OrderInv', UNCHANGED <<received, kind, attempt>>,
         \A r \in Sweeps : sweep[r] > 0 => Owner(r)' = Owner(r),
         \A t \in Tools : status'[t] # status[t]
                            => status[t] = "completed" /\ status'[t] = "yielded",
         \A r \in Sweeps : sweep[r] > 0 => sweep'[r] > 0
  PROVE  QueueInv'
<1>1. ASSUME NEW a \in Attempts, Startable(a, 1)' # {} PROVE Watched(a)'
  <2>1. Held(a)' = Held(a) /\ Held(a) \subseteq Tools
    BY DEF Held
  <2>2. Startable(a, 1)' = Startable(a, 1)
    BY <2>1, StartableSame
  <2>3. PICK r \in Sweeps : sweep[r] > 0 /\ Owner(r) = a
    BY <1>1, <2>2 DEF QueueInv, Watched
  <2> QED
    BY <2>3 DEF Watched
<1> QED
  BY <1>1 DEF QueueInv

LEMMA ToolWatched ==
  ASSUME QueueInv, OrderInv', NEW t \in Tools, ToolStep(t)
  PROVE  QueueInv'
<1>1. UNCHANGED <<received, kind, attempt, current>>
  BY DEF ToolStep, ToolProgress, ToolResult, ToolCutAfterResult, ToolEnds,
         DetachedCallEnds, PermissionRejected, blocks, turn
<1>2. \/ UNCHANGED <<status, sweep>>
      \/ /\ status' = [status EXCEPT ![t] = "completed"]
         /\ sweep' = [sweep EXCEPT ![<<"done", t>>] = 1]
  BY DEF ToolStep, ToolProgress, ToolResult, ToolCutAfterResult, ToolEnds,
         DetachedCallEnds, PermissionRejected, Complete, execution
<1>3. \A r \in Sweeps : Owner(r)' = Owner(r)
  BY <1>1 DEF Owner
<1> QED
  BY <1>1, <1>2, <1>3, CompleteWatched, QuietWatched

LEMMA QueryWatched ==
  ASSUME QueueInv, OrderInv', QueryStep \/ AbortTurn \/ Discard
  PROVE  QueueInv'
<1>1. UNCHANGED <<received, kind, attempt>> /\ (current' = current \/ pc = "stream")
  BY DEF QueryStep, ScanBegins, ScanYields, ScanEnds, WaitEnds, StreamEnds,
         AbortTurn, Discard, blocks, turn
<1>2. \A t \in Tools : status'[t] # status[t]
                         => status[t] = "completed" /\ status'[t] = "yielded"
  BY QueryYields DEF QueueInv, OrderInv, TurnInv, AnswerInv, ExclusiveInv, TypeOK
<1>3. UNCHANGED sweep \/ sweep' = [sweep EXCEPT ![<<"drain", 0>>] = 1]
  BY DEF QueryStep, ScanBegins, ScanYields, ScanEnds, WaitEnds, StreamEnds,
         AbortTurn, Discard, DrainLoop, execution
<1>4. sweep \in [Sweeps -> 0..MaxTools + 1] /\ <<"drain", 0>> \in Sweeps
  BY SweepNames DEF QueueInv, OrderInv, TurnInv, AnswerInv, ExclusiveInv, TypeOK
<1>5. \A r \in Sweeps : sweep[r] > 0 => sweep'[r] > 0
  BY <1>3, <1>4
<1>6. \A r \in Sweeps : sweep[r] > 0 => Owner(r)' = Owner(r)
  BY <1>1, DrainIsAlone DEF Owner, QueueInv, OrderInv
<1> QED
  BY <1>1, <1>2, <1>5, <1>6, QuietWatched

LEMMA AddToolWatched ==
  ASSUME QueueInv, OrderInv', AddTool
  PROVE  QueueInv'
<1>1. PICK t \in Tools : t = received + 1
  BY AddToolLoops DEF QueueInv
<1>2. received \in Nat /\ ~(t <= received) /\ received' = t /\ UNCHANGED current
  BY <1>1, AddToolLoops, SMT DEF QueueInv
<1>3. \A u \in Tools \ {t} : /\ attempt'[u] = attempt[u] /\ kind'[u] = kind[u]
                             /\ status'[u] = status[u]
  BY <1>1, AddToolLoops DEF QueueInv
<1>4. /\ attempt'[t] = current
      /\ \/ status'[t] = "completed"
         \/ <<"add", t>> \in Sweeps /\ sweep'[<<"add", t>>] > 0
  <2>1. /\ attempt \in [Tools -> Attempts] /\ status \in [Tools -> Statuses]
        /\ sweep \in [Sweeps -> 0..MaxTools + 1] /\ <<"add", t>> \in Sweeps
    BY SweepNames DEF QueueInv, OrderInv, TurnInv, AnswerInv, ExclusiveInv, TypeOK
  <2>2. /\ attempt' = [attempt EXCEPT ![t] = current]
        /\ \/ status' = [status EXCEPT ![t] = "completed"]
           \/ sweep' = [sweep EXCEPT ![<<"add", t>>] = 1]
    BY <1>1 DEF AddTool
  <2> QED
    BY <2>1, <2>2
<1>5. \A a : Watched(a) => Watched(a)'
  BY AddToolLoops DEF Watched, QueueInv
<1>6. \A u \in Tools : u <= t <=> u <= received \/ u = t
  BY <1>1, <1>2, SMT DEF Tools
<1>7. \A a : Held(a) \subseteq Tools \ {t}
  BY <1>2 DEF Held
<1>8. ASSUME NEW a \in Attempts, a # current, Startable(a, 1)' # {} PROVE Watched(a)'
  <2>1. Held(a)' = Held(a)
    BY <1>2, <1>3, <1>4, <1>6, <1>8 DEF Held
  <2>2. Startable(a, 1)' = Startable(a, 1)
    BY <1>3, <1>7, <2>1, StartableSame
  <2> QED
    BY <1>5, <1>8, <2>2 DEF QueueInv
<1>9. ASSUME status'[t] = "completed", Startable(current, 1)' # {} PROVE Watched(current)'
  <2>1. Held(current)' = Held(current) \cup {t}
    BY <1>2, <1>3, <1>4, <1>6 DEF Held
  <2>2. Executing(current)' = Executing(current)
    BY <1>2, <1>3, <1>7, <1>9, <2>1 DEF Executing
  <2>3. \A u \in Held(current) : Safe(u)' = Safe(u) /\ attempt'[u] = attempt[u]
    BY <1>3, <1>7 DEF Safe
  <2>4. \A u \in Held(current) : CanExecute(u)' = CanExecute(u)
    <3>1. \A u \in Held(current) : attempt[u] = current
      BY DEF Held
    <3>2. Executing(current) \subseteq Held(current)
      BY DEF Executing
    <3> QED
      BY <1>2, <2>2, <2>3, <3>1, <3>2 DEF CanExecute
  <2>5. Startable(current, 1)' \subseteq Startable(current, 1)
    BY <1>2, <1>3, <1>7, <1>9, <2>1, <2>3, <2>4 DEF Startable, Reached
  <2>6. current \in Attempts
    BY DEF QueueInv, OrderInv, TurnInv, AnswerInv, ExclusiveInv, TypeOK
  <2>7. Startable(current, 1) # {}
    BY <1>9, <2>5
  <2>8. Watched(current)
    BY <2>6, <2>7 DEF QueueInv
  <2> QED
    BY <1>2, <1>5, <2>8
<1>10. ASSUME ~(status'[t] = "completed") PROVE Watched(current)'
  <2>1. Owner(<<"add", t>>)' = current'
    BY <1>2, <1>4 DEF Owner
  <2> QED
    BY <1>2, <1>4, <1>10, <2>1 DEF Watched
<1> QED
  BY <1>2, <1>8, <1>9, <1>10 DEF QueueInv

LEMMA InitQueue == Init => QueueInv
BY InitOrder, SMT DEF Init, QueueInv, Startable, Reached, Held

LEMMA NextQueue == QueueInv /\ [Next]_vars => QueueInv'
<1> SUFFICES ASSUME QueueInv, [Next]_vars PROVE QueueInv'
  OBVIOUS
<1>0. OrderInv'
  BY NextOrder DEF QueueInv
<1>1. CASE UNCHANGED vars
  <2>1. UNCHANGED <<received, kind, attempt, current, status, sweep>>
    BY <1>1 DEF vars, blocks, execution, turn
  <2>2. \A r \in Sweeps : Owner(r)' = Owner(r)
    BY <2>1 DEF Owner
  <2> QED
    BY <1>0, <2>1, <2>2, QuietWatched
<1>2. CASE TurnOver
  BY <1>1, <1>2 DEF TurnOver
<1> QED
  BY <1>0, <1>1, <1>2, SweepWatched, ToolWatched, QueryWatched, AddToolWatched DEF Next

\* Whichever loops were suspended when tools arrived and completed, once the event
\* loop is idle no executor holds a queued tool that could run.
THEOREM NoneLeftBehind == Spec => []NothingLeftStartable
<1>1. QueueInv => NothingLeftStartable
  BY DEF QueueInv, NothingLeftStartable, Idle, Watched
<1> QED
  BY <1>1, InitQueue, NextQueue, PTL DEF Spec
================================================================================
