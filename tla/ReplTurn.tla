-------------------------------- MODULE ReplTurn -------------------------------
(* The REPL's turns: the QueryGuard state machine, the command queue that      *)
(* feeds it, handlePromptSubmit/executeUserInput, onQuery and its finally, the *)
(* cancel key, and the drain of the queue in the middle of a query.            *)
(*                                                                             *)
(* An action is the code between two awaits.  A turn is one executeUserInput   *)
(* (or one onQuery called directly for an incoming prompt); a cancelled turn   *)
(* goes on to its end beside the turns that follow it.  React flushes the      *)
(* queue effect in the microtask after the guard or the queue changes, so the  *)
(* effect sees the guard as it is; what runs before it in the microtask queue  *)
(* is left open.                                                               *)
EXTENDS Naturals, FiniteSets

CONSTANTS
  Commands,   \* what the user, a teammate or a background task submits
  Notes,      \* task notifications: priority 'later'
  Hidden,     \* prompts of the cron and of goals: priority 'later', isMeta
  Solos,      \* slash and bash-mode commands: taken from the queue one at a time
  MaxTurns    \* bound: turns alive at the same time

ASSUME CommandsAssumption ==
  /\ Notes \subseteq Commands /\ Hidden \subseteq Commands /\ Solos \subseteq Commands
  /\ Notes \cap Solos = {} /\ Notes \cap Hidden = {} /\ Hidden \cap Solos = {}
ASSUME TurnsAssumption == MaxTurns \in Nat

Turns == 1..MaxTurns
None == 0

VARIABLES
  status,      \* QueryGuard._status
  generation,  \* QueryGuard._generation
  age,         \* age[c]: how many enqueues c has been in commandQueue for, its own
               \* included; 0 if it is not there
  recast,      \* commands enqueued again as plain prompts (enqueuePrompt)
  submitted,   \* commands that have been submitted
  handled,     \* commands whose messages went into the conversation, or needed none
  dropped,     \* commands given back to the input box, cleared, or failed
  phase,       \* where each turn is
  batch,       \* the commands of each turn
  direct,      \* the turn is an onQuery without executeUserInput around it
  held,        \* thisGeneration of the turn's onQuery; 0 before tryStart
  aborted,     \* the abort reason of the turn's own controller
  drained,     \* queuedCommandsSnapshot of the turn's mid-query drain
  controller   \* the turn whose controller is the REPL's abortController, or None

guard == <<status, generation>>
queue == <<age, recast>>
fate == <<submitted, handled, dropped>>
turns == <<phase, batch, direct, held, aborted, drained>>
vars == <<guard, queue, fate, turns, controller>>

Phases == {"none", "input", "query", "draining", "attached", "skipped", "finalizing", "leaving"}
Querying == {"query", "draining", "attached", "skipped"}   \* inside the try of onQuery

Queued == {c \in Commands : age[c] > 0}
IsNote(c) == c \in Notes \ recast
IsSolo(c) == c \in Solos \ recast
IsLate(c) == IsNote(c) \/ c \in Hidden
SameMode(c, d) == IsNote(c) = IsNote(d)
SamePriority(c, d) == IsLate(c) = IsLate(d)

UserCommands == Commands \ (Notes \cup Hidden)

\* The turn whose query the guard is running.
Holds(a) == phase[a] \in Querying /\ status = "running" /\ held[a] = generation

Init ==
  /\ status = "idle" /\ generation = 0
  /\ age = [c \in Commands |-> 0] /\ recast = {}
  /\ submitted = {} /\ handled = {} /\ dropped = {}
  /\ phase = [a \in Turns |-> "none"] /\ batch = [a \in Turns |-> {}]
  /\ direct = [a \in Turns |-> FALSE] /\ held = [a \in Turns |-> 0]
  /\ aborted = [a \in Turns |-> "no"] /\ drained = [a \in Turns |-> {}]
  /\ controller = None

-------------------------------------------------------------------------------
(* QueryGuard *)

\* Seeded bugs (the Bug* operators here and below): forms of a definition that a
\* plausible mistake in the code would give it.  No specification uses them.
BugReserveRenamed == status' = "reserved" /\ UNCHANGED generation

Reserve ==
  /\ status' = IF status = "idle" THEN "dispatching" ELSE status
  /\ UNCHANGED generation

BugReservationKept == UNCHANGED guard

CancelReservation ==
  /\ status' = IF status = "dispatching" THEN "idle" ELSE status
  /\ UNCHANGED generation

\* tryStart, when it does not return null.
TryStart(a) ==
  /\ status' = "running" /\ generation' = generation + 1
  /\ held' = [held EXCEPT ![a] = generation + 1]

BugEndsAny(a) == status = "running"

\* end() returns true.
Ends(a) == held[a] = generation /\ status = "running"

ForceEnd ==
  /\ status' = "idle"
  /\ generation' = IF status = "idle" THEN generation ELSE generation + 1

-------------------------------------------------------------------------------
(* commandQueue *)

\* Commands enqueued by one call: they keep their order by mode and priority.
Enqueue(S) ==
  age' = [c \in Commands |-> IF c \in S THEN 1 ELSE IF c \in Queued THEN age[c] + 1 ELSE 0]

Remove(S) ==
  /\ age' = [c \in Commands |-> IF c \in S THEN 0 ELSE age[c]]
  /\ UNCHANGED recast

BugFifoOnly(c, d) == age[c] >= age[d]

\* peek: 'next' (user input) before 'later' (the system's), then first come.
Before(c, d) ==
  \/ ~IsLate(c) /\ IsLate(d)
  \/ SamePriority(c, d) /\ age[c] >= age[d]

\* What processQueueIfReady takes when the command it peeked at is c.
Taken(c) ==
  IF IsSolo(c) THEN {c} ELSE {d \in Queued : ~IsSolo(d) /\ SameMode(c, d)}

-------------------------------------------------------------------------------
(* handlePromptSubmit and executeUserInput *)

FreeTurn(a) == phase[a] = "none" /\ \A b \in Turns : b < a => phase[b] # "none"

\* executeUserInput up to its first await: a fresh controller, then reserve().
Begins(a, S) ==
  /\ FreeTurn(a)
  /\ phase' = [phase EXCEPT ![a] = "input"]
  /\ batch' = [batch EXCEPT ![a] = S]
  /\ direct' = [direct EXCEPT ![a] = FALSE]
  /\ aborted' = [aborted EXCEPT ![a] = "no"]
  /\ controller' = a
  /\ Reserve
  /\ UNCHANGED <<held, drained>>

\* The user submits c: it runs if the guard is idle.
SubmitRuns(c) ==
  /\ c \in UserCommands \ submitted /\ status = "idle"
  /\ submitted' = submitted \cup {c}
  /\ \E a \in Turns : Begins(a, {c})
  /\ UNCHANGED <<queue, handled, dropped>>

\* ... and waits in the queue if not, interrupting interruptible tools.
SubmitWaits(c) ==
  /\ c \in UserCommands \ submitted /\ status # "idle"
  /\ submitted' = submitted \cup {c}
  /\ Enqueue({c})
  /\ \/ UNCHANGED aborted
     \/ /\ \E a \in Turns : phase[a] \in Querying
        /\ controller # None /\ aborted[controller] = "no"
        /\ aborted' = [aborted EXCEPT ![controller] = "interrupt"]
  /\ UNCHANGED <<guard, recast, handled, dropped, phase, batch, direct, held, drained, controller>>

\* A background task reports, or the cron or a goal has a prompt.
Notify(c) ==
  /\ c \in (Notes \cup Hidden) \ submitted
  /\ submitted' = submitted \cup {c}
  /\ Enqueue({c})
  /\ UNCHANGED <<guard, recast, handled, dropped, turns, controller>>

\* A teammate's message, submitted as a turn of its own when nothing is pending.
Incoming(c) ==
  /\ c \in UserCommands \ (submitted \cup Solos)
  /\ status = "idle" /\ \A d \in Queued : IsNote(d)
  /\ submitted' = submitted \cup {c} /\ handled' = handled \cup {c}
  /\ \E a \in Turns :
       /\ FreeTurn(a) /\ TryStart(a)
       /\ phase' = [phase EXCEPT ![a] = "query"]
       /\ batch' = [batch EXCEPT ![a] = {c}]
       /\ direct' = [direct EXCEPT ![a] = TRUE]
       /\ aborted' = [aborted EXCEPT ![a] = "no"]
       /\ controller' = a
  /\ UNCHANGED <<queue, dropped, drained>>

\* The effect of useQueueProcessor.
QueueEffect ==
  /\ status = "idle"
  /\ \E c \in Queued :
       /\ \A d \in Queued : Before(c, d)
       /\ \E a \in Turns : Begins(a, Taken(c))
       /\ Remove(Taken(c))
  /\ UNCHANGED fate

\* The turn is over: its slot is free for another one (its controller may still
\* be the REPL's).
Frees(a) ==
  /\ phase' = [phase EXCEPT ![a] = "none"]
  /\ batch' = [batch EXCEPT ![a] = {}]
  /\ held' = [held EXCEPT ![a] = 0]
  /\ direct' = [direct EXCEPT ![a] = FALSE]
  /\ aborted' = IF controller = a THEN aborted ELSE [aborted EXCEPT ![a] = "no"]

\* processUserInput returned messages that ask for a query: onQuery up to its first
\* await.
InputQueries(a) ==
  /\ phase[a] = "input" /\ status # "running"
  /\ TryStart(a)
  /\ phase' = [phase EXCEPT ![a] = "query"]
  /\ handled' = handled \cup batch[a]
  /\ UNCHANGED <<queue, submitted, dropped, batch, direct, aborted, drained, controller>>

\* A local command with output, or a prompt that a hook blocked (shouldQuery is
\* false): onQuery comes without further events to handleSkippedLocalQueryTurn,
\* which clears the REPL's controller whoever it belongs to.
InputSkips(a) ==
  /\ phase[a] = "input" /\ status # "running"
  /\ TryStart(a)
  /\ phase' = [phase EXCEPT ![a] = "skipped"]
  /\ handled' = handled \cup batch[a]
  /\ controller' = None
  /\ UNCHANGED <<queue, submitted, dropped, batch, direct, aborted, drained>>

BugNotRequeued(a) ==
  /\ phase[a] = "input" /\ status = "running"
  /\ phase' = [phase EXCEPT ![a] = "leaving"]
  /\ UNCHANGED <<guard, queue, fate, batch, direct, held, aborted, drained, controller>>

\* ... or finds another query running: the texts that are not hidden are enqueued
\* again, as prompts.
InputRequeues(a) ==
  /\ phase[a] = "input" /\ status = "running"
  /\ Enqueue(batch[a] \ Hidden)
  /\ recast' = recast \cup (batch[a] \ Hidden)
  /\ phase' = [phase EXCEPT ![a] = "leaving"]
  /\ UNCHANGED <<guard, fate, batch, direct, held, aborted, drained, controller>>

\* A local command that leaves no message.
InputSilent(a) ==
  /\ phase[a] = "input" /\ \A c \in batch[a] : IsSolo(c)
  /\ CancelReservation
  /\ Frees(a)
  /\ handled' = handled \cup batch[a]
  /\ controller' = None
  /\ UNCHANGED <<queue, submitted, dropped, drained>>

\* processUserInput throws: only the finally runs.
InputThrows(a) ==
  /\ phase[a] = "input"
  /\ CancelReservation
  /\ Frees(a)
  /\ dropped' = dropped \cup batch[a]
  /\ UNCHANGED <<queue, submitted, handled, drained, controller>>

-------------------------------------------------------------------------------
(* onQuery, from its first await on *)

\* query.ts takes a snapshot of the queue between two requests: prompts, and what has
\* priority 'later' too when Sleep ran; slash and bash commands stay.
DrainBegins(a) ==
  /\ phase[a] = "query"
  /\ \E late \in BOOLEAN :
       LET S == {c \in Queued : ~IsSolo(c) /\ (IsLate(c) => late)}
       IN  S # {} /\ drained' = [drained EXCEPT ![a] = S]
  /\ phase' = [phase EXCEPT ![a] = "draining"]
  /\ UNCHANGED <<guard, queue, fate, batch, direct, held, aborted, controller>>

\* The attachments made from it are yielded into the conversation.
DrainAttaches(a) ==
  /\ phase[a] = "draining"
  /\ phase' = [phase EXCEPT ![a] = "attached"]
  /\ handled' = handled \cup drained[a]
  /\ UNCHANGED <<guard, queue, submitted, dropped, batch, direct, held, aborted, drained, controller>>

\* The commands of the snapshot are removed from the queue, if still there.
DrainRemoves(a) ==
  /\ phase[a] = "attached"
  /\ Remove(drained[a])
  /\ phase' = [phase EXCEPT ![a] = "query"]
  /\ drained' = [drained EXCEPT ![a] = {}]
  /\ UNCHANGED <<guard, fate, batch, direct, held, aborted, controller>>

\* onQuery has returned: executeUserInput, if there is one, goes on to its finally.
Returns(a) ==
  IF direct[a] THEN Frees(a)
  ELSE /\ phase' = [phase EXCEPT ![a] = "leaving"]
       /\ UNCHANGED <<batch, direct, held, aborted>>

\* runQueryImpl returns (at once, if it skipped the query) or throws, or onBeforeQuery
\* says no: the finally of onQuery.
QueryEnds(a) ==
  /\ phase[a] \in Querying
  /\ IF Ends(a)
     THEN /\ status' = "idle"
          /\ phase' = [phase EXCEPT ![a] = "finalizing"]
          /\ UNCHANGED <<batch, direct, held, aborted>>
     ELSE /\ UNCHANGED status
          /\ Returns(a)
  /\ drained' = [drained EXCEPT ![a] = {}]
  /\ UNCHANGED <<generation, queue, fate, controller>>

\* onTurnComplete has resolved: the rest of finalizeLocalQueryTurn.
Finalizes(a) ==
  /\ phase[a] = "finalizing"
  /\ controller' = None
  /\ Returns(a)
  /\ UNCHANGED <<guard, queue, fate, drained>>

\* The finally of executeUserInput.
Leaves(a) ==
  /\ phase[a] = "leaving"
  /\ CancelReservation
  /\ Frees(a)
  /\ UNCHANGED <<queue, fate, drained, controller>>

-------------------------------------------------------------------------------
(* The cancel key *)

Editable == {c \in Queued : ~IsNote(c) /\ c \notin Hidden}
CanCancel == controller # None /\ aborted[controller] = "no"

\* dispatchReplCancel
Cancel ==
  /\ CanCancel
  /\ ForceEnd
  /\ aborted' = [aborted EXCEPT ![controller] = "user-cancel"]
  /\ controller' = None
  /\ UNCHANGED <<queue, fate, phase, batch, direct, held, drained>>

\* Nothing to cancel: the queued prompts go back to the input box (popAllEditable).
Pop ==
  /\ ~CanCancel
  /\ Editable # {}
  /\ Remove(Editable)
  /\ dropped' = dropped \cup Editable
  /\ UNCHANGED <<guard, submitted, handled, turns, controller>>

\* chat:killAgents pressed twice (clearCommandQueue).
KillAgents ==
  /\ Queued # {}
  /\ Remove(Queued)
  /\ dropped' = dropped \cup Queued
  /\ UNCHANGED <<guard, submitted, handled, turns, controller>>

-------------------------------------------------------------------------------
UserStep ==
  \/ \E c \in Commands :
       SubmitRuns(c) \/ SubmitWaits(c) \/ Notify(c) \/ Incoming(c)
  \/ Cancel \/ Pop \/ KillAgents

InputStep(a) ==
  \/ InputQueries(a) \/ InputSkips(a) \/ InputRequeues(a)
  \/ InputSilent(a) \/ InputThrows(a)
QueryStep(a) ==
  DrainBegins(a) \/ DrainAttaches(a) \/ DrainRemoves(a) \/ QueryEnds(a)

\* Everything was submitted and nothing is left to do.
Quiet ==
  /\ submitted = Commands /\ Queued = {} /\ \A a \in Turns : phase[a] = "none"
  /\ UNCHANGED vars

Next ==
  \/ UserStep \/ QueueEffect \/ Quiet
  \/ \E a \in Turns : InputStep(a) \/ QueryStep(a) \/ Finalizes(a) \/ Leaves(a)

Spec == Init /\ [][Next]_vars

\* React runs the effect; processUserInput, a query and onTurnComplete come to
\* an end, and what awaits them is resumed.
Fairness ==
  /\ WF_vars(QueueEffect)
  /\ \A a \in Turns :
       /\ WF_vars(InputStep(a)) /\ WF_vars(QueryEnds(a))
       /\ WF_vars(Finalizes(a)) /\ WF_vars(Leaves(a))

FairSpec == Spec /\ Fairness

-------------------------------------------------------------------------------
(* Properties *)

TypeOK ==
  /\ status \in {"idle", "dispatching", "running"} /\ generation \in Nat
  /\ age \in [Commands -> Nat] /\ recast \subseteq Commands
  /\ submitted \subseteq Commands /\ handled \subseteq Commands
  /\ dropped \subseteq Commands
  /\ phase \in [Turns -> Phases] /\ batch \in [Turns -> SUBSET Commands]
  /\ direct \in [Turns -> BOOLEAN] /\ held \in [Turns -> Nat]
  /\ aborted \in [Turns -> {"no", "user-cancel", "interrupt"}]
  /\ drained \in [Turns -> SUBSET Commands]
  /\ controller \in Turns \cup {None}

\* The guard never stays taken for nobody: a query or an input is behind it whose
\* end will release it ("the guard is released even if processUserInput throws or
\* onQuery is skipped", executeUserInput).
GuardHeld ==
  /\ status = "running" => \E a \in Turns : Holds(a)
  /\ status = "dispatching" => \E a \in Turns : phase[a] = "input"

\* end(): a stale finally block from a cancelled query does not end the query that
\* has replaced it; a turn loses the guard by its own end or by the cancel key.
OwnEnd ==
  [][\A a \in Turns :
       Holds(a) /\ ~Holds(a)' => phase'[a] \notin Querying \/ generation' # generation]_vars

\* Whatever the user, a teammate or a task submitted is waiting, being processed,
\* in the conversation, or was given back: no interleaving of requeues, drains and
\* cancels loses it (a hidden prompt that loses the race for the guard is).
NoCommandLost ==
  \A c \in submitted \ Hidden :
    \/ c \in Queued \cup handled \cup dropped
    \/ \E a \in Turns : phase[a] = "input" /\ c \in batch[a]

\* "priority to 'later' so user input is never starved by system messages"
\* (enqueuePendingNotification): a turn never begins for the system's commands alone
\* while something of the user's waits.
UserFirst ==
  [][\A a \in Turns :
       phase[a] = "none" /\ phase'[a] = "input" /\ (\A d \in batch'[a] : IsLate(d))
       => \A c \in Queued : IsLate(c)]_vars

\* A queued command does not wait for ever.
CommandServed == \A c \in Commands : c \in Queued ~> c \notin Queued

\* "If there's an active task running, cancel it first ... so users can always
\* interrupt" (useCancelRequest): the REPL has the controller of the turn whose query
\* is running (a skipped one has no query left to cancel).
AlwaysCancellable ==
  \A a \in Turns :
    Holds(a) /\ phase[a] # "skipped" /\ aborted[a] = "no" => controller = a
================================================================================
