---------------------------- MODULE EventUploader ----------------------------
(* The uploader behind every write of a remote session,                       *)
(* cli/transports/SerialBatchEventUploader.ts: events are queued, one loop    *)
(* POSTs them in batches, a failed batch goes back to the front of the queue  *)
(* and is retried after a pause, enqueue() waits while the queue is full and  *)
(* flush() waits until it is empty.                                           *)
(*                                                                            *)
(* The program is single-threaded. What runs between two events of the event  *)
(* loop are continuations of promises, in the order in which these were       *)
(* resolved: `jobs` is that queue. A call of enqueue() or flush() is an       *)
(* operation, named by its place in `ops`. The callers are whoever takes a    *)
(* step of UploaderNext; TransportWrites has the real ones.                   *)
EXTENDS Integers, Sequences, SequencesExt

CONSTANTS
    Event,                  \* the events that are written
    Configs,                \* the configurations an uploader may be created with
    MaxLate                 \* bound: requests that outlive their timeout at a time

ASSUME UploaderAssumption ==
    /\ Configs \subseteq [maxBatchSize : Nat \ {0}, maxQueueSize : Nat \ {0},
                          maxConsecutiveFailures : Nat]
    /\ MaxLate \in Nat

VARIABLES
    pending,                \* the queue
    draining,               \* a drain loop is running
    closed,                 \* close() was called
    loops,                  \* the activations of drain() that have not ended
    blocked,                \* backpressureResolvers: enqueue() calls waiting for room
    flushers,               \* flushResolvers: flush() calls waiting for an empty queue
    ops,                    \* every call of enqueue() and flush() so far
    jobs,                   \* the promise continuations that are due
    config,                 \* the configuration of this uploader
    late,                   \* batches whose POST timed out here and may still land
    arrived,                \* events the server has stored
    given,                  \* events of batches dropped or refused for good
    pushed,                 \* history: the events queued, in order
    waited                  \* history: the events whose enqueue() waited for room

queueVars == <<pending, draining, loops, pushed>>
waitVars == <<blocked, flushers, waited>>
serverVars == <<late, arrived, given>>
uploaderVars == <<pending, draining, closed, loops, blocked, flushers, ops,
                  jobs, config, late, arrived, given, pushed, waited>>

MaxBatch == config.maxBatchSize
MaxQueue == config.maxQueueSize

\* maxConsecutiveFailures, 0 when it is undefined.
Limit == config.maxConsecutiveFailures

\* `goal` of a flush() is the number of events queued before it was called.
Op == [items : Seq(Event), goal : Nat]

\* The continuations: an enqueue() that was woken looks for room again, the
\* caller of an operation that returned goes on, a drain loop that close()
\* woke from its pause goes on, and any other step of a caller.
Job == [kind : {"recheck", "resume", "wake", "tick"}, id : Nat]

Loop == [at : {"sending", "sleeping", "waking"}, batch : Seq(Event), failures : Nat]

UploaderTypeOK ==
    /\ pending \in Seq(Event)
    /\ pushed \in Seq(Event)
    /\ draining \in BOOLEAN
    /\ closed \in BOOLEAN
    /\ loops \in SUBSET Loop
    /\ ops \in Seq(Op)
    /\ blocked \in Seq(DOMAIN ops)
    /\ flushers \in Seq(DOMAIN ops)
    /\ jobs \in Seq(Job)
    /\ config \in Configs
    /\ late \in SUBSET SUBSET Event
    /\ arrived \subseteq Event
    /\ given \subseteq Event
    /\ waited \subseteq Event

UploaderInit ==
    /\ pending = <<>>
    /\ draining = FALSE
    /\ closed = FALSE
    /\ loops = {}
    /\ blocked = <<>>
    /\ flushers = <<>>
    /\ ops = <<>>
    /\ jobs = <<>>
    /\ config \in Configs
    /\ late = {}
    /\ arrived = {}
    /\ given = {}
    /\ pushed = <<>>
    /\ waited = {}

-----------------------------------------------------------------------------
(* Helpers.                                                                 *)

JobsOf(kind, ids) == [i \in DOMAIN ids |-> [kind |-> kind, id |-> ids[i]]]
JobOf(kind, id) == [kind |-> kind, id |-> id]

\* takeBatch(): the front of the queue, and what stays in it.
Taken(q) == IF Len(q) < MaxBatch THEN Len(q) ELSE MaxBatch
TakeBatch(q) == SubSeq(q, 1, Taken(q))
LeftOver(q) == SubSeq(q, Taken(q) + 1, Len(q))

SendingLoop(q, failures) ==
    [at |-> "sending", batch |-> TakeBatch(q), failures |-> failures]
SleepingLoop(failures) ==
    [at |-> "sleeping", batch |-> <<>>, failures |-> failures]

\* Seeded bugs (the Bug* operators here and below): forms of a definition that a
\* slip in the code would give; each breaks a property of a run.
\* drain() does not test whether a loop is running.
BugDrainUnguarded(q) ==
    \/ closed /\ pending' = q /\ UNCHANGED <<draining, loops>>
    \/ /\ ~closed
       /\ draining' = TRUE
       /\ pending' = LeftOver(q)
       /\ loops' = IF q = <<>> THEN loops ELSE loops \cup {SendingLoop(q, 0)}

\* drain() on queue q: nothing while a loop runs or after close(), otherwise
\* a new loop that takes its first batch at once.
Drain(q) ==
    \/ /\ draining \/ closed
       /\ pending' = q
       /\ UNCHANGED <<draining, loops>>
    \/ /\ ~draining /\ ~closed
       /\ draining' = TRUE
       /\ pending' = LeftOver(q)
       /\ loops' = loops \cup {SendingLoop(q, 0)}

\* The drain loop is back at its head with queue q: it sends the next batch,
\* or it ends, and then the flush() calls return if the queue is empty. The
\* jobs in js are due before theirs.
NextRound(l, q, failures, js) ==
    \/ /\ q # <<>> /\ ~closed
       /\ pending' = LeftOver(q)
       /\ loops' = (loops \ {l}) \cup {SendingLoop(q, failures)}
       /\ jobs' = js
       /\ UNCHANGED <<draining, flushers>>
    \/ /\ q = <<>> \/ closed
       /\ pending' = q
       /\ loops' = loops \ {l}
       /\ draining' = FALSE
       /\ \/ /\ q = <<>>
             /\ jobs' = js \o JobsOf("resume", flushers)
             /\ flushers' = <<>>
          \/ /\ q # <<>>
             /\ jobs' = js
             /\ UNCHANGED flushers

-----------------------------------------------------------------------------
(* enqueue() and flush(). js is the queue of jobs the call adds to: all of  *)
(* them, or all but the one the caller runs in.                             *)

\* enqueue() does not wait for room.
BugNeverWaits(o, items, js) ==
    /\ jobs' = Append(js, JobOf("resume", o))
    /\ UNCHANGED <<blocked, waited>>
    /\ IF closed THEN UNCHANGED queueVars
       ELSE pushed' = pushed \o items /\ Drain(pending \o items)

\* Operation o with these items looks for room: it returns at once after
\* close(), waits when the queue is too full, and otherwise queues its items.
Admit(o, items, js) ==
    \/ /\ closed
       /\ jobs' = Append(js, JobOf("resume", o))
       /\ UNCHANGED <<blocked, waited, queueVars>>
    \/ /\ ~closed
       /\ Len(pending) + Len(items) > MaxQueue
       /\ blocked' = Append(blocked, o)
       /\ waited' = waited \cup Range(items)
       /\ jobs' = js
       /\ UNCHANGED queueVars
    \/ /\ ~closed
       /\ Len(pending) + Len(items) <= MaxQueue
       /\ pushed' = pushed \o items
       /\ Drain(pending \o items)
       /\ jobs' = Append(js, JobOf("resume", o))
       /\ UNCHANGED <<blocked, waited>>

\* enqueue(items).
Enqueue(items, js) ==
    /\ items # <<>>
    /\ ops' = Append(ops, [items |-> items, goal |-> 0])
    /\ Admit(Len(ops) + 1, items, js)
    /\ UNCHANGED <<closed, flushers, config, serverVars>>

\* An enqueue() that was woken tests again whether there is room.
Recheck ==
    /\ jobs # <<>>
    /\ Head(jobs).kind = "recheck"
    /\ Admit(Head(jobs).id, ops[Head(jobs).id].items, Tail(jobs))
    /\ UNCHANGED <<closed, flushers, ops, config, serverVars>>

\* flush() looks at the queue only, not at the batch in flight.
BugIgnoresBatchInFlight(js) ==
    /\ ops' = Append(ops, [items |-> <<>>, goal |-> Len(pushed)])
    /\ IF pending = <<>>
       THEN /\ jobs' = Append(js, JobOf("resume", Len(ops) + 1))
            /\ UNCHANGED <<pending, draining, loops, flushers>>
       ELSE /\ Drain(pending)
            /\ flushers' = Append(flushers, Len(ops) + 1)
            /\ jobs' = js
    /\ UNCHANGED <<closed, blocked, waited, config, serverVars, pushed>>

\* flush(): returns at once when there is nothing to wait for.
Flush(js) ==
    /\ ops' = Append(ops, [items |-> <<>>, goal |-> Len(pushed)])
    /\ \/ /\ pending = <<>> /\ ~draining
          /\ jobs' = Append(js, JobOf("resume", Len(ops) + 1))
          /\ UNCHANGED <<pending, draining, loops, flushers>>
       \/ /\ pending # <<>> \/ draining
          /\ Drain(pending)
          /\ flushers' = Append(flushers, Len(ops) + 1)
          /\ jobs' = js
    /\ UNCHANGED <<closed, blocked, waited, config, serverVars, pushed>>

\* close() does not resolve the flush() calls that wait.
BugCloseKeepsFlushers(js) ==
    /\ closed' = TRUE
    /\ pending' = IF closed THEN pending ELSE <<>>
    /\ loops' = { IF l.at = "sleeping" THEN [l EXCEPT !.at = "waking"] ELSE l : l \in loops }
    /\ jobs' = js \o (IF \E l \in loops : l.at = "sleeping"
                      THEN <<JobOf("wake", 0)>> ELSE <<>>)
                  \o JobsOf("recheck", blocked)
    /\ blocked' = <<>>
    /\ UNCHANGED <<draining, flushers, pushed, waited, ops, config, serverVars>>

\* close(): the queue is forgotten, the pause of the loop is cut short, and
\* every waiting call goes on.
Close(js) ==
    \/ /\ closed
       /\ jobs' = js
       /\ UNCHANGED <<queueVars, waitVars, closed, ops, config, serverVars>>
    \/ /\ ~closed
       /\ closed' = TRUE
       /\ pending' = <<>>
       /\ loops' = { IF l.at = "sleeping" THEN [l EXCEPT !.at = "waking"] ELSE l
                     : l \in loops }
       /\ jobs' = js \o (IF \E l \in loops : l.at = "sleeping"
                         THEN <<JobOf("wake", 0)>> ELSE <<>>)
                     \o JobsOf("recheck", blocked)
                     \o JobsOf("resume", flushers)
       /\ blocked' = <<>>
       /\ flushers' = <<>>
       /\ UNCHANGED <<draining, pushed, waited, ops, config, serverVars>>

-----------------------------------------------------------------------------
(* The drain loop and the server. A loop that is sending waits for the      *)
(* answer to one POST.                                                      *)

Sending == { l \in loops : l.at = "sending" }

\* The enqueue() calls that wait are not woken.
BugNobodyWoken(l) ==
    /\ NextRound(l, pending, 0, jobs)
    /\ UNCHANGED <<closed, ops, blocked, config, pushed, waited>>

\* The batch is done with: waiting enqueue() calls are woken, the loop goes on.
BatchDone(l) ==
    /\ NextRound(l, pending, 0, jobs \o JobsOf("recheck", blocked))
    /\ blocked' = <<>>
    /\ UNCHANGED <<closed, ops, config, pushed, waited>>

\* send() returns and the server has the batch.
Deliver(l) ==
    /\ arrived' = arrived \cup Range(l.batch)
    /\ BatchDone(l)
    /\ UNCHANGED <<late, given>>

\* send() returns although the server has nothing of it: refused for good.
Refuse(l) ==
    /\ given' = given \cup Range(l.batch)
    /\ BatchDone(l)
    /\ UNCHANGED <<late, arrived>>

\* What the server has of a batch whose POST failed here: nothing, all of
\* it (the answer was lost), or nothing so far (it may still land).
Outcome(batch) ==
    \/ UNCHANGED <<arrived, late>>
    \/ /\ arrived' = arrived \cup Range(batch)
       /\ UNCHANGED late
    \/ /\ Cardinality(late) < MaxLate
       /\ late' = late \cup {Range(batch)}
       /\ UNCHANGED arrived

\* The failures are counted down.
BugCountsDown(l) == IF Limit = 0 THEN 0 ELSE l.failures - 1

\* Consecutive failures matter to the loop only when they are limited.
Failures(l) == IF Limit = 0 THEN 0 ELSE l.failures + 1

OverBudget(l) == Limit # 0 /\ Failures(l) >= Limit

\* send() throws and the failure budget is spent: the batch is dropped.
Drop(l) ==
    /\ OverBudget(l)
    /\ Outcome(l.batch)
    /\ given' = given \cup Range(l.batch)
    /\ BatchDone(l)

\* The failed batch is queued again, at the end.
BugRequeuesAtEnd(l) ==
    /\ ~OverBudget(l)
    /\ Outcome(l.batch)
    /\ pending' = pending \o l.batch
    /\ loops' = (loops \ {l}) \cup {SleepingLoop(Failures(l))}
    /\ UNCHANGED <<draining, closed, waitVars, ops, jobs, config, given, pushed>>

\* send() throws: the batch goes back to the front, and the loop pauses.
Retry(l) ==
    /\ ~OverBudget(l)
    /\ Outcome(l.batch)
    /\ pending' = l.batch \o pending
    /\ loops' = (loops \ {l}) \cup {SleepingLoop(Failures(l))}
    /\ UNCHANGED <<draining, closed, waitVars, ops, jobs, config, given, pushed>>

\* The server says that another worker has taken over: the sender closes the
\* uploader from inside send(), which then throws.
Superseded(l) ==
    /\ ~OverBudget(l)
    /\ ~closed
    /\ closed' = TRUE
    /\ pending' = l.batch
    /\ loops' = (loops \ {l}) \cup {SleepingLoop(Failures(l))}
    /\ jobs' = jobs \o JobsOf("recheck", blocked) \o JobsOf("resume", flushers)
    /\ blocked' = <<>>
    /\ flushers' = <<>>
    /\ UNCHANGED <<draining, pushed, waited, ops, config, serverVars>>

\* The pause of a loop is over.
SleepEnds(l) ==
    /\ l.at = "sleeping"
    /\ NextRound(l, pending, l.failures, jobs)
    /\ UNCHANGED <<closed, blocked, waited, ops, config, pushed, serverVars>>

\* A loop that close() woke goes on.
Wake(l) ==
    /\ jobs # <<>>
    /\ Head(jobs).kind = "wake"
    /\ l.at = "waking"
    /\ NextRound(l, pending, l.failures, Tail(jobs))
    /\ UNCHANGED <<closed, blocked, waited, ops, config, pushed, serverVars>>

\* A POST that this side had given up waiting for reaches the server.
LandLate ==
    /\ \E batch \in late :
         /\ arrived' = arrived \cup batch
         /\ late' = late \ {batch}
    /\ UNCHANGED <<queueVars, waitVars, closed, ops, jobs, config, given>>

-----------------------------------------------------------------------------
(* The uploader with the most general callers: whoever runs outside the     *)
(* jobs, or in a job of its own, may call anything or put off more work.    *)

\* The jobs behind the caller: all, or all but the one it runs in.
CallerJobs ==
    {jobs} \cup { Tail(jobs) : j \in { k \in Range(jobs) :
                    k = Head(jobs) /\ k.kind \in {"resume", "tick"} } }

Calls ==
    \E js \in CallerJobs :
        \/ \E items \in Seq(Event) : Enqueue(items, js)
        \/ Flush(js)
        \/ Close(js)
        \/ /\ \/ jobs' = js
              \/ \E c \in Nat : jobs' = Append(js, JobOf("tick", c))
           /\ UNCHANGED <<queueVars, waitVars, closed, ops, config, serverVars>>

UploaderNext ==
    \/ Calls
    \/ Recheck
    \/ \E l \in Sending : Deliver(l) \/ Refuse(l) \/ Drop(l) \/ Retry(l) \/ Superseded(l)
    \/ \E l \in loops : SleepEnds(l) \/ Wake(l)
    \/ LandLate

UploaderSpec == UploaderInit /\ [][UploaderNext]_uploaderVars

-----------------------------------------------------------------------------
(* Properties.                                                              *)

Settled == arrived \cup given
QueuedFirst(n) == { pushed[p] : p \in 1..n }

Waiting == Range(blocked) \cup Range(flushers)
           \cup { j.id : j \in { k \in Range(jobs) : k.kind = "recheck" } }

\* At most one POST is under way: every start of drain() that finds work finds
\* the flag of the loop that is already running, across pauses, rechecks and
\* close() (lines 157-158 and 190).
OneInFlight ==
    /\ \A l, m \in loops : l = m
    /\ draining <=> loops # {}

\* Nobody is left behind: while the uploader is open, queued events have a
\* loop that will send them, a waiting flush() has a loop that will end, and
\* an enqueue() that waits for room either asks for more than the queue ever
\* holds or has a loop that will wake it.
NobodyStranded ==
    ~closed =>
        /\ pending # <<>> => draining
        /\ flushers # <<>> => draining
        /\ \A o \in Range(blocked) : draining \/ Len(ops[o].items) > MaxQueue

\* The queue and the batch in flight together never exceed the limit by more
\* than one batch, although a failed batch is put back without asking for room.
QueueBounded ==
    Len(pending) <= MaxQueue + MaxBatch
    /\ \A l \in loops : Len(l.batch) + Len(pending) <= MaxQueue + MaxBatch

\* What flush() promises: when it has returned and the uploader is open, every
\* event queued before the call was received by the server or given up,
\* whatever was retried, dropped or queued in between.
SettledOnReturn ==
    ~closed =>
        \A o \in DOMAIN ops \ Waiting : QueuedFirst(ops[o].goal) \subseteq Settled

\* The uploader is an ordered at-least-once uploader.
Ordered == INSTANCE OrderedDelivery
           WITH log <- pushed, received <- arrived, givenUp <- given, open <- ~closed
DeliversInOrder == Ordered!Spec
=============================================================================
