--------------------------- MODULE TransportWrites ---------------------------
(* The write path of a remote session's transport over its EventUploader.     *)
(*                                                                            *)
(* "hybrid" is cli/transports/HybridTransport.ts (POSTs to session ingress):  *)
(* write() and writeBatch() enqueue the buffered stream events and the new    *)
(* messages in one call and then flush. "ccr" is writeEvent() of              *)
(* cli/transports/ccrClient.ts under the v2 transport of                      *)
(* bridge/replBridgeTransport.ts: the stream events and each message are      *)
(* enqueued in calls of their own, with awaits in between. Stream events wait *)
(* in a buffer for 100 ms or for the next message.                            *)
(*                                                                            *)
(* Callers do not await their writes (`void transport.writeBatch(events)`),   *)
(* so any number of calls is under way; each is a record of `calls`. Events   *)
(* are numbered in the order in which they are written.                       *)
EXTENDS EventUploader

CONSTANTS
    Transports,             \* the transports: their kind and their uploader's configuration
    MaxWrite,               \* bound: messages of one writeBatch()
    MaxCalls                \* bound: calls of the transport

ASSUME TransportAssumption ==
    /\ Event \subseteq Nat
    /\ Transports \subseteq [kind : {"hybrid", "ccr"}, config : Configs]
    /\ \A t \in Transports : t.kind = "ccr" => t.config.maxConsecutiveFailures = 0
    /\ MaxWrite \in Nat
    /\ MaxCalls \in Nat

VARIABLES
    kind,                   \* which transport this is
    buffer,                 \* streamEventBuffer
    timer,                  \* streamEventTimer is set
    calls,                  \* the calls of the transport
    shut,                   \* close() of the transport was called
    written,                \* history: events written so far
    streams,                \* history: which of them are stream events
    folded                  \* history: stream events merged into an earlier one

transportVars == <<kind, buffer, timer, calls, shut, written, streams, folded>>
vars == <<uploaderVars, transportVars>>

\* One call: what it is, its messages and those of them not yet enqueued, the
\* await it is at, and the uploader operation it awaits there.
Call == [what : {"write", "batch", "close"},
         items : Seq(Event), rest : Seq(Event),
         stage : {"streamed", "write", "wrote", "next", "queued", "flushing", "done"},
         op : Nat]

TypeOK ==
    /\ UploaderTypeOK
    /\ [kind |-> kind, config |-> config] \in Transports
    /\ buffer \in Seq(Event)
    /\ timer \in BOOLEAN
    /\ calls \in Seq(Call)
    /\ shut \in BOOLEAN
    /\ written \in Nat
    /\ streams \subseteq Event
    /\ folded \subseteq streams

Init ==
    /\ UploaderInit
    /\ \E t \in Transports : kind = t.kind /\ config = t.config
    /\ buffer = <<>>
    /\ timer = FALSE
    /\ calls = <<>>
    /\ shut = FALSE
    /\ written = 0
    /\ streams = {}
    /\ folded = {}

-----------------------------------------------------------------------------
(* Helpers.                                                                 *)

\* The next n events, in the order of writing.
Fresh(n) == [i \in 1..n |-> written + i]
MayWrite(n) == \A i \in 1..n : written + i \in Event

NewCall(what, items) ==
    [what |-> what, items |-> items, rest |-> items, stage |-> "next", op |-> 0]

\* Call c is now r; a new call takes the next number.
NoteCall(c, r) ==
    calls' = IF c \in DOMAIN calls THEN [calls EXCEPT ![c] = r] ELSE Append(calls, r)

ThisOp == Len(ops) + 1

\* Nothing is left to run of the event that is being handled.
Quiet == jobs = <<>>

\* The buffered stream events are taken over and the timer is cleared. The
\* text deltas of a block are merged into the first of them by ccr.
TakeStreamEvents(payloads) ==
    /\ buffer' = <<>>
    /\ timer' = FALSE
    /\ payloads \in {buffer} \cup IF kind = "ccr" THEN {<<Head(buffer)>>} ELSE {}
    /\ folded' = folded \cup (Range(buffer) \ Range(payloads))

BufferKept == UNCHANGED <<buffer, timer, folded>>

UploaderIdle == UNCHANGED <<queueVars, waitVars, closed, ops, config, serverVars>>

-----------------------------------------------------------------------------
(* Calls of the transport.                                                  *)

\* write() of a stream event: it is buffered and the timer is set.
StreamEvent ==
    /\ MayWrite(1)
    /\ buffer' = Append(buffer, written + 1)
    /\ timer' = TRUE
    /\ written' = written + 1
    /\ streams' = streams \cup {written + 1}
    /\ UNCHANGED <<uploaderVars, kind, calls, shut, folded>>

\* The stream events in the buffer are left to the timer.
BugLeavesBuffer(n) ==
    /\ kind = "hybrid"
    /\ BufferKept
    /\ Enqueue(Fresh(n), jobs)
    /\ NoteCall(Len(calls) + 1,
                [NewCall("write", Fresh(n)) EXCEPT !.rest = <<>>, !.stage = "queued", !.op = ThisOp])

\* The buffer is emptied, and its events are not enqueued.
BugForgetsBuffer(n) ==
    /\ kind = "hybrid"
    /\ TakeStreamEvents(buffer)
    /\ Enqueue(Fresh(n), jobs)
    /\ NoteCall(Len(calls) + 1,
                [NewCall("write", Fresh(n)) EXCEPT !.rest = <<>>, !.stage = "queued", !.op = ThisOp])

\* hybrid: write() and writeBatch() enqueue everything in one call.
HybridWrite(n) ==
    /\ kind = "hybrid"
    /\ TakeStreamEvents(buffer)
    /\ Enqueue(buffer \o Fresh(n), jobs)
    /\ NoteCall(Len(calls) + 1,
                [NewCall("write", Fresh(n)) EXCEPT !.rest = <<>>, !.stage = "queued", !.op = ThisOp])

\* ccr: writeEvent() up to its first await, in call r with number c. It
\* enqueues the buffered stream events, if there are any.
StartWrite(c, r, js) ==
    \/ /\ buffer = <<>>
       /\ jobs' = Append(js, JobOf("tick", c))
       /\ NoteCall(c, [r EXCEPT !.stage = "write"])
       /\ UploaderIdle
       /\ BufferKept
    \/ /\ buffer # <<>>
       /\ \E payloads \in {buffer, <<Head(buffer)>>} :
            TakeStreamEvents(payloads) /\ Enqueue(payloads, js)
       /\ NoteCall(c, [r EXCEPT !.stage = "streamed", !.op = ThisOp])

\* ccr: write() and writeBatch().
CcrWrite(what, n) ==
    /\ kind = "ccr"
    /\ n = 1 \/ what = "batch"
    /\ StartWrite(Len(calls) + 1, NewCall(what, Fresh(n)), jobs)

Write ==
    /\ Len(calls) < MaxCalls
    /\ \E n \in 1..MaxWrite :
         /\ MayWrite(n)
         /\ HybridWrite(n) \/ \E what \in {"write", "batch"} : CcrWrite(what, n)
         /\ written' = written + n
    /\ UNCHANGED <<kind, shut, streams>>

\* The 100 ms are over: the buffered events are enqueued.
TimerFires ==
    /\ Quiet
    /\ timer
    /\ \E payloads \in {buffer, <<Head(buffer)>>} :
         TakeStreamEvents(payloads) /\ Enqueue(payloads, jobs)
    /\ UNCHANGED <<kind, calls, shut, written, streams>>

\* close() of either transport drops the buffer. hybrid leaves the uploader
\* the time of one flush(), ccr closes it at once.
CloseTransport ==
    /\ ~shut
    /\ shut' = TRUE
    /\ buffer' = <<>>
    /\ timer' = FALSE
    /\ \/ /\ kind = "hybrid"
          /\ Flush(jobs)
          /\ NoteCall(Len(calls) + 1,
                      [NewCall("close", <<>>) EXCEPT !.stage = "flushing", !.op = ThisOp])
       \/ /\ kind = "ccr"
          /\ Close(jobs)
          /\ UNCHANGED calls
    /\ UNCHANGED <<kind, written, streams, folded>>

\* hybrid: the grace period of close() is over.
GraceOver ==
    /\ Quiet
    /\ kind = "hybrid" /\ shut /\ ~closed
    /\ Close(jobs)
    /\ UNCHANGED transportVars

-----------------------------------------------------------------------------
(* The calls go on.                                                         *)

\* Call c was put off by one turn of the job queue.
Tick ==
    /\ jobs # <<>>
    /\ Head(jobs).kind = "tick"
    /\ LET c == Head(jobs).id
           r == calls[c]
           js == Tail(jobs)
       IN \/ \* ccr: the message itself is enqueued
             /\ r.stage = "write"
             /\ Enqueue(<<Head(r.rest)>>, js)
             /\ NoteCall(c, [r EXCEPT !.stage = "wrote", !.rest = Tail(r.rest), !.op = ThisOp])
             /\ BufferKept
          \/ \* ccr: writeBatch() goes on to the next message
             /\ r.stage = "next" /\ r.rest # <<>> /\ ~shut
             /\ StartWrite(c, r, js)
          \/ \* ccr: writeBatch() ends
             /\ r.stage = "next" /\ (r.rest = <<>> \/ shut)
             /\ jobs' = js
             /\ NoteCall(c, [r EXCEPT !.stage = "done"])
             /\ UploaderIdle
             /\ BufferKept
    /\ UNCHANGED <<kind, shut, written, streams>>

\* The operation a call awaits has returned.
Resumed(c) ==
    LET r == calls[c]
        js == Tail(jobs)
    IN \/ \* hybrid: the events are queued, now flush
          /\ r.stage = "queued"
          /\ Flush(js)
          /\ NoteCall(c, [r EXCEPT !.stage = "flushing", !.op = ThisOp])
       \/ \* ccr: the stream events are queued
          /\ r.stage = "streamed"
          /\ jobs' = Append(js, JobOf("tick", c))
          /\ NoteCall(c, [r EXCEPT !.stage = "write"])
          /\ UploaderIdle
       \/ \* ccr: the message of a writeBatch() is queued
          /\ r.stage = "wrote" /\ r.what = "batch"
          /\ jobs' = Append(js, JobOf("tick", c))
          /\ NoteCall(c, [r EXCEPT !.stage = "next"])
          /\ UploaderIdle
       \/ \* write() or writeBatch() returns
          /\ \/ r.stage = "flushing" /\ r.what # "close"
             \/ r.stage = "wrote" /\ r.what = "write"
          /\ jobs' = js
          /\ NoteCall(c, [r EXCEPT !.stage = "done"])
          /\ UploaderIdle
       \/ \* hybrid: the queue is empty, close() closes the uploader
          /\ r.stage = "flushing" /\ r.what = "close"
          /\ Close(js)
          /\ NoteCall(c, [r EXCEPT !.stage = "done"])

Resume ==
    /\ jobs # <<>>
    /\ Head(jobs).kind = "resume"
    /\ \/ \E c \in DOMAIN calls :
            calls[c].op = Head(jobs).id /\ Resumed(c)
       \/ \* nobody awaits the enqueue() of the timer
          /\ \A c \in DOMAIN calls : calls[c].op # Head(jobs).id
          /\ jobs' = Tail(jobs)
          /\ UploaderIdle
          /\ UNCHANGED calls
    /\ BufferKept
    /\ UNCHANGED <<kind, shut, written, streams>>

-----------------------------------------------------------------------------
(* The network. Answers and timers arrive when nothing is left to run; a    *)
(* send() without a token returns at once.                                  *)

Kept == UNCHANGED transportVars

Answer ==
    \E l \in Sending :
        \/ Quiet /\ Deliver(l) /\ Kept
        \/ Quiet /\ Drop(l) /\ Kept
        \/ Quiet /\ Retry(l) /\ Kept
        \/ kind = "hybrid" /\ Refuse(l) /\ Kept

\* ccr: a POST, or any other request, is answered with 409: the client closes.
Overtaken ==
    /\ Quiet
    /\ kind = "ccr"
    /\ ~closed
    /\ Close(jobs) \/ \E l \in Sending : Superseded(l)
    /\ buffer' = <<>>
    /\ timer' = FALSE
    /\ UNCHANGED <<kind, calls, shut, written, streams, folded>>

PauseOver == Quiet /\ (\E l \in loops : SleepEnds(l)) /\ Kept

WokenLoop == (\E l \in loops : Wake(l)) /\ Kept

WokenCall == Recheck /\ Kept

Landing == Quiet /\ LandLate /\ Kept

\* The promise continuation that is due next runs.
RunJob == WokenLoop \/ WokenCall \/ Tick \/ Resume

Next ==
    \/ StreamEvent \/ Write \/ TimerFires
    \/ CloseTransport \/ GraceOver \/ Overtaken
    \/ Answer \/ PauseOver \/ Landing
    \/ RunJob

Spec == Init /\ [][Next]_vars

\* The event loop runs every job that is due; every POST is answered or times
\* out, and timers fire.
FairSpec ==
    /\ Spec
    /\ WF_vars(RunJob)
    /\ WF_vars(Answer)
    /\ WF_vars(PauseOver)
    /\ WF_vars(GraceOver)

-----------------------------------------------------------------------------
(* Properties.                                                              *)

\* No event of an open transport goes missing before it is queued, and none
\* is queued twice: it is in the buffer, in a call that has yet to enqueue it,
\* in an enqueue() that waits for room, or queued (a stream event may also
\* have been merged into an earlier one), across timers, overlapping calls,
\* full queues and retries.
EventsAccounted ==
    /\ ~shut /\ ~closed =>
         1..written \subseteq
             Range(buffer) \cup folded \cup Range(pushed)
             \cup (UNION { Range(calls[c].rest) : c \in DOMAIN calls })
             \cup (UNION { Range(ops[o].items) : o \in Waiting })
    /\ \A p, q \in DOMAIN pushed : pushed[p] = pushed[q] => p = q

SameCall(e, f) == \E c \in DOMAIN calls : {e, f} \subseteq Range(calls[c].items)

\* Events are queued in the order in which they were written. An event falls
\* behind a later one only when its enqueue() had to wait for room, or, with
\* ccr, when it is a message and the later one belongs to another call; a stream
\* event never falls behind the messages after it, nor a message behind the
\* rest of its own batch.
QueuedInOrder ==
    \A p, q \in DOMAIN pushed :
        p < q /\ pushed[p] > pushed[q] =>
            \/ pushed[q] \in waited
            \/ /\ kind = "ccr"
               /\ pushed[q] \notin streams
               /\ ~SameCall(pushed[p], pushed[q])

\* "sequential enqueue preserves order" (replBridgeTransport.ts:282): a message
\* whose enqueue() never had to wait is queued before every message that was
\* written later.
SequentialEnqueueKeepsOrder ==
    \A p, q \in DOMAIN pushed :
        /\ p < q /\ pushed[p] > pushed[q]
        /\ {pushed[p], pushed[q]} \cap streams = {}
        => pushed[q] \in waited

\* A call of an open uploader returns: when failures are limited, every one
\* that asks for no more room than the queue has, and once the transport is
\* being closed every one, however long the server fails.
CallsReturn ==
    \A o \in 1..(3 * MaxCalls) :
        /\ o \in Waiting /\ ~closed
        /\ shut \/ (Limit # 0 /\ Len(ops[o].items) <= MaxQueue)
        ~> o \notin Waiting
=============================================================================
