------------------------ MODULE TransportWritesProofs -----------------------
(* Proofs about TransportWrites: both transports are among the callers that   *)
(* EventUploader allows, so that all that holds of the uploader holds of it   *)
(* under them; and no event is lost, taken twice or overtaken on its way from *)
(* write() to the queue, but for those that wait for room and, on the v2      *)
(* transport, for messages of different calls.                                *)
EXTENDS TransportWrites, EventUploaderProofs

(* The invariant of the calls of the transport *)

TicksOf(js) == { j \in Range(js) : j.kind = "tick" }
TicksNamed == \A j \in TicksOf(jobs) : j.id \in DOMAIN calls
StillToWrite == \A c \in DOMAIN calls : calls[c].stage \in {"write", "streamed"} => calls[c].rest # << >>
TimerSet == timer => buffer # << >>
StreamsBuffered == Range(buffer) \subseteq streams

TransportTypes ==
  /\ [kind |-> kind, config |-> config] \in Transports
  /\ buffer \in Seq(Event) /\ timer \in BOOLEAN /\ calls \in Seq(Call) /\ shut \in BOOLEAN
  /\ written \in Nat /\ streams \subseteq Event /\ folded \subseteq streams

WInv == TransportTypes /\ TicksNamed /\ StillToWrite /\ TimerSet /\ StreamsBuffered

(* What the uploader does to the jobs of the calls *)

LEMMA TicksAppended ==
  ASSUME NEW js \in Seq(Job), NEW n \in Nat
  PROVE  /\ TicksOf(Append(js, JobOf("resume", n))) = TicksOf(js)
         /\ TicksOf(Append(js, JobOf("tick", n))) = TicksOf(js) \cup {JobOf("tick", n)}
         /\ JobOf("tick", n).id = n
  <1>1. JobOf("resume", n) \in Job /\ JobOf("tick", n) \in Job
    BY DEF JobOf, Job
  <1>2. /\ Range(Append(js, JobOf("resume", n))) = Range(js) \cup {JobOf("resume", n)}
        /\ Range(Append(js, JobOf("tick", n))) = Range(js) \cup {JobOf("tick", n)}
    BY <1>1, AppendedProperties
  <1>3. JobOf("resume", n).kind = "resume" /\ JobOf("tick", n).kind = "tick" /\ JobOf("tick", n).id = n
    BY DEF JobOf
  <1> QED BY <1>2, <1>3 DEF TicksOf

LEMMA TicksJoined ==
  ASSUME UploaderTypeOK, NEW js \in Seq(Job)
  PROVE  /\ TicksOf(js \o JobsOf("recheck", blocked)) = TicksOf(js)
         /\ TicksOf(js \o JobsOf("resume", flushers)) = TicksOf(js)
         /\ js \o JobsOf("recheck", blocked) \in Seq(Job)
         /\ js \o JobsOf("resume", flushers) \in Seq(Job)
  <1>1. /\ DOMAIN ops = 1..Len(ops) /\ Len(ops) \in Nat
        /\ blocked \in Seq(1..Len(ops)) /\ flushers \in Seq(1..Len(ops))
    BY DEF UploaderTypeOK
  <1>2. PICK again \in Seq(Job) :
          again = JobsOf("recheck", blocked) /\ \A j \in Range(again) : j.kind = "recheck"
    BY <1>1, JobsOfProperties
  <1>3. PICK back \in Seq(Job) :
          back = JobsOf("resume", flushers) /\ \A j \in Range(back) : j.kind = "resume"
    BY <1>1, JobsOfProperties
  <1>4. js \o again \in Seq(Job) /\ Range(js \o again) = Range(js) \cup Range(again)
    BY JoinedProperties
  <1>5. js \o back \in Seq(Job) /\ Range(js \o back) = Range(js) \cup Range(back)
    BY JoinedProperties
  <1>6. TicksOf(js \o again) = TicksOf(js)
    BY <1>2, <1>4 DEF TicksOf
  <1>7. TicksOf(js \o back) = TicksOf(js)
    BY <1>3, <1>5 DEF TicksOf
  <1> QED BY <1>2, <1>3, <1>4, <1>5, <1>6, <1>7

LEMMA TicksTail ==
  ASSUME UploaderTypeOK, jobs # << >>
  PROVE  /\ Tail(jobs) \in Seq(Job) /\ TicksOf(Tail(jobs)) \subseteq TicksOf(jobs)
         /\ Head(jobs).kind \in {"resume", "tick"} => Tail(jobs) \in CallerJobs
         /\ Head(jobs).kind = "tick" => Head(jobs) \in TicksOf(jobs)
         /\ Head(jobs).id \in Nat
  <1>1. jobs \in Seq(Job)
    BY DEF UploaderTypeOK
  <1>2. /\ Head(jobs) \in Job /\ Tail(jobs) \in Seq(Job)
        /\ Head(jobs) \in Range(jobs) /\ Range(Tail(jobs)) \subseteq Range(jobs)
    BY <1>1, TailProperties
  <1> QED BY <1>2 DEF TicksOf, CallerJobs, Job

LEMMA CallTicks ==
  ASSUME UploaderTypeOK, NEW js \in Seq(Job)
  PROVE  /\ \A items \in Seq(Event) : Enqueue(items, js) => TicksOf(jobs') = TicksOf(js)
         /\ Flush(js) => TicksOf(jobs') = TicksOf(js)
         /\ Close(js) => TicksOf(jobs') = TicksOf(js)
  <1>1. Len(ops) + 1 \in Nat
    BY DEF UploaderTypeOK
  <1>2. ASSUME NEW items \in Seq(Event), Enqueue(items, js) PROVE TicksOf(jobs') = TicksOf(js)
    <2>1. jobs' = js \/ jobs' = Append(js, JobOf("resume", Len(ops) + 1))
      BY <1>2 DEF Enqueue, Admit
    <2> QED BY <1>1, <2>1, TicksAppended
  <1>3. ASSUME Flush(js) PROVE TicksOf(jobs') = TicksOf(js)
    <2>1. jobs' = js \/ jobs' = Append(js, JobOf("resume", Len(ops) + 1))
      BY <1>3 DEF Flush
    <2> QED BY <1>1, <2>1, TicksAppended
  <1>4. ASSUME Close(js) PROVE TicksOf(jobs') = TicksOf(js)
    <2>1. CASE closed
      BY <1>4, <2>1 DEF Close
    <2>2. CASE ~closed
      <3>1. PICK w \in {<<JobOf("wake", 0)>>, << >>} :
              jobs' = js \o w \o JobsOf("recheck", blocked) \o JobsOf("resume", flushers)
        BY <1>4, <2>2 DEF Close
      <3>2. w \in Seq(Job) /\ \A j \in Range(w) : j.kind = "wake"
        <4>1. JobOf("wake", 0) \in Job /\ JobOf("wake", 0).kind = "wake"
          BY DEF JobOf, Job
        <4>2. /\ <<JobOf("wake", 0)>> \in Seq(Job) /\ Range(<<JobOf("wake", 0)>>) = {JobOf("wake", 0)}
              /\ << >> \in Seq(Job) /\ Range(<< >>) = {}
          BY <4>1 DEF Range
        <4> QED BY <4>1, <4>2
      <3>3. PICK x \in Seq(Job) : x = js \o w /\ Range(x) = Range(js) \cup Range(w)
        BY <3>2, JoinedProperties
      <3>4. TicksOf(x) = TicksOf(js)
        BY <3>2, <3>3 DEF TicksOf
      <3>5. PICK y \in Seq(Job) : y = x \o JobsOf("recheck", blocked) /\ TicksOf(y) = TicksOf(x)
        BY TicksJoined
      <3> QED BY <3>1, <3>3, <3>4, <3>5, TicksJoined
    <2> QED BY <2>1, <2>2
  <1> QED BY <1>2, <1>3, <1>4

LEMMA LoopTicks ==
  ASSUME UploaderTypeOK
  PROVE  /\ \A l \in loops : Deliver(l) \/ Refuse(l) \/ Drop(l) \/ Retry(l) \/ Superseded(l)
                               \/ SleepEnds(l) \/ Wake(l) => TicksOf(jobs') \subseteq TicksOf(jobs)
         /\ Recheck \/ LandLate => TicksOf(jobs') \subseteq TicksOf(jobs)
  <1>1. jobs \in Seq(Job)
    BY DEF UploaderTypeOK
  <1>2. ASSUME NEW l \in loops, NEW q, NEW f, NEW js \in Seq(Job), NextRound(l, q, f, js)
        PROVE  TicksOf(jobs') = TicksOf(js)
    <2>1. jobs' = js \/ jobs' = js \o JobsOf("resume", flushers)
      BY <1>2 DEF NextRound
    <2> QED BY <2>1, TicksJoined
  <1>3. ASSUME NEW l \in loops, BatchDone(l) PROVE TicksOf(jobs') = TicksOf(jobs)
    <2>1. PICK js \in Seq(Job) : js = jobs \o JobsOf("recheck", blocked) /\ TicksOf(js) = TicksOf(jobs)
      BY <1>1, TicksJoined
    <2>2. NextRound(l, pending, 0, js)
      BY <1>3, <2>1 DEF BatchDone
    <2> QED BY <1>2, <2>1, <2>2
  <1>4. ASSUME NEW l \in loops, Superseded(l) PROVE TicksOf(jobs') = TicksOf(jobs)
    <2>1. PICK js \in Seq(Job) : js = jobs \o JobsOf("recheck", blocked) /\ TicksOf(js) = TicksOf(jobs)
      BY <1>1, TicksJoined
    <2>2. jobs' = js \o JobsOf("resume", flushers)
      BY <1>4, <2>1 DEF Superseded
    <2> QED BY <2>1, <2>2, TicksJoined
  <1>5. ASSUME NEW l \in loops, Wake(l) PROVE TicksOf(jobs') \subseteq TicksOf(jobs)
    <2>1. jobs # << >> /\ NextRound(l, pending, l.failures, Tail(jobs))
      BY <1>5 DEF Wake
    <2>2. Tail(jobs) \in Seq(Job) /\ TicksOf(Tail(jobs)) \subseteq TicksOf(jobs)
      BY <2>1, TicksTail
    <2> QED BY <1>2, <2>1, <2>2
  <1>6. ASSUME NEW l \in loops, SleepEnds(l) PROVE TicksOf(jobs') = TicksOf(jobs)
    BY <1>1, <1>2, <1>6 DEF SleepEnds
  <1>7. ASSUME NEW l \in loops, Deliver(l) \/ Refuse(l) \/ Drop(l) \/ Retry(l)
        PROVE  TicksOf(jobs') = TicksOf(jobs)
    BY <1>3, <1>7 DEF Deliver, Refuse, Drop, Retry
  <1>8. ASSUME Recheck PROVE TicksOf(jobs') \subseteq TicksOf(jobs)
    <2>1. jobs # << >> /\ Admit(Head(jobs).id, ops[Head(jobs).id].items, Tail(jobs))
      BY <1>8 DEF Recheck
    <2>2. /\ Tail(jobs) \in Seq(Job) /\ TicksOf(Tail(jobs)) \subseteq TicksOf(jobs)
          /\ Head(jobs).id \in Nat
      BY <2>1, TicksTail
    <2>3. jobs' = Tail(jobs) \/ jobs' = Append(Tail(jobs), JobOf("resume", Head(jobs).id))
      BY <2>1 DEF Admit
    <2> QED BY <2>2, <2>3, TicksAppended
  <1> QED BY <1>4, <1>5, <1>6, <1>7, <1>8 DEF LandLate

(* What the shared parts of the actions do *)

LEMMA NoteCallDoes ==
  ASSUME TransportTypes, NEW c \in 1..(Len(calls) + 1), NEW r \in Call, NoteCall(c, r)
  PROVE  /\ calls' \in Seq(Call) /\ DOMAIN calls \subseteq DOMAIN calls'
         /\ c \in DOMAIN calls' /\ calls'[c] = r
         /\ \A d \in DOMAIN calls' : d = c \/ (d \in DOMAIN calls /\ calls'[d] = calls[d])
  <1>1. calls \in Seq(Call) /\ Len(calls) \in Nat /\ DOMAIN calls = 1..Len(calls)
    BY DEF TransportTypes
  <1>2. CASE c \in DOMAIN calls
    <2>1. calls' = [calls EXCEPT ![c] = r]
      BY <1>2 DEF NoteCall
    <2>2. calls' \in Seq(Call) /\ DOMAIN calls' = DOMAIN calls
      BY <1>1, <1>2, <2>1, ExceptSeq
    <2>3. calls'[c] = r /\ \A d \in DOMAIN calls : d # c => calls'[d] = calls[d]
      BY <1>2, <2>1
    <2> QED BY <1>2, <2>2, <2>3
  <1>3. CASE c \notin DOMAIN calls
    <2>1. calls' = Append(calls, r)
      BY <1>3 DEF NoteCall
    <2>2. c = Len(calls) + 1
      BY <1>1, <1>3
    <2>3. calls' = Append(calls, r) /\ c = Len(calls) + 1
      BY <2>1, <2>2
    <2>4. calls' \in Seq(Call) /\ DOMAIN calls' = 1..(Len(calls) + 1)
      BY <1>1, <2>3
    <2>5. calls'[c] = r /\ \A d \in 1..Len(calls) : calls'[d] = calls[d]
      BY <1>1, <2>3
    <2>6. \A d \in 1..(Len(calls) + 1) : d = c \/ d \in 1..Len(calls)
      BY <1>1, <2>3
    <2>7. \A d \in 1..Len(calls) : d \in 1..(Len(calls) + 1)
      BY <1>1
    <2> QED BY <1>1, <2>3, <2>4, <2>5, <2>6, <2>7
  <1> QED BY <1>2, <1>3

\* A call goes on, or is made, and puts off no other.
LEMMA CallGoesOn ==
  ASSUME WInv, NEW c \in 1..(Len(calls) + 1), NEW r \in Call, NoteCall(c, r),
         r.stage \in {"write", "streamed"} => r.rest # << >>,
         \A j \in TicksOf(jobs') : j \in TicksOf(jobs) \/ j.id = c
  PROVE  calls' \in Seq(Call) /\ TicksNamed' /\ StillToWrite'
  <1>1. /\ calls' \in Seq(Call) /\ DOMAIN calls \subseteq DOMAIN calls'
        /\ c \in DOMAIN calls' /\ calls'[c] = r
        /\ \A d \in DOMAIN calls' : d = c \/ (d \in DOMAIN calls /\ calls'[d] = calls[d])
    BY NoteCallDoes DEF WInv
  <1>2. TicksNamed'
    BY <1>1 DEF WInv, TicksNamed
  <1>3. StillToWrite'
    BY <1>1 DEF WInv, StillToWrite
  <1> QED BY <1>1, <1>2, <1>3

LEMMA TakeDoes ==
  ASSUME WInv, NEW payloads, TakeStreamEvents(payloads), buffer # << >> \/ payloads = buffer
  PROVE  /\ payloads \in Seq(Event) /\ (buffer # << >> => payloads # << >>)
         /\ buffer' = << >> /\ timer' = FALSE /\ folded' \subseteq streams
  <1>1. buffer \in Seq(Event) /\ Range(buffer) \subseteq streams /\ folded \subseteq streams
    BY DEF WInv, TransportTypes, StreamsBuffered
  <1>2. buffer # << >> => <<Head(buffer)>> \in Seq(Event)
    BY <1>1
  <1>3. payloads = buffer \/ payloads = <<Head(buffer)>>
    BY DEF TakeStreamEvents
  <1>4. payloads \in Seq(Event)
    BY <1>1, <1>2, <1>3
  <1>5. buffer # << >> => payloads # << >>
    BY <1>3
  <1>6. buffer' = << >> /\ timer' = FALSE /\ folded' = folded \cup (Range(buffer) \ Range(payloads))
    BY DEF TakeStreamEvents
  <1> QED BY <1>1, <1>4, <1>5, <1>6

LEMMA FreshTypes ==
  ASSUME WInv, NEW n \in 1..MaxWrite, MayWrite(n)
  PROVE  Fresh(n) \in Seq(Event) /\ Fresh(n) # << >> /\ written + n \in Nat
  <1>1. n \in Nat /\ 1 \in 1..n /\ written \in Nat
    BY TransportAssumption DEF WInv, TransportTypes
  <1>2. Fresh(n) \in [1..n -> Event]
    BY DEF Fresh, MayWrite
  <1>3. Fresh(n) \in Seq(Event)
    BY <1>1, <1>2
  <1>4. Fresh(n) # << >>
    BY <1>1, <1>2
  <1> QED BY <1>1, <1>3, <1>4

UStep == UploaderNext \/ UNCHANGED uploaderVars

LEMMA CallerSteps ==
  ASSUME NEW js \in CallerJobs
  PROVE  /\ \A items \in Seq(Event) : Enqueue(items, js) => UploaderNext
         /\ Flush(js) => UploaderNext
         /\ Close(js) => UploaderNext
         /\ UploaderIdle /\ jobs' = js => UploaderNext
         /\ \A c \in Nat : UploaderIdle /\ jobs' = Append(js, JobOf("tick", c)) => UploaderNext
  BY DEF UploaderNext, Calls, UploaderIdle

LEMMA CallsAreCallers == jobs \in CallerJobs
  BY DEF CallerJobs

LEMMA ConfigStays ==
  /\ \A js, items : Enqueue(items, js) => config' = config
  /\ \A js : Flush(js) \/ Close(js) => config' = config
  /\ UploaderIdle \/ Recheck \/ LandLate => config' = config
  /\ \A l : Deliver(l) \/ Refuse(l) \/ Drop(l) \/ Retry(l) \/ Superseded(l) \/ SleepEnds(l) \/ Wake(l)
              => config' = config
  BY DEF Enqueue, Flush, Close, UploaderIdle, Recheck, LandLate, Deliver, Refuse, Drop, Retry,
     Superseded, SleepEnds, Wake, BatchDone

(* The actions: each is a step of the uploader's callers, or leaves it alone *)

LEMMA StreamEventSteps == ASSUME UploaderTypeOK, WInv, StreamEvent PROVE UStep /\ WInv'
  <1>1. /\ buffer' = Append(buffer, written + 1) /\ timer' = TRUE /\ written' = written + 1
        /\ streams' = streams \cup {written + 1}
        /\ UNCHANGED <<uploaderVars, kind, calls, shut, folded>>
    BY DEF StreamEvent
  <1>2. config' = config /\ jobs' = jobs
    BY <1>1 DEF uploaderVars
  <1>3. /\ [kind |-> kind, config |-> config] \in Transports /\ buffer \in Seq(Event) /\ calls \in Seq(Call)
        /\ shut \in BOOLEAN /\ written \in Nat /\ streams \subseteq Event /\ folded \subseteq streams
        /\ Range(buffer) \subseteq streams
    BY DEF WInv, TransportTypes, StreamsBuffered
  <1>4. written + 1 \in Event
    BY DEF StreamEvent, MayWrite
  <1>5. /\ Append(buffer, written + 1) \in Seq(Event) /\ Append(buffer, written + 1) # << >>
        /\ Range(Append(buffer, written + 1)) = Range(buffer) \cup {written + 1}
    BY <1>3, <1>4, AppendedProperties, AppendProperties
  <1>6. TransportTypes'
    BY <1>1, <1>2, <1>3, <1>4, <1>5 DEF TransportTypes
  <1>7. TicksNamed' /\ StillToWrite' /\ TimerSet' /\ StreamsBuffered'
    BY <1>1, <1>2, <1>3, <1>5 DEF WInv, TicksNamed, StillToWrite, TimerSet, StreamsBuffered
  <1> QED BY <1>1, <1>6, <1>7 DEF UStep, WInv

\* The rest of an action that makes call c go on as r and empties the buffer, or keeps it.
LEMMA TransportGoesOn ==
  ASSUME WInv, NEW c \in 1..(Len(calls) + 1), NEW r \in Call, NoteCall(c, r),
         r.stage \in {"write", "streamed"} => r.rest # << >>,
         \A j \in TicksOf(jobs') : j \in TicksOf(jobs) \/ j.id = c,
         \/ BufferKept
         \/ buffer' = << >> /\ timer' = FALSE /\ folded' \subseteq streams,
         config' = config, kind' = kind, shut' \in BOOLEAN, written' \in Nat, streams' = streams
  PROVE  WInv'
  <1>1. calls' \in Seq(Call) /\ TicksNamed' /\ StillToWrite'
    BY CallGoesOn
  <1>2. << >> \in Seq(Event) /\ Range(<< >>) = {}
    BY DEF Range
  <1>3. buffer' \in Seq(Event) /\ timer' \in BOOLEAN /\ folded' \subseteq streams /\ Range(buffer') \subseteq streams
    BY <1>2 DEF BufferKept, WInv, TransportTypes, StreamsBuffered
  <1>4. TimerSet'
    BY DEF BufferKept, WInv, TimerSet
  <1>5. TransportTypes' /\ StreamsBuffered'
    BY <1>1, <1>3 DEF WInv, TransportTypes, StreamsBuffered
  <1> QED BY <1>1, <1>4, <1>5 DEF WInv

LEMMA HybridWriteSteps ==
  ASSUME UploaderTypeOK, WInv, NEW n \in 1..MaxWrite, MayWrite(n), HybridWrite(n),
         written' = written + n, UNCHANGED <<kind, shut, streams>>
  PROVE  UStep /\ WInv'
  <1> DEFINE r == [NewCall("write", Fresh(n)) EXCEPT !.rest = << >>, !.stage = "queued", !.op = ThisOp]
  <1>1. Fresh(n) \in Seq(Event) /\ written + n \in Nat
    BY FreshTypes
  <1>2. buffer \in Seq(Event) /\ jobs \in Seq(Job) /\ ThisOp \in Nat /\ Len(calls) \in Nat
    BY DEF WInv, TransportTypes, UploaderTypeOK, ThisOp
  <1>3. PICK items \in Seq(Event) : items = buffer \o Fresh(n)
    BY <1>1, <1>2, JoinedProperties
  <1>4. Enqueue(items, jobs) /\ TakeStreamEvents(buffer) /\ NoteCall(Len(calls) + 1, r)
    BY <1>3 DEF HybridWrite
  <1>5. r \in Call /\ r.stage = "queued"
    <2>1. << >> \in Seq(Event)
      OBVIOUS
    <2> QED BY <1>1, <1>2, <2>1 DEF NewCall, Call
  <1>6. UStep
    BY <1>4, CallsAreCallers, CallerSteps DEF UStep
  <1>7. TicksOf(jobs') = TicksOf(jobs) /\ config' = config
    BY <1>2, <1>4, CallTicks, ConfigStays
  <1>8. buffer' = << >> /\ timer' = FALSE /\ folded' \subseteq streams
    BY <1>4, TakeDoes
  <1>9. shut' \in BOOLEAN /\ written' \in Nat
    BY <1>1 DEF WInv, TransportTypes
  <1>10. Len(calls) + 1 \in 1..(Len(calls) + 1)
    BY <1>2
  <1> HIDE DEF r
  <1>11. WInv'
    BY <1>4, <1>5, <1>7, <1>8, <1>9, <1>10, TransportGoesOn
  <1> QED BY <1>6, <1>11

LEMMA StartWriteSteps ==
  ASSUME UploaderTypeOK, WInv, NEW c \in 1..(Len(calls) + 1), NEW r \in Call, r.rest # << >>,
         NEW js \in CallerJobs, js \in Seq(Job), TicksOf(js) \subseteq TicksOf(jobs),
         StartWrite(c, r, js), kind' = kind, shut' = shut, written' \in Nat, streams' = streams
  PROVE  UStep /\ WInv'
  <1>1. shut' \in BOOLEAN /\ Len(calls) \in Nat /\ c \in Nat /\ ThisOp \in Nat
    BY DEF WInv, TransportTypes, UploaderTypeOK, ThisOp
  <1>2. CASE buffer = << >>
    <2> DEFINE q == [r EXCEPT !.stage = "write"]
    <2>1. jobs' = Append(js, JobOf("tick", c)) /\ NoteCall(c, q) /\ UploaderIdle /\ BufferKept
      BY <1>2 DEF StartWrite
    <2>2. q \in Call /\ q.rest # << >>
      BY DEF Call
    <2>3. UStep /\ config' = config
      BY <1>1, <2>1, CallerSteps, ConfigStays DEF UStep
    <2>4. \A j \in TicksOf(jobs') : j \in TicksOf(jobs) \/ j.id = c
      BY <1>1, <2>1, TicksAppended
    <2> HIDE DEF q
    <2>5. WInv'
      BY <1>1, <2>1, <2>2, <2>3, <2>4, TransportGoesOn
    <2> QED BY <2>3, <2>5
  <1>3. CASE buffer # << >>
    <2> DEFINE q == [r EXCEPT !.stage = "streamed", !.op = ThisOp]
    <2>1. NoteCall(c, q) /\ \E payloads : TakeStreamEvents(payloads) /\ Enqueue(payloads, js)
      BY <1>3 DEF StartWrite
    <2>2. PICK payloads : TakeStreamEvents(payloads) /\ Enqueue(payloads, js)
      BY <2>1
    <2>3. payloads \in Seq(Event) /\ buffer' = << >> /\ timer' = FALSE /\ folded' \subseteq streams
      BY <1>3, <2>2, TakeDoes
    <2>4. q \in Call /\ q.rest # << >>
      BY <1>1 DEF Call
    <2>5. UStep /\ config' = config
      BY <2>2, <2>3, CallerSteps, ConfigStays DEF UStep
    <2>6. TicksOf(jobs') \subseteq TicksOf(jobs)
      BY <2>2, <2>3, CallTicks
    <2> HIDE DEF q
    <2>7. WInv'
      BY <1>1, <2>1, <2>3, <2>4, <2>5, <2>6, TransportGoesOn
    <2> QED BY <2>5, <2>7
  <1> QED BY <1>2, <1>3

LEMMA WriteSteps == ASSUME UploaderTypeOK, WInv, Write PROVE UStep /\ WInv'
  <1>1. PICK n \in 1..MaxWrite :
          /\ MayWrite(n)
          /\ HybridWrite(n) \/ \E what \in {"write", "batch"} : CcrWrite(what, n)
          /\ written' = written + n
    BY DEF Write
  <1>2. UNCHANGED <<kind, shut, streams>>
    BY DEF Write
  <1>3. CASE HybridWrite(n)
    BY <1>1, <1>2, <1>3, HybridWriteSteps
  <1>4. ASSUME NEW what \in {"write", "batch"}, CcrWrite(what, n) PROVE UStep /\ WInv'
    <2>1. Fresh(n) \in Seq(Event) /\ Fresh(n) # << >> /\ written' \in Nat
      BY <1>1, FreshTypes
    <2>2. PICK r \in Call : r = NewCall(what, Fresh(n)) /\ r.rest # << >>
      <3>1. NewCall(what, Fresh(n)) \in Call /\ NewCall(what, Fresh(n)).rest = Fresh(n)
        BY <2>1 DEF NewCall, Call
      <3> QED BY <2>1, <3>1
    <2>3. StartWrite(Len(calls) + 1, r, jobs)
      BY <1>4, <2>2 DEF CcrWrite
    <2>4. Len(calls) \in Nat /\ jobs \in Seq(Job)
      BY DEF WInv, TransportTypes, UploaderTypeOK
    <2>5. PICK c \in 1..(Len(calls) + 1) : c = Len(calls) + 1
      BY <2>4
    <2>6. StartWrite(c, r, jobs)
      BY <2>3, <2>5
    <2> QED BY <1>2, <2>1, <2>2, <2>4, <2>6, CallsAreCallers, StartWriteSteps
  <1> QED BY <1>1, <1>3, <1>4

\* The rest of an action that leaves the calls alone.
LEMMA TransportKeeps ==
  ASSUME WInv, calls' = calls, TicksOf(jobs') \subseteq TicksOf(jobs),
         \/ BufferKept
         \/ buffer' = << >> /\ timer' = FALSE /\ folded' \subseteq streams,
         config' = config, kind' = kind, shut' \in BOOLEAN, written' = written, streams' = streams
  PROVE  WInv'
  <1>1. << >> \in Seq(Event) /\ Range(<< >>) = {}
    BY DEF Range
  <1>2. buffer' \in Seq(Event) /\ timer' \in BOOLEAN /\ folded' \subseteq streams /\ Range(buffer') \subseteq streams
    BY <1>1 DEF BufferKept, WInv, TransportTypes, StreamsBuffered
  <1>3. TimerSet'
    BY DEF BufferKept, WInv, TimerSet
  <1>4. TransportTypes' /\ StreamsBuffered'
    BY <1>2 DEF WInv, TransportTypes, StreamsBuffered
  <1>5. TicksNamed' /\ StillToWrite'
    BY DEF WInv, TicksNamed, StillToWrite
  <1> QED BY <1>3, <1>4, <1>5 DEF WInv

LEMMA TimerFiresSteps == ASSUME UploaderTypeOK, WInv, TimerFires PROVE UStep /\ WInv'
  <1>1. PICK payloads : TakeStreamEvents(payloads) /\ Enqueue(payloads, jobs)
    BY DEF TimerFires
  <1>2. buffer # << >>
    BY DEF TimerFires, WInv, TimerSet
  <1>3. payloads \in Seq(Event) /\ buffer' = << >> /\ timer' = FALSE /\ folded' \subseteq streams
    BY <1>1, <1>2, TakeDoes
  <1>4. UStep /\ config' = config
    BY <1>1, <1>3, CallsAreCallers, CallerSteps, ConfigStays DEF UStep
  <1>5. TicksOf(jobs') \subseteq TicksOf(jobs)
    BY <1>1, <1>3, CallTicks DEF UploaderTypeOK
  <1>6. UNCHANGED <<kind, calls, shut, written, streams>>
    BY DEF TimerFires
  <1>7. shut' \in BOOLEAN
    BY <1>6 DEF WInv, TransportTypes
  <1> QED BY <1>3, <1>4, <1>5, <1>6, <1>7, TransportKeeps

LEMMA CloseTransportSteps == ASSUME UploaderTypeOK, WInv, CloseTransport PROVE UStep /\ WInv'
  <1>1. /\ shut' = TRUE /\ buffer' = << >> /\ timer' = FALSE
        /\ UNCHANGED <<kind, written, streams, folded>>
    BY DEF CloseTransport
  <1>2. jobs \in Seq(Job) /\ Len(calls) \in Nat /\ ThisOp \in Nat /\ folded' \subseteq streams /\ shut' \in BOOLEAN
    BY <1>1 DEF WInv, TransportTypes, UploaderTypeOK, ThisOp
  <1>3. CASE kind = "hybrid"
    <2>1. PICK r : r = [NewCall("close", <<>>) EXCEPT !.stage = "flushing", !.op = ThisOp]
      OBVIOUS
    <2>2. r \in Call /\ r.stage = "flushing"
      <3>1. << >> \in Seq(Event)
        OBVIOUS
      <3> QED BY <1>2, <2>1, <3>1 DEF NewCall, Call
    <2>3. Flush(jobs) /\ NoteCall(Len(calls) + 1, r)
      BY <1>3, <2>1 DEF CloseTransport
    <2>4. UStep /\ config' = config
      BY <2>3, CallsAreCallers, CallerSteps, ConfigStays DEF UStep
    <2>5. TicksOf(jobs') = TicksOf(jobs)
      BY <1>2, <2>3, CallTicks
    <2>6. Len(calls) + 1 \in 1..(Len(calls) + 1) /\ written' \in Nat
      BY <1>1, <1>2 DEF WInv, TransportTypes
    <2>7. WInv'
      BY <1>1, <1>2, <2>2, <2>3, <2>4, <2>5, <2>6, TransportGoesOn
    <2> QED BY <2>4, <2>7
  <1>4. CASE kind # "hybrid"
    <2>1. Close(jobs) /\ UNCHANGED calls
      BY <1>4 DEF CloseTransport
    <2>2. UStep /\ config' = config
      BY <2>1, CallsAreCallers, CallerSteps, ConfigStays DEF UStep
    <2>3. TicksOf(jobs') \subseteq TicksOf(jobs)
      BY <1>2, <2>1, CallTicks
    <2>4. WInv'
      BY <1>1, <1>2, <2>1, <2>2, <2>3, TransportKeeps
    <2> QED BY <2>2, <2>4
  <1> QED BY <1>3, <1>4

\* An action of the uploader alone.
LEMMA AloneKeeps ==
  ASSUME WInv, UNCHANGED transportVars, config' = config, TicksOf(jobs') \subseteq TicksOf(jobs)
  PROVE  WInv'
  <1>1. UNCHANGED <<kind, buffer, timer, calls, shut, written, streams, folded>>
    BY DEF transportVars
  <1>2. BufferKept /\ shut' \in BOOLEAN
    BY <1>1 DEF BufferKept, WInv, TransportTypes
  <1> QED BY <1>1, <1>2, TransportKeeps

LEMMA NetworkSteps ==
  ASSUME UploaderTypeOK, WInv,
         Answer \/ PauseOver \/ WokenLoop \/ WokenCall \/ Landing \/ GraceOver
  PROVE  UStep /\ WInv'
  <1>1. UNCHANGED transportVars
    BY DEF Answer, PauseOver, WokenLoop, WokenCall, Landing, GraceOver, Kept
  <1>2. ASSUME NEW l \in Sending, Deliver(l) \/ Drop(l) \/ Retry(l) \/ Refuse(l) PROVE UStep /\ WInv'
    <2>1. UStep /\ config' = config
      BY <1>2, ConfigStays DEF UStep, UploaderNext
    <2>2. TicksOf(jobs') \subseteq TicksOf(jobs)
      BY <1>2, LoopTicks DEF Sending
    <2> QED BY <1>1, <2>1, <2>2, AloneKeeps
  <1>3. ASSUME NEW l \in loops, SleepEnds(l) \/ Wake(l) PROVE UStep /\ WInv'
    <2>1. UStep /\ config' = config
      BY <1>3, ConfigStays DEF UStep, UploaderNext
    <2>2. TicksOf(jobs') \subseteq TicksOf(jobs)
      BY <1>3, LoopTicks
    <2> QED BY <1>1, <2>1, <2>2, AloneKeeps
  <1>4. CASE Recheck \/ LandLate
    <2>1. UStep /\ config' = config
      BY <1>4, ConfigStays DEF UStep, UploaderNext
    <2>2. TicksOf(jobs') \subseteq TicksOf(jobs)
      BY <1>4, LoopTicks
    <2> QED BY <1>1, <2>1, <2>2, AloneKeeps
  <1>5. CASE Close(jobs)
    <2>1. UStep /\ config' = config
      BY <1>5, CallsAreCallers, CallerSteps, ConfigStays DEF UStep
    <2>2. TicksOf(jobs') \subseteq TicksOf(jobs)
      BY <1>5, CallTicks DEF UploaderTypeOK
    <2> QED BY <1>1, <2>1, <2>2, AloneKeeps
  <1>6. CASE Answer
    BY <1>2, <1>6 DEF Answer
  <1>7. CASE PauseOver \/ WokenLoop
    BY <1>3, <1>7 DEF PauseOver, WokenLoop
  <1>8. CASE WokenCall \/ Landing
    BY <1>4, <1>8 DEF WokenCall, Landing
  <1>9. CASE GraceOver
    BY <1>5, <1>9 DEF GraceOver
  <1> QED BY <1>6, <1>7, <1>8, <1>9

LEMMA OvertakenSteps == ASSUME UploaderTypeOK, WInv, Overtaken PROVE UStep /\ WInv'
  <1>1. /\ buffer' = << >> /\ timer' = FALSE
        /\ UNCHANGED <<kind, calls, shut, written, streams, folded>>
    BY DEF Overtaken
  <1>2. folded' \subseteq streams /\ shut' \in BOOLEAN
    BY <1>1 DEF WInv, TransportTypes
  <1>3. UStep /\ config' = config /\ TicksOf(jobs') \subseteq TicksOf(jobs)
    <2>1. CASE Close(jobs)
      BY <2>1, CallsAreCallers, CallerSteps, ConfigStays, CallTicks DEF UStep, UploaderTypeOK
    <2>2. ASSUME NEW l \in Sending, Superseded(l)
          PROVE  UStep /\ config' = config /\ TicksOf(jobs') \subseteq TicksOf(jobs)
      BY <2>2, ConfigStays, LoopTicks DEF UStep, UploaderNext, Sending
    <2> QED BY <2>1, <2>2 DEF Overtaken
  <1>4. WInv'
    BY <1>1, <1>2, <1>3, TransportKeeps
  <1> QED BY <1>3, <1>4

LEMMA TickSteps == ASSUME UploaderTypeOK, WInv, Tick PROVE UStep /\ WInv'
  <1>1. jobs # << >> /\ Head(jobs).kind = "tick" /\ UNCHANGED <<kind, shut, written, streams>>
    BY DEF Tick
  <1>2. PICK js : js = Tail(jobs) /\ js \in Seq(Job) /\ js \in CallerJobs /\ TicksOf(js) \subseteq TicksOf(jobs)
    BY <1>1, TicksTail
  <1>3. /\ calls \in Seq(Call) /\ DOMAIN calls = 1..Len(calls) /\ Len(calls) \in Nat
        /\ shut' \in BOOLEAN /\ written' \in Nat /\ ThisOp \in Nat
    BY <1>1 DEF WInv, TransportTypes, UploaderTypeOK, ThisOp
  <1>4. PICK c \in DOMAIN calls : c = Head(jobs).id
    BY <1>1, TicksTail DEF WInv, TicksNamed
  <1>5. PICK r \in Call : r = calls[c]
    BY <1>3, <1>4
  <1>6. c \in 1..(Len(calls) + 1)
    BY <1>3, <1>4
  <1>7. \/ /\ r.stage = "write"
           /\ Enqueue(<<Head(r.rest)>>, js)
           /\ NoteCall(c, [r EXCEPT !.stage = "wrote", !.rest = Tail(r.rest), !.op = ThisOp])
           /\ BufferKept
        \/ r.stage = "next" /\ r.rest # << >> /\ StartWrite(c, r, js)
        \/ /\ jobs' = js
           /\ NoteCall(c, [r EXCEPT !.stage = "done"])
           /\ UploaderIdle
           /\ BufferKept
    BY <1>2, <1>4, <1>5 DEF Tick
  <1>8. CASE /\ r.stage = "write"
             /\ Enqueue(<<Head(r.rest)>>, js)
             /\ NoteCall(c, [r EXCEPT !.stage = "wrote", !.rest = Tail(r.rest), !.op = ThisOp])
             /\ BufferKept
    <2>1. r.rest \in Seq(Event) /\ r.rest # << >>
      <3>1. r.rest \in Seq(Event)
        BY DEF Call
      <3>2. calls[c].stage = "write"
        BY <1>5, <1>8
      <3>3. calls[c].rest # << >>
        BY <3>2 DEF WInv, StillToWrite
      <3> QED BY <1>5, <3>1, <3>3
    <2>2. Head(r.rest) \in Event /\ Tail(r.rest) \in Seq(Event)
      BY <2>1, TailProperties
    <2>3. PICK items \in Seq(Event) : items = <<Head(r.rest)>>
      <3>1. \A e \in Event : <<e>> \in Seq(Event)
        OBVIOUS
      <3>2. <<Head(r.rest)>> \in Seq(Event)
        BY <2>2, <3>1
      <3> QED BY <3>2
    <2>4. PICK q \in Call : q = [r EXCEPT !.stage = "wrote", !.rest = Tail(r.rest), !.op = ThisOp]
                            /\ q.stage = "wrote"
      <3>1. [r EXCEPT !.stage = "wrote", !.rest = Tail(r.rest), !.op = ThisOp] \in Call
        BY <1>3, <2>2 DEF Call
      <3>2. [r EXCEPT !.stage = "wrote", !.rest = Tail(r.rest), !.op = ThisOp].stage = "wrote"
        BY DEF Call
      <3> QED BY <3>1, <3>2
    <2>5. Enqueue(items, js) /\ NoteCall(c, q)
      BY <1>8, <2>3, <2>4
    <2>6. UStep /\ config' = config
      BY <1>2, <2>5, CallerSteps, ConfigStays DEF UStep
    <2>7. \A j \in TicksOf(jobs') : j \in TicksOf(jobs) \/ j.id = c
      BY <1>2, <2>5, CallTicks
    <2>8. WInv'
      BY <1>1, <1>3, <1>6, <1>8, <2>4, <2>5, <2>6, <2>7, TransportGoesOn
    <2> QED BY <2>6, <2>8
  <1>9. CASE r.stage = "next" /\ r.rest # << >> /\ StartWrite(c, r, js)
    BY <1>1, <1>2, <1>3, <1>6, <1>9, StartWriteSteps
  <1>10. CASE /\ jobs' = js
              /\ NoteCall(c, [r EXCEPT !.stage = "done"])
              /\ UploaderIdle
              /\ BufferKept
    <2>1. PICK q \in Call : q = [r EXCEPT !.stage = "done"] /\ q.stage = "done"
      <3>1. [r EXCEPT !.stage = "done"] \in Call
        BY DEF Call
      <3>2. [r EXCEPT !.stage = "done"].stage = "done"
        BY DEF Call
      <3> QED BY <3>1, <3>2
    <2>2. UStep /\ config' = config
      BY <1>2, <1>10, CallerSteps, ConfigStays DEF UStep
    <2>3. \A j \in TicksOf(jobs') : j \in TicksOf(jobs) \/ j.id = c
      BY <1>2, <1>10
    <2>4. NoteCall(c, q)
      BY <1>10, <2>1
    <2>5. WInv'
      BY <1>1, <1>3, <1>6, <1>10, <2>1, <2>2, <2>3, <2>4, TransportGoesOn
    <2> QED BY <2>2, <2>5
  <1> QED BY <1>7, <1>8, <1>9, <1>10

LEMMA ResumedSteps ==
  ASSUME UploaderTypeOK, WInv, jobs # << >>, Head(jobs).kind = "resume",
         NEW c \in DOMAIN calls, Resumed(c), BufferKept, UNCHANGED <<kind, shut, written, streams>>
  PROVE  UStep /\ WInv'
  <1>1. PICK js : js = Tail(jobs) /\ js \in Seq(Job) /\ js \in CallerJobs /\ TicksOf(js) \subseteq TicksOf(jobs)
    BY TicksTail
  <1>2. /\ calls \in Seq(Call) /\ DOMAIN calls = 1..Len(calls) /\ Len(calls) \in Nat
        /\ shut' \in BOOLEAN /\ written' \in Nat /\ ThisOp \in Nat
    BY DEF WInv, TransportTypes, UploaderTypeOK, ThisOp
  <1>3. PICK r \in Call : r = calls[c]
    BY <1>2
  <1>4. c \in 1..(Len(calls) + 1) /\ c \in Nat
    BY <1>2
  <1>5. r.stage = "streamed" => r.rest # << >>
    BY <1>3 DEF WInv, StillToWrite
  <1>6. \E q \in Call :
          /\ NoteCall(c, q)
          /\ q.stage \in {"write", "streamed"} => q.rest # << >>
          /\ \/ Flush(js)
             \/ Close(js)
             \/ UploaderIdle /\ (jobs' = js \/ jobs' = Append(js, JobOf("tick", c)))
    <2>1. CASE r.stage = "queued"
      <3>1. PICK q \in Call : q = [r EXCEPT !.stage = "flushing", !.op = ThisOp] /\ q.stage = "flushing"
        <4>1. [r EXCEPT !.stage = "flushing", !.op = ThisOp] \in Call
          BY <1>2 DEF Call
        <4>2. [r EXCEPT !.stage = "flushing", !.op = ThisOp].stage = "flushing"
          BY DEF Call
        <4> QED BY <4>1, <4>2
      <3> QED BY <1>1, <1>3, <2>1, <3>1 DEF Resumed
    <2>2. CASE r.stage = "streamed"
      <3>1. PICK q \in Call : q = [r EXCEPT !.stage = "write"] /\ q.rest # << >>
        <4>1. [r EXCEPT !.stage = "write"] \in Call
          BY DEF Call
        <4>2. [r EXCEPT !.stage = "write"].rest = r.rest
          BY DEF Call
        <4> QED BY <1>5, <2>2, <4>1, <4>2
      <3> QED BY <1>1, <1>3, <2>2, <3>1 DEF Resumed
    <2>3. CASE r.stage = "wrote" /\ r.what = "batch"
      <3>1. PICK q \in Call : q = [r EXCEPT !.stage = "next"] /\ q.stage = "next"
        <4>1. [r EXCEPT !.stage = "next"] \in Call
          BY DEF Call
        <4>2. [r EXCEPT !.stage = "next"].stage = "next"
          BY DEF Call
        <4> QED BY <4>1, <4>2
      <3> QED BY <1>1, <1>3, <2>3, <3>1 DEF Resumed
    <2>4. CASE r.stage = "flushing" \/ (r.stage = "wrote" /\ r.what # "batch")
      <3>1. PICK q \in Call : q = [r EXCEPT !.stage = "done"] /\ q.stage = "done"
        <4>1. [r EXCEPT !.stage = "done"] \in Call
          BY DEF Call
        <4>2. [r EXCEPT !.stage = "done"].stage = "done"
          BY DEF Call
        <4> QED BY <4>1, <4>2
      <3> QED BY <1>1, <1>3, <2>4, <3>1 DEF Resumed
    <2> QED BY <1>1, <1>3, <2>1, <2>2, <2>3, <2>4 DEF Resumed
  <1>7. PICK q \in Call :
          /\ NoteCall(c, q)
          /\ q.stage \in {"write", "streamed"} => q.rest # << >>
          /\ \/ Flush(js)
             \/ Close(js)
             \/ UploaderIdle /\ (jobs' = js \/ jobs' = Append(js, JobOf("tick", c)))
    BY <1>6
  <1>8. UStep /\ config' = config
    BY <1>1, <1>4, <1>7, CallerSteps, ConfigStays DEF UStep
  <1>9. \A j \in TicksOf(jobs') : j \in TicksOf(jobs) \/ j.id = c
    <2>1. CASE Flush(js) \/ Close(js)
      <3>1. TicksOf(jobs') = TicksOf(js)
        BY <1>1, <2>1, CallTicks
      <3> QED BY <1>1, <3>1
    <2>2. CASE jobs' = js
      BY <1>1, <2>2
    <2>3. CASE jobs' = Append(js, JobOf("tick", c))
      <3>1. /\ TicksOf(Append(js, JobOf("tick", c))) = TicksOf(js) \cup {JobOf("tick", c)}
            /\ JobOf("tick", c).id = c
        BY <1>1, <1>4, TicksAppended
      <3>2. TicksOf(jobs') = TicksOf(js) \cup {JobOf("tick", c)}
        <4>1. PICK w : w = Append(js, JobOf("tick", c))
          OBVIOUS
        <4>2. TicksOf(jobs') = TicksOf(w)
          BY <2>3, <4>1
        <4> QED BY <3>1, <4>1, <4>2
      <3> QED BY <1>1, <3>1, <3>2
    <2> QED BY <1>7, <2>1, <2>2, <2>3
  <1>10. WInv'
    BY <1>2, <1>4, <1>7, <1>8, <1>9, TransportGoesOn
  <1> QED BY <1>8, <1>10

LEMMA ResumeSteps == ASSUME UploaderTypeOK, WInv, Resume PROVE UStep /\ WInv'
  <1>1. /\ jobs # << >> /\ Head(jobs).kind = "resume" /\ BufferKept
        /\ UNCHANGED <<kind, shut, written, streams>>
    BY DEF Resume
  <1>2. ASSUME NEW c \in DOMAIN calls, Resumed(c) PROVE UStep /\ WInv'
    BY <1>1, <1>2, ResumedSteps
  <1>3. CASE jobs' = Tail(jobs) /\ UploaderIdle /\ UNCHANGED calls
    <2>1. Tail(jobs) \in CallerJobs /\ TicksOf(Tail(jobs)) \subseteq TicksOf(jobs)
      BY <1>1, TicksTail
    <2>2. UStep /\ config' = config
      BY <1>3, <2>1, CallerSteps, ConfigStays DEF UStep
    <2>3. shut' \in BOOLEAN
      BY <1>1 DEF WInv, TransportTypes
    <2>4. WInv'
      BY <1>1, <1>3, <2>1, <2>2, <2>3, TransportKeeps
    <2> QED BY <2>2, <2>4
  <1> QED BY <1>2, <1>3 DEF Resume

(* The whole transport *)

LEMMA TransportStarts == Init => WInv
  <1> SUFFICES ASSUME Init PROVE WInv
    OBVIOUS
  <1>1. \A S : << >> \in Seq(S)
    OBVIOUS
  <1>2. Range(<< >>) = {} /\ DOMAIN << >> = {}
    BY DEF Range
  <1>3. [kind |-> kind, config |-> config] \in Transports
    <2>1. PICK t \in Transports : kind = t.kind /\ config = t.config
      BY DEF Init
    <2>2. t = [kind |-> kind, config |-> config]
      BY <2>1, TransportAssumption
    <2> QED BY <2>1, <2>2
  <1>4. TransportTypes
    BY <1>1, <1>3 DEF Init, TransportTypes
  <1>5. TicksNamed
    BY <1>2 DEF Init, UploaderInit, TicksNamed, TicksOf
  <1>6. StillToWrite /\ TimerSet /\ StreamsBuffered
    BY <1>2 DEF Init, StillToWrite, TimerSet, StreamsBuffered
  <1> QED BY <1>4, <1>5, <1>6 DEF WInv

LEMMA TransportSteps ==
  ASSUME UploaderTypeOK, WInv, [Next]_vars
  PROVE  [UploaderNext]_uploaderVars /\ WInv'
  <1>1. CASE Next
    BY <1>1, StreamEventSteps, WriteSteps, TimerFiresSteps, CloseTransportSteps, NetworkSteps,
       OvertakenSteps, TickSteps, ResumeSteps DEF Next, RunJob, UStep
  <1>2. CASE UNCHANGED vars
    <2>1. UNCHANGED uploaderVars /\ UNCHANGED transportVars
      BY <1>2 DEF vars
    <2>2. config' = config /\ jobs' = jobs
      BY <2>1 DEF uploaderVars
    <2>3. WInv'
      BY <2>1, <2>2, AloneKeeps
    <2> QED BY <2>1, <2>3
  <1> QED BY <1>1, <1>2

LEMMA TransportInvariance == Spec => [](IInv /\ WInv)
  <1>1. Init => IInv /\ WInv
    BY TransportStarts, Start DEF Init
  <1>2. IInv /\ WInv /\ [Next]_vars => (IInv /\ WInv)'
    <2>1. IInv /\ WInv /\ [Next]_vars => [UploaderNext]_uploaderVars /\ WInv'
      BY TransportSteps DEF IInv
    <2> QED BY <2>1, UploaderStepKeeps
  <1> QED BY <1>1, <1>2, PTL DEF Spec

(* Theorems *)

\* The two transports, HybridTransport.ts and ccrClient.ts with replBridgeTransport.ts, use the
\* uploader as it expects: all that is proved of EventUploader holds under them.
THEOREM TransportsAreCallers == Spec => UploaderSpec
  <1>1. Init => UploaderInit
    BY DEF Init
  <1>2. IInv /\ WInv /\ [Next]_vars => [UploaderNext]_uploaderVars
    BY TransportSteps DEF IInv
  <1> QED BY <1>1, <1>2, TransportInvariance, PTL DEF Spec, UploaderSpec

\* The types of the calls, the buffer and the uploader.
THEOREM TransportTypeCorrect == Spec => []TypeOK
  <1>1. IInv /\ WInv => TypeOK
    BY DEF IInv, WInv, TransportTypes, TypeOK
  <1> QED BY <1>1, TransportInvariance, PTL

\* What is proved of the uploader holds under the two transports: one POST at a time, nobody
\* left waiting for a loop that has ended, a bounded queue, flush() as promised, and events that
\* reach the server in the order in which they were queued.
THEOREM TransportsDeliverInOrder ==
  Spec => /\ []OneInFlight /\ []NobodyStranded /\ []QueueBounded /\ []SettledOnReturn
          /\ DeliversInOrder
  <1> QED BY TransportsAreCallers, OnePost, NoLostWakeUp, BoundedQueue, FlushIsKept, OrderedDelivered, PTL

(* Every event has one place *)

\* The enqueue() calls that wait for room, or are about to look for it again.
Asking == Range(blocked) \cup Rechecks(jobs)
Taker(o) == Range(ops[o].items)

\* Nobody looks for room twice.
Singly(js) ==
  \A i, j \in DOMAIN js : js[i].kind = "recheck" /\ js[j].kind = "recheck" /\ js[i].id = js[j].id => i = j
LookOnce(js, bs) == IsInjective(bs) /\ Singly(js) /\ Range(bs) \cap Rechecks(js) = {}

\* The waiting calls O, if these are all, have different events, which are not queued yet.
Clear(O) ==
  /\ \A o \in O : IsInjective(ops[o].items) /\ Taker(o) \subseteq waited \ Range(pushed)
  /\ \A o, p \in O : o # p => Taker(o) \cap Taker(p) = {}
Holds(O) == Range(pushed) \cup UNION { Taker(o) : o \in O }

TakenOnce == LookOnce(jobs, blocked) /\ IsInjective(pushed) /\ Clear(Asking)

\* What the uploader has: the events it has queued, and those that wait for room.
InUploader == Holds(Asking)

(* Sequences without repetitions *)

LEMMA InjectiveJoined ==
  ASSUME NEW S, NEW s \in Seq(S), NEW t \in Seq(S), IsInjective(s), IsInjective(t),
         Range(s) \cap Range(t) = {}
  PROVE  IsInjective(s \o t)
  <1>1. /\ s \o t \in Seq(S) /\ DOMAIN (s \o t) = 1..(Len(s) + Len(t))
        /\ Len(s) \in Nat /\ Len(t) \in Nat /\ DOMAIN s = 1..Len(s) /\ DOMAIN t = 1..Len(t)
    OBVIOUS
  <1> SUFFICES ASSUME NEW i \in 1..(Len(s) + Len(t)), NEW j \in 1..(Len(s) + Len(t)),
                      (s \o t)[i] = (s \o t)[j]
               PROVE  i = j
    BY <1>1 DEF IsInjective
  <1>2. \A k \in 1..(Len(s) + Len(t)) :
          \/ k \in 1..Len(s) /\ (s \o t)[k] = s[k] /\ (s \o t)[k] \in Range(s)
          \/ k - Len(s) \in 1..Len(t) /\ (s \o t)[k] = t[k - Len(s)] /\ (s \o t)[k] \in Range(t)
    <2> TAKE k \in 1..(Len(s) + Len(t))
    <2>1. CASE k <= Len(s)
      <3>1. k \in 1..Len(s) /\ (s \o t)[k] = s[k]
        BY <1>1, <2>1
      <3> QED BY <1>1, <3>1 DEF Range
    <2>2. CASE k > Len(s)
      <3>1. k - Len(s) \in 1..Len(t) /\ (s \o t)[k] = t[k - Len(s)]
        BY <1>1, <2>2
      <3> QED BY <1>1, <3>1 DEF Range
    <2> QED BY <1>1, <2>1, <2>2
  <1>3. CASE i \in 1..Len(s) /\ j \in 1..Len(s) /\ s[i] = s[j]
    BY <1>1, <1>3 DEF IsInjective
  <1>4. CASE i - Len(s) \in 1..Len(t) /\ j - Len(s) \in 1..Len(t) /\ t[i - Len(s)] = t[j - Len(s)]
    <2>1. i - Len(s) = j - Len(s)
      BY <1>1, <1>4 DEF IsInjective
    <2> QED BY <1>1, <2>1
  <1> QED BY <1>2, <1>3, <1>4

LEMMA InjectiveOne == ASSUME NEW e PROVE IsInjective(<<e>>) /\ Range(<<e>>) = {e}
  BY DEF IsInjective, Range

LEMMA InjectiveNone == IsInjective(<< >>) /\ Range(<< >>) = {}
  BY DEF IsInjective, Range

LEMMA InjectiveAppended ==
  ASSUME NEW S, NEW s \in Seq(S), NEW e \in S, IsInjective(s), e \notin Range(s)
  PROVE  IsInjective(Append(s, e))
  <1>1. /\ DOMAIN Append(s, e) = 1..(Len(s) + 1) /\ Len(s) \in Nat /\ DOMAIN s = 1..Len(s)
        /\ \A k \in 1..Len(s) : Append(s, e)[k] = s[k] /\ s[k] \in Range(s)
        /\ Append(s, e)[Len(s) + 1] = e
    BY AppendedProperties DEF Range
  <1>2. \A k \in 1..(Len(s) + 1) : k \in 1..Len(s) \/ k = Len(s) + 1
    BY <1>1
  <1> QED BY <1>1, <1>2 DEF IsInjective

LEMMA SinglyTail ==
  ASSUME NEW js \in Seq(Job), js # << >>, Singly(js)
  PROVE  /\ Tail(js) \in Seq(Job) /\ Singly(Tail(js)) /\ Rechecks(Tail(js)) \subseteq Rechecks(js)
         /\ Head(js).kind = "recheck" =>
              Rechecks(js) = Rechecks(Tail(js)) \cup {Head(js).id} /\ Head(js).id \notin Rechecks(Tail(js))
         /\ Head(js).kind # "recheck" => Rechecks(js) = Rechecks(Tail(js))
  <1>1. /\ Tail(js) \in Seq(Job) /\ Len(js) \in Nat /\ Len(js) >= 1 /\ DOMAIN js = 1..Len(js)
        /\ DOMAIN Tail(js) = 1..(Len(js) - 1) /\ Head(js) = js[1]
        /\ \A i \in 1..(Len(js) - 1) : Tail(js)[i] = js[i + 1]
    OBVIOUS
  <1>2. \A i \in 1..(Len(js) - 1) : i + 1 \in 1..Len(js) /\ i + 1 # 1
    BY <1>1
  <1>3. Singly(Tail(js))
    <2> SUFFICES ASSUME NEW i \in 1..(Len(js) - 1), NEW j \in 1..(Len(js) - 1),
                        js[i + 1].kind = "recheck", js[j + 1].kind = "recheck", js[i + 1].id = js[j + 1].id
                 PROVE  i = j
      BY <1>1 DEF Singly
    <2>1. i + 1 = j + 1
      BY <1>1, <1>2 DEF Singly
    <2> QED BY <2>1
  <1>4. Range(js) = Range(Tail(js)) \cup {Head(js)}
    <2>1. \A k \in 1..Len(js) : k = 1 \/ (k - 1 \in 1..(Len(js) - 1) /\ Tail(js)[k - 1] = js[k])
      BY <1>1
    <2>2. \A i \in 1..(Len(js) - 1) : Tail(js)[i] \in Range(Tail(js))
      BY <1>1 DEF Range
    <2>3. \A k \in 1..Len(js) : js[k] \in Range(Tail(js)) \cup {Head(js)}
      BY <1>1, <2>1, <2>2
    <2>4. Range(js) \subseteq Range(Tail(js)) \cup {Head(js)}
      BY <1>1, <2>3 DEF Range
    <2>5. Range(Tail(js)) \cup {Head(js)} \subseteq Range(js)
      BY TailProperties
    <2> QED BY <2>4, <2>5
  <1>5. ASSUME Head(js).kind = "recheck" PROVE Head(js).id \notin Rechecks(Tail(js))
    <2> SUFFICES ASSUME NEW i \in 1..(Len(js) - 1), js[i + 1].kind = "recheck", js[i + 1].id = js[1].id
                 PROVE  FALSE
      BY <1>1 DEF Rechecks, Range
    <2>1. 1 \in 1..Len(js)
      BY <1>1
    <2>2. i + 1 = 1
      BY <1>1, <1>2, <1>5, <2>1 DEF Singly
    <2> QED BY <2>2
  <1>6. Rechecks(Tail(js)) \subseteq Rechecks(js)
    BY <1>4 DEF Rechecks
  <1>7. Head(js).kind = "recheck" => Rechecks(js) = Rechecks(Tail(js)) \cup {Head(js).id}
    BY <1>4 DEF Rechecks
  <1>8. Head(js).kind # "recheck" => Rechecks(js) = Rechecks(Tail(js))
    BY <1>4 DEF Rechecks
  <1> QED BY <1>1, <1>3, <1>5, <1>6, <1>7, <1>8

LEMMA SinglyJoined ==
  ASSUME NEW s \in Seq(Job), NEW t \in Seq(Job), Singly(s), Singly(t), Rechecks(s) \cap Rechecks(t) = {}
  PROVE  s \o t \in Seq(Job) /\ Singly(s \o t) /\ Rechecks(s \o t) = Rechecks(s) \cup Rechecks(t)
  <1>1. /\ s \o t \in Seq(Job) /\ DOMAIN (s \o t) = 1..(Len(s) + Len(t))
        /\ Len(s) \in Nat /\ Len(t) \in Nat /\ DOMAIN s = 1..Len(s) /\ DOMAIN t = 1..Len(t)
        /\ Range(s \o t) = Range(s) \cup Range(t)
    BY JoinedProperties
  <1>2. \A k \in 1..(Len(s) + Len(t)) :
          \/ k \in 1..Len(s) /\ (s \o t)[k] = s[k]
          \/ k - Len(s) \in 1..Len(t) /\ (s \o t)[k] = t[k - Len(s)]
    <2> TAKE k \in 1..(Len(s) + Len(t))
    <2>1. CASE k <= Len(s)
      BY <1>1, <2>1
    <2>2. CASE k > Len(s)
      BY <1>1, <2>2
    <2> QED BY <1>1, <2>1, <2>2
  <1>3. ASSUME NEW i \in 1..(Len(s) + Len(t)), NEW j \in 1..(Len(s) + Len(t)),
               (s \o t)[i].kind = "recheck", (s \o t)[j].kind = "recheck", (s \o t)[i].id = (s \o t)[j].id
        PROVE  i = j
    <2>1. CASE i \in 1..Len(s) /\ (s \o t)[i] = s[i] /\ j \in 1..Len(s) /\ (s \o t)[j] = s[j]
      BY <1>1, <1>3, <2>1 DEF Singly
    <2>2. CASE /\ i - Len(s) \in 1..Len(t) /\ (s \o t)[i] = t[i - Len(s)]
               /\ j - Len(s) \in 1..Len(t) /\ (s \o t)[j] = t[j - Len(s)]
      <3>1. i - Len(s) = j - Len(s)
        BY <1>1, <1>3, <2>2 DEF Singly
      <3> QED BY <1>1, <3>1
    <2>3. ASSUME NEW a \in 1..Len(s), NEW b \in 1..Len(t), s[a].kind = "recheck", t[b].kind = "recheck"
          PROVE  s[a].id # t[b].id
      <3>1. s[a].id \in Rechecks(s)
        BY <1>1, <2>3 DEF Rechecks, Range
      <3>2. t[b].id \in Rechecks(t)
        BY <1>1, <2>3 DEF Rechecks, Range
      <3> QED BY <3>1, <3>2
    <2> QED BY <1>2, <1>3, <2>1, <2>2, <2>3
  <1>4. Singly(s \o t)
    BY <1>1, <1>3 DEF Singly
  <1> QED BY <1>1, <1>4 DEF Rechecks

LEMMA SinglyOthers ==
  ASSUME NEW t \in Seq(Job), \A j \in Range(t) : j.kind # "recheck"
  PROVE  Singly(t) /\ Rechecks(t) = {}
  BY DEF Singly, Rechecks, Range

LEMMA SinglyWoken ==
  ASSUME NEW n \in Nat, NEW ids \in Seq(1..n), IsInjective(ids)
  PROVE  /\ JobsOf("recheck", ids) \in Seq(Job) /\ Singly(JobsOf("recheck", ids))
         /\ Rechecks(JobsOf("recheck", ids)) = Range(ids)
  <1>1. /\ DOMAIN JobsOf("recheck", ids) = DOMAIN ids
        /\ \A i \in DOMAIN ids : /\ JobsOf("recheck", ids)[i].kind = "recheck"
                                 /\ JobsOf("recheck", ids)[i].id = ids[i]
    BY DEF JobsOf
  <1>2. JobsOf("recheck", ids) \in Seq(Job)
    BY JobsOfProperties
  <1>3. Singly(JobsOf("recheck", ids))
    BY <1>1 DEF Singly, IsInjective
  <1>4. Rechecks(JobsOf("recheck", ids)) = Range(ids)
    BY <1>1 DEF Rechecks, Range
  <1> QED BY <1>2, <1>3, <1>4

(* What the uploader does with the events *)

\* Those who wait remain, or some are done after close().
LEMMA NothingTaken ==
  ASSUME TakenOnce, NEW O, O = Asking', LookOnce(jobs', blocked'), O \subseteq Asking,
         \A o \in Asking : ops'[o].items = ops[o].items,
         pushed' = pushed, waited \subseteq waited'
  PROVE  TakenOnce' /\ InUploader' \subseteq InUploader /\ (Asking \subseteq O => InUploader' = InUploader)
  <1>1. \A o \in O : Taker(o)' = Taker(o) /\ o \in Asking
    BY DEF Taker
  <1>2. Clear(O)'
    <2>1. ASSUME NEW o \in O PROVE (IsInjective(ops[o].items) /\ Taker(o) \subseteq waited \ Range(pushed))'
      <3>1. IsInjective(ops[o].items) /\ Taker(o) \subseteq waited \ Range(pushed)
        BY <1>1, <2>1 DEF TakenOnce, Clear
      <3> QED BY <1>1, <2>1, <3>1
    <2>2. \A o, p \in O : o # p => Taker(o)' \cap Taker(p)' = {}
      BY <1>1 DEF TakenOnce, Clear
    <2> QED BY <2>1, <2>2 DEF Clear
  <1>3. TakenOnce'
    BY <1>2 DEF TakenOnce
  <1>4. InUploader' = Range(pushed) \cup UNION { Taker(o)' : o \in O }
    BY DEF InUploader, Holds
  <1>5. UNION { Taker(o)' : o \in O } \subseteq UNION { Taker(o) : o \in Asking }
    BY <1>1
  <1>6. Asking \subseteq O => UNION { Taker(o) : o \in Asking } \subseteq UNION { Taker(o)' : o \in O }
    BY <1>1
  <1> QED BY <1>3, <1>4, <1>5, <1>6 DEF InUploader, Holds

\* Operation o, which is not among the others O who wait, looks for room in the jobs js.
LEMMA AdmitTakes ==
  ASSUME UploaderTypeOK, IsInjective(pushed), NEW js \in Seq(Job), LookOnce(js, blocked),
         NEW O, O = Range(blocked) \cup Rechecks(js), Clear(O),
         \A p \in O : ops'[p].items = ops[p].items,
         NEW o \in Nat, o \notin O, NEW items \in Seq(Event), ops'[o].items = items,
         IsInjective(items), Range(items) \cap Holds(O) = {},
         Admit(o, items, js)
  PROVE  /\ TakenOnce' /\ waited \subseteq waited'
         /\ Holds(O) \subseteq InUploader' /\ InUploader' \subseteq Holds(O) \cup Range(items)
         /\ ~closed => Range(items) \subseteq InUploader'
         /\ pushed' = pushed \/ pushed' = pushed \o items
  <1>1. /\ blocked \in Seq(DOMAIN ops) /\ pushed \in Seq(Event) /\ jobs \in Seq(Job)
        /\ IsInjective(blocked) /\ Singly(js) /\ Range(blocked) \cap Rechecks(js) = {}
    BY DEF UploaderTypeOK, LookOnce
  <1>2. \A p \in O : Taker(p)' = Taker(p)
    BY DEF Taker
  <1>3. Taker(o)' = Range(items)
    BY DEF Taker
  <1>4. ASSUME jobs' = Append(js, JobOf("resume", o)), blocked' = blocked
        PROVE  LookOnce(jobs', blocked') /\ Asking' = O
    <2>1. JobOf("resume", o) \in Job /\ JobOf("resume", o).kind = "resume"
      BY DEF JobOf, Job
    <2>2. PICK t \in Seq(Job) : t = <<JobOf("resume", o)>> /\ \A j \in Range(t) : j.kind # "recheck"
      <3>1. <<JobOf("resume", o)>> \in Seq(Job) /\ Range(<<JobOf("resume", o)>>) = {JobOf("resume", o)}
        BY <2>1, InjectiveOne
      <3> QED BY <2>1, <3>1
    <2>3. Singly(t) /\ Rechecks(t) = {}
      BY <2>2, SinglyOthers
    <2>4. Rechecks(js) \cap Rechecks(t) = {}
      BY <2>3
    <2>5. Singly(js \o t) /\ Rechecks(js \o t) = Rechecks(js) \cup Rechecks(t)
      BY <1>1, <2>3, <2>4, SinglyJoined
    <2>6. Singly(js \o t) /\ Rechecks(js \o t) = Rechecks(js)
      BY <2>3, <2>5
    <2>7. jobs' = js \o t
      <3>1. Append(js, JobOf("resume", o)) = js \o <<JobOf("resume", o)>>
        BY <2>1, AppendIsConcat
      <3> QED BY <1>4, <2>2, <3>1
    <2>8. LookOnce(jobs', blocked')
      BY <1>1, <1>4, <2>6, <2>7 DEF LookOnce
    <2>9. Asking' = O
      BY <1>4, <2>6, <2>7 DEF Asking
    <2> QED BY <2>8, <2>9
  <1>5. ASSUME pushed' = pushed, waited' = waited, Asking' = O, LookOnce(jobs', blocked')
        PROVE  TakenOnce' /\ InUploader' = Holds(O)
    <2>1. Clear(O)'
      <3>1. ASSUME NEW p \in O
            PROVE  (IsInjective(ops[p].items) /\ Taker(p) \subseteq waited \ Range(pushed))'
        <4>1. IsInjective(ops[p].items) /\ Taker(p) \subseteq waited \ Range(pushed)
          BY <3>1 DEF Clear
        <4> QED BY <1>2, <1>5, <3>1, <4>1
      <3>2. \A p, q \in O : p # q => Taker(p)' \cap Taker(q)' = {}
        BY <1>2 DEF Clear
      <3> QED BY <3>1, <3>2 DEF Clear
    <2>2. Holds(O)' = Holds(O)
      BY <1>2, <1>5 DEF Holds
    <2> QED BY <1>5, <2>1, <2>2 DEF TakenOnce, InUploader
  <1>6. CASE closed
    <2>1. jobs' = Append(js, JobOf("resume", o)) /\ UNCHANGED <<blocked, waited, pushed>>
      BY <1>6 DEF Admit, queueVars
    <2> QED BY <1>4, <1>5, <1>6, <2>1
  <1>7. CASE ~closed /\ Len(pending) + Len(items) > MaxQueue /\ blocked' = Append(blocked, o)
             /\ waited' = waited \cup Range(items) /\ jobs' = js /\ UNCHANGED queueVars
    <2>1. pushed' = pushed
      BY <1>7 DEF queueVars
    <2>2. o \notin Range(blocked) /\ o \notin Rechecks(js)
      OBVIOUS
    <2>3. blocked \in Seq(Nat)
      <3>1. DOMAIN ops \subseteq Nat
        BY DEF UploaderTypeOK
      <3> QED BY <1>1, <3>1, SeqMonotonic
    <2>4. IsInjective(Append(blocked, o)) /\ Range(Append(blocked, o)) = Range(blocked) \cup {o}
      BY <1>1, <2>2, <2>3, InjectiveAppended, AppendedProperties
    <2>5. LookOnce(jobs', blocked')
      BY <1>1, <1>7, <2>2, <2>4 DEF LookOnce
    <2>6. Asking' = O \cup {o}
      BY <1>7, <2>4 DEF Asking
    <2>7. ASSUME NEW p \in O \cup {o}
          PROVE  (IsInjective(ops[p].items) /\ Taker(p) \subseteq waited \ Range(pushed))'
      <3>1. CASE p \in O
        <4>1. IsInjective(ops[p].items) /\ Taker(p) \subseteq waited \ Range(pushed)
          BY <3>1 DEF Clear
        <4> QED BY <1>2, <1>7, <2>1, <3>1, <4>1
      <3>2. CASE p = o
        <4>1. Range(items) \cap Range(pushed) = {}
          BY DEF Holds
        <4> QED BY <1>3, <1>7, <2>1, <3>2, <4>1
      <3> QED BY <3>1, <3>2
    <2>8. ASSUME NEW p \in O \cup {o}, NEW q \in O \cup {o}, p # q PROVE Taker(p)' \cap Taker(q)' = {}
      <3>1. \A r \in O : Taker(r) \cap Range(items) = {}
        BY DEF Holds
      <3>2. CASE p \in O /\ q \in O
        BY <1>2, <2>8, <3>2 DEF Clear
      <3> QED BY <1>2, <1>3, <2>8, <3>1, <3>2
    <2>9. TakenOnce'
      <3>1. PICK A : A = O \cup {o}
        OBVIOUS
      <3>2. Clear(A)'
        BY <2>7, <2>8, <3>1 DEF Clear
      <3> QED BY <2>1, <2>5, <2>6, <3>1, <3>2 DEF TakenOnce
    <2>10. InUploader' = Holds(O) \cup Range(items)
      <3>1. InUploader' = Range(pushed) \cup UNION { Taker(p)' : p \in O \cup {o} }
        BY <2>1, <2>6 DEF InUploader, Holds
      <3>2. UNION { Taker(p)' : p \in O \cup {o} } = (UNION { Taker(p)' : p \in O }) \cup Range(items)
        BY <1>3
      <3>3. UNION { Taker(p)' : p \in O } = UNION { Taker(p) : p \in O }
        BY <1>2
      <3> QED BY <3>1, <3>2, <3>3 DEF Holds
    <2> QED BY <1>7, <2>1, <2>9, <2>10
  <1>8. CASE ~closed /\ pushed' = pushed \o items /\ jobs' = Append(js, JobOf("resume", o))
             /\ UNCHANGED <<blocked, waited>>
    <2>1. LookOnce(jobs', blocked') /\ Asking' = O
      BY <1>4, <1>8
    <2>2. Range(items) \cap Range(pushed) = {} /\ \A p \in O : Taker(p) \cap Range(items) = {}
      BY DEF Holds
    <2>3. IsInjective(pushed') /\ Range(pushed') = Range(pushed) \cup Range(items)
      BY <1>1, <1>8, <2>2, InjectiveJoined, JoinedProperties
    <2>4. ASSUME NEW p \in O
          PROVE  (IsInjective(ops[p].items) /\ Taker(p) \subseteq waited \ Range(pushed))'
      <3>1. IsInjective(ops[p].items) /\ Taker(p) \subseteq waited \ Range(pushed)
        BY <2>4 DEF Clear
      <3> QED BY <1>2, <1>8, <2>2, <2>3, <2>4, <3>1
    <2>5. \A p, q \in O : p # q => Taker(p)' \cap Taker(q)' = {}
      BY <1>2 DEF Clear
    <2>6. Clear(O)'
      BY <2>4, <2>5 DEF Clear
    <2>7. TakenOnce'
      BY <2>1, <2>3, <2>6 DEF TakenOnce
    <2>8. InUploader' = Holds(O) \cup Range(items)
      <3>1. UNION { Taker(p)' : p \in O } = UNION { Taker(p) : p \in O }
        BY <1>2
      <3>2. Holds(O)' = Holds(O) \cup Range(items)
        BY <2>3, <3>1 DEF Holds
      <3> QED BY <2>1, <3>2 DEF InUploader
    <2> QED BY <1>8, <2>7, <2>8
  <1> QED BY <1>6, <1>7, <1>8 DEF Admit

\* The jobs js ask for room for those for whom all jobs do.
Behind(js) == js \in Seq(Job) /\ Singly(js) /\ Rechecks(js) = Rechecks(jobs)

LEMMA RunsBehind ==
  ASSUME UploaderTypeOK, TakenOnce
  PROVE  /\ Behind(jobs)
         /\ jobs # << >> /\ Head(jobs).kind # "recheck" => Behind(Tail(jobs))
         /\ \A js \in CallerJobs : Behind(js)
  <1>1. jobs \in Seq(Job) /\ Singly(jobs)
    BY DEF UploaderTypeOK, TakenOnce, LookOnce
  <1>2. Behind(jobs)
    BY <1>1 DEF Behind
  <1>3. ASSUME jobs # << >>, Head(jobs).kind # "recheck" PROVE Behind(Tail(jobs))
    BY <1>1, <1>3, SinglyTail DEF Behind
  <1>4. ASSUME NEW js \in CallerJobs PROVE Behind(js)
    <2>1. js = jobs \/ (js = Tail(jobs) /\ \E k \in Range(jobs) : k = Head(jobs) /\ k.kind \in {"resume", "tick"})
      BY <1>4 DEF CallerJobs
    <2>2. ASSUME NEW k \in Range(jobs) PROVE jobs # << >>
      BY <2>2, InjectiveNone
    <2> QED BY <1>2, <1>3, <2>1, <2>2
  <1> QED BY <1>2, <1>3, <1>4

LEMMA AskersNamed ==
  ASSUME IInv
  PROVE  /\ DOMAIN ops = 1..Len(ops) /\ Len(ops) \in Nat /\ Asking \subseteq DOMAIN ops
         /\ Len(ops) + 1 \notin Asking
         /\ blocked \in Seq(1..Len(ops)) /\ flushers \in Seq(1..Len(ops))
  <1>1. DOMAIN ops = 1..Len(ops) /\ Len(ops) \in Nat
    BY DEF IInv, UploaderTypeOK
  <1>2. Asking \subseteq DOMAIN ops
    BY DEF IInv, CallInv, Askers, Asking
  <1>3. Len(ops) + 1 \notin DOMAIN ops
    BY <1>1
  <1>4. blocked \in Seq(1..Len(ops)) /\ flushers \in Seq(1..Len(ops))
    BY <1>1 DEF IInv, UploaderTypeOK
  <1> QED BY <1>1, <1>2, <1>3, <1>4

\* An event that is enqueued goes to the uploader, unless that is closed.
LEMMA EnqueueTakes ==
  ASSUME IInv, TakenOnce, NEW js \in CallerJobs, NEW items \in Seq(Event), IsInjective(items),
         Range(items) \cap InUploader = {}, Enqueue(items, js)
  PROVE  /\ TakenOnce' /\ waited \subseteq waited' /\ closed' = closed
         /\ InUploader \subseteq InUploader' /\ InUploader' \subseteq InUploader \cup Range(items)
         /\ ~closed => Range(items) \subseteq InUploader'
         /\ pushed' = pushed \/ pushed' = pushed \o items
  <1>1. UploaderTypeOK /\ ops \in Seq(Op)
    BY DEF IInv, UploaderTypeOK
  <1>2. Behind(js)
    BY <1>1, RunsBehind
  <1>3. LookOnce(js, blocked) /\ IsInjective(pushed) /\ Clear(Asking) /\ js \in Seq(Job)
    BY <1>2 DEF TakenOnce, LookOnce, Behind
  <1>4. PICK O : O = Asking /\ O = Range(blocked) \cup Rechecks(js)
    BY <1>2 DEF Asking, Behind
  <1>5. PICK o \in Nat : o = Len(ops) + 1
    BY AskersNamed
  <1>6. closed' = closed /\ ops' = Append(ops, [items |-> items, goal |-> 0]) /\ Admit(o, items, js)
    BY <1>5 DEF Enqueue
  <1>7. /\ \A p \in DOMAIN ops : ops'[p] = ops[p]
        /\ ops'[o] = [items |-> items, goal |-> 0]
    BY <1>1, <1>5, <1>6
  <1>8. ops'[o].items = items
    BY <1>7
  <1>9. \A p \in O : ops'[p].items = ops[p].items
    BY <1>4, <1>7, AskersNamed
  <1>10. o \notin O
    BY <1>4, <1>5, AskersNamed
  <1>11. Clear(O) /\ Range(items) \cap Holds(O) = {}
    BY <1>3, <1>4 DEF InUploader
  <1>12. /\ TakenOnce' /\ waited \subseteq waited'
         /\ Holds(O) \subseteq InUploader' /\ InUploader' \subseteq Holds(O) \cup Range(items)
         /\ ~closed => Range(items) \subseteq InUploader'
         /\ pushed' = pushed \/ pushed' = pushed \o items
    BY <1>1, <1>3, <1>4, <1>6, <1>8, <1>9, <1>10, <1>11, AdmitTakes
  <1>13. Holds(O) = InUploader
    BY <1>4 DEF InUploader
  <1> QED BY <1>6, <1>12, <1>13

\* What is queued after a wait has waited.
LEMMA RecheckTakes ==
  ASSUME IInv, TakenOnce, Recheck
  PROVE  /\ TakenOnce' /\ waited \subseteq waited' /\ closed' = closed
         /\ InUploader' \subseteq InUploader /\ (~closed => InUploader \subseteq InUploader')
         /\ \/ pushed' = pushed
            \/ \E items \in Seq(Event) : pushed' = pushed \o items /\ Range(items) \subseteq waited
  <1>1. UploaderTypeOK /\ jobs \in Seq(Job) /\ ops \in Seq(Op)
    BY DEF IInv, UploaderTypeOK
  <1>2. /\ jobs # << >> /\ Head(jobs).kind = "recheck"
        /\ Admit(Head(jobs).id, ops[Head(jobs).id].items, Tail(jobs))
        /\ UNCHANGED <<closed, ops>>
    BY DEF Recheck
  <1>3. PICK o, js : o = Head(jobs).id /\ js = Tail(jobs)
    OBVIOUS
  <1>4. IsInjective(blocked) /\ Singly(jobs) /\ Range(blocked) \cap Rechecks(jobs) = {}
    BY DEF TakenOnce, LookOnce
  <1>5. /\ js \in Seq(Job) /\ Singly(js) /\ Rechecks(js) \subseteq Rechecks(jobs)
        /\ Rechecks(jobs) = Rechecks(js) \cup {o} /\ o \notin Rechecks(js)
    BY <1>1, <1>2, <1>3, <1>4, SinglyTail
  <1>6. LookOnce(js, blocked)
    BY <1>4, <1>5 DEF LookOnce
  <1>7. PICK O : O = Range(blocked) \cup Rechecks(js)
    OBVIOUS
  <1>8. Asking = O \cup {o} /\ o \notin O
    BY <1>4, <1>5, <1>7 DEF Asking
  <1>9. o \in DOMAIN ops /\ o \in Nat
    BY <1>8, AskersNamed
  <1>10. PICK items \in Seq(Event) : items = ops[o].items
    <2>1. ops[o] \in Op
      BY <1>1, <1>9
    <2> QED BY <2>1 DEF Op
  <1>11. Clear(Asking) /\ IsInjective(pushed)
    BY DEF TakenOnce
  <1>12. Clear(O) /\ IsInjective(items) /\ Range(items) \subseteq waited \ Range(pushed)
    BY <1>8, <1>10, <1>11 DEF Clear, Taker
  <1>13. \A p \in O : Taker(p) \cap Range(items) = {}
    BY <1>8, <1>10, <1>11 DEF Clear, Taker
  <1>14. Range(items) \cap Holds(O) = {}
    BY <1>12, <1>13 DEF Holds
  <1>15. \A p \in O : ops'[p].items = ops[p].items
    BY <1>2
  <1>16. ops'[o].items = items /\ Admit(o, items, js)
    BY <1>2, <1>3, <1>10
  <1>17. /\ TakenOnce' /\ waited \subseteq waited'
         /\ Holds(O) \subseteq InUploader' /\ InUploader' \subseteq Holds(O) \cup Range(items)
         /\ ~closed => Range(items) \subseteq InUploader'
         /\ pushed' = pushed \/ pushed' = pushed \o items
    BY <1>1, <1>5, <1>6, <1>7, <1>8, <1>9, <1>11, <1>12, <1>14, <1>15, <1>16, AdmitTakes
  <1>18. InUploader = Holds(O) \cup Range(items)
    <2>1. Taker(o) = Range(items)
      BY <1>10 DEF Taker
    <2> QED BY <1>8, <2>1 DEF InUploader, Holds
  <1> QED BY <1>2, <1>12, <1>17, <1>18

\* Jobs that ask for no room.
Idle(w) == w \in Seq(Job) /\ \A j \in Range(w) : j.kind # "recheck"

LEMMA IdleOnes ==
  ASSUME IInv
  PROVE  /\ Idle(<< >>) /\ Idle(JobsOf("resume", flushers)) /\ Idle(<<JobOf("wake", 0)>>)
         /\ \A n \in Nat : Idle(<<JobOf("resume", n)>>) /\ Idle(<<JobOf("tick", n)>>)
  <1>1. Idle(<< >>)
    BY InjectiveNone DEF Idle
  <1>2. Idle(JobsOf("resume", flushers))
    BY AskersNamed, JobsOfProperties DEF Idle
  <1>3. ASSUME NEW k \in {"wake", "resume", "tick"}, NEW n \in Nat PROVE Idle(<<JobOf(k, n)>>)
    <2>1. JobOf(k, n) \in Job /\ JobOf(k, n).kind = k
      BY DEF JobOf, Job
    <2>2. <<JobOf(k, n)>> \in Seq(Job) /\ Range(<<JobOf(k, n)>>) = {JobOf(k, n)}
      BY <2>1, InjectiveOne
    <2> QED BY <2>1, <2>2 DEF Idle
  <1> QED BY <1>1, <1>2, <1>3

LEMMA IdleJoined ==
  ASSUME NEW js \in Seq(Job), Singly(js), NEW x, Idle(x)
  PROVE  js \o x \in Seq(Job) /\ Singly(js \o x) /\ Rechecks(js \o x) = Rechecks(js)
  <1>1. Singly(x) /\ Rechecks(x) = {}
    BY SinglyOthers DEF Idle
  <1>2. x \in Seq(Job)
    BY DEF Idle
  <1>3. Rechecks(js) \cap Rechecks(x) = {}
    BY <1>1
  <1>4. js \o x \in Seq(Job) /\ Singly(js \o x) /\ Rechecks(js \o x) = Rechecks(js) \cup Rechecks(x)
    BY <1>1, <1>2, <1>3, SinglyJoined
  <1> QED BY <1>1, <1>4

\* Those who wait go on waiting, or are all woken; nothing else of theirs changes.
LEMMA StillAsked ==
  ASSUME IInv, TakenOnce, NEW js, Behind(js), pushed' = pushed, waited' = waited,
         ops' = ops \/ \E op : ops' = Append(ops, op),
         NEW w, Idle(w), NEW x, Idle(x),
         \/ blocked' = blocked /\ jobs' = js \o x
         \/ blocked' = << >> /\ jobs' = js \o w \o JobsOf("recheck", blocked) \o x
  PROVE  TakenOnce' /\ InUploader' = InUploader
  <1>1. /\ js \in Seq(Job) /\ Singly(js) /\ Rechecks(js) = Rechecks(jobs)
        /\ IsInjective(blocked) /\ Range(blocked) \cap Rechecks(jobs) = {}
    BY DEF Behind, TakenOnce, LookOnce
  <1>2. LookOnce(jobs', blocked') /\ Asking' = Asking
    <2>1. CASE blocked' = blocked /\ jobs' = js \o x
      <3>1. Singly(js \o x) /\ Rechecks(js \o x) = Rechecks(jobs)
        BY <1>1, IdleJoined
      <3> QED BY <1>1, <2>1, <3>1 DEF LookOnce, Asking
    <2>2. CASE blocked' = << >> /\ jobs' = js \o w \o JobsOf("recheck", blocked) \o x
      <3>1. PICK a : a = js \o w
        OBVIOUS
      <3>2. a \in Seq(Job) /\ Singly(a) /\ Rechecks(a) = Rechecks(jobs)
        BY <1>1, <3>1, IdleJoined
      <3>3. PICK b : b = JobsOf("recheck", blocked)
        OBVIOUS
      <3>4. b \in Seq(Job) /\ Singly(b) /\ Rechecks(b) = Range(blocked)
        BY <1>1, <3>3, AskersNamed, SinglyWoken
      <3>5. PICK c : c = a \o b
        OBVIOUS
      <3>6. c \in Seq(Job) /\ Singly(c) /\ Rechecks(c) = Rechecks(a) \cup Rechecks(b)
        <4>1. Rechecks(a) \cap Rechecks(b) = {}
          BY <1>1, <3>2, <3>4
        <4> QED BY <3>2, <3>4, <3>5, <4>1, SinglyJoined
      <3>7. Singly(c \o x) /\ Rechecks(c \o x) = Rechecks(c)
        BY <3>6, IdleJoined
      <3>8. jobs' = c \o x
        BY <2>2, <3>1, <3>3, <3>5
      <3>9. Singly(jobs') /\ Rechecks(jobs') = Rechecks(jobs) \cup Range(blocked)
        BY <3>2, <3>4, <3>6, <3>7, <3>8
      <3>10. LookOnce(jobs', blocked')
        BY <2>2, <3>9, InjectiveNone DEF LookOnce
      <3>11. Asking' = Asking
        BY <2>2, <3>9, InjectiveNone DEF Asking
      <3> QED BY <3>10, <3>11
    <2> QED BY <2>1, <2>2
  <1>3. \A o \in Asking : ops'[o].items = ops[o].items
    <2>1. ops \in Seq(Op)
      BY DEF IInv, UploaderTypeOK
    <2>2. \A op : \A o \in 1..Len(ops) : Append(ops, op)[o] = ops[o]
      BY <2>1
    <2> QED BY <2>2, AskersNamed
  <1>4. PICK O : O = Asking
    OBVIOUS
  <1> QED BY <1>2, <1>3, <1>4, NothingTaken

\* Neither a flush(), nor close(), nor the drain loop takes an event in or lets one go.
LEMMA OthersTake ==
  ASSUME IInv, TakenOnce,
         \/ \E js \in CallerJobs : Flush(js) \/ Close(js)
         \/ UploaderIdle /\ \E js \in CallerJobs :
              jobs' = js \/ \E c \in Nat : jobs' = Append(js, JobOf("tick", c))
         \/ \E l \in loops : \/ Deliver(l) \/ Refuse(l) \/ Drop(l) \/ Retry(l) \/ Superseded(l)
                             \/ SleepEnds(l) \/ Wake(l)
         \/ LandLate \/ UNCHANGED uploaderVars
  PROVE  TakenOnce' /\ InUploader' = InUploader /\ pushed' = pushed /\ waited' = waited
  <1>1. UploaderTypeOK /\ jobs \in Seq(Job) /\ Behind(jobs)
    BY RunsBehind DEF IInv, UploaderTypeOK
  <1>2. PICK again, back : again = JobsOf("recheck", blocked) /\ back = JobsOf("resume", flushers)
    OBVIOUS
  <1>3. Idle(<< >>) /\ Idle(back) /\ Idle(<<JobOf("wake", 0)>>)
        /\ \A n \in Nat : Idle(<<JobOf("resume", n)>>) /\ Idle(<<JobOf("tick", n)>>)
    BY <1>2, IdleOnes
  <1>4. ASSUME NEW js, Behind(js), pushed' = pushed, waited' = waited, blocked' = blocked,
               ops' = ops \/ \E op : ops' = Append(ops, op),
               NEW x, Idle(x), jobs' = js \o x
        PROVE  TakenOnce' /\ InUploader' = InUploader /\ pushed' = pushed /\ waited' = waited
    BY <1>3, <1>4, StillAsked
  <1>5. ASSUME NEW js, Behind(js), pushed' = pushed, waited' = waited, blocked' = << >>, ops' = ops,
               NEW w, Idle(w), NEW x, Idle(x), jobs' = js \o w \o again \o x
        PROVE  TakenOnce' /\ InUploader' = InUploader /\ pushed' = pushed /\ waited' = waited
    BY <1>2, <1>5, StillAsked
  <1>6. \A js : Behind(js) => js \o << >> = js
    BY ConcatEmptySeq DEF Behind
  <1>7. ASSUME NEW js \in CallerJobs, NEW k \in {"resume", "tick"}, NEW n \in Nat
        PROVE  Append(js, JobOf(k, n)) = js \o <<JobOf(k, n)>>
    <2>1. js \in Seq(Job) /\ JobOf(k, n) \in Job
      BY <1>1, CallerJobsAre DEF JobOf, Job
    <2> QED BY <2>1, AppendIsConcat
  <1>8. Len(ops) + 1 \in Nat
    BY AskersNamed
  <1>9. ASSUME NEW js \in CallerJobs, Flush(js)
        PROVE  TakenOnce' /\ InUploader' = InUploader /\ pushed' = pushed /\ waited' = waited
    <2>1. /\ UNCHANGED <<blocked, waited, pushed>> /\ \E op : ops' = Append(ops, op)
          /\ jobs' = js \/ jobs' = Append(js, JobOf("resume", Len(ops) + 1))
      BY <1>9 DEF Flush
    <2>2. Behind(js)
      BY <1>1, RunsBehind
    <2>3. CASE jobs' = js
      <3>1. jobs' = js \o << >>
        BY <1>6, <2>2, <2>3
      <3> QED BY <1>3, <1>4, <2>1, <2>2, <3>1
    <2>4. CASE jobs' = Append(js, JobOf("resume", Len(ops) + 1))
      <3>1. jobs' = js \o <<JobOf("resume", Len(ops) + 1)>>
        BY <1>7, <1>8, <2>4
      <3> QED BY <1>3, <1>4, <1>8, <2>1, <2>2, <3>1
    <2> QED BY <2>1, <2>3, <2>4
  <1>10. ASSUME NEW js \in CallerJobs, Close(js)
        PROVE  TakenOnce' /\ InUploader' = InUploader /\ pushed' = pushed /\ waited' = waited
    <2>1. Behind(js)
      BY <1>1, RunsBehind
    <2>2. CASE closed
      <3>1. UNCHANGED <<blocked, waited, pushed, ops>> /\ jobs' = js
        BY <1>10, <2>2 DEF Close, queueVars, waitVars
      <3>2. jobs' = js \o << >>
        BY <1>6, <2>1, <3>1
      <3> QED BY <1>3, <1>4, <2>1, <3>1, <3>2
    <2>3. CASE ~closed
      <3>1. UNCHANGED <<waited, pushed, ops>> /\ blocked' = << >>
        BY <1>10, <2>3 DEF Close
      <3>2. PICK w \in {<<JobOf("wake", 0)>>, << >>} : jobs' = js \o w \o again \o back
        BY <1>2, <1>10, <2>3 DEF Close
      <3> QED BY <1>3, <1>5, <2>1, <3>1, <3>2
    <2> QED BY <2>2, <2>3
  <1>11. ASSUME NEW js \in CallerJobs, UploaderIdle,
                jobs' = js \/ \E c \in Nat : jobs' = Append(js, JobOf("tick", c))
         PROVE  TakenOnce' /\ InUploader' = InUploader /\ pushed' = pushed /\ waited' = waited
    <2>1. UNCHANGED <<blocked, waited, pushed, ops>>
      BY <1>11 DEF UploaderIdle, queueVars, waitVars
    <2>2. Behind(js)
      BY <1>1, RunsBehind
    <2>3. CASE jobs' = js
      <3>1. jobs' = js \o << >>
        BY <1>6, <2>2, <2>3
      <3> QED BY <1>3, <1>4, <2>1, <2>2, <3>1
    <2>4. ASSUME NEW c \in Nat, jobs' = Append(js, JobOf("tick", c))
          PROVE  TakenOnce' /\ InUploader' = InUploader /\ pushed' = pushed /\ waited' = waited
      <3>1. jobs' = js \o <<JobOf("tick", c)>>
        BY <1>7, <2>4
      <3> QED BY <1>3, <1>4, <2>1, <2>2, <3>1
    <2> QED BY <1>11, <2>3, <2>4
  <1>12. ASSUME NEW l, BatchDone(l)
         PROVE  TakenOnce' /\ InUploader' = InUploader /\ pushed' = pushed /\ waited' = waited
    <2>1. NextRound(l, pending, 0, jobs \o again) /\ blocked' = << >> /\ UNCHANGED <<ops, pushed, waited>>
      BY <1>2, <1>12 DEF BatchDone
    <2>2. jobs' = jobs \o again \/ jobs' = jobs \o again \o back
      BY <1>2, <2>1 DEF NextRound
    <2>3. again \in Seq(Job)
      BY <1>2, AskersNamed, JobsOfProperties
    <2>4. jobs \o << >> = jobs /\ jobs \o again = (jobs \o again) \o << >>
      BY <1>1, <2>3, ConcatEmptySeq, JoinedProperties
    <2>5. PICK x : Idle(x) /\ jobs' = jobs \o << >> \o again \o x
      BY <1>3, <2>2, <2>4
    <2> QED BY <1>1, <1>3, <1>5, <2>1, <2>5
  <1>13. ASSUME NEW l, NEW f, NEW js, Behind(js), NextRound(l, pending, f, js),
                UNCHANGED <<blocked, waited, ops, pushed>>
         PROVE  TakenOnce' /\ InUploader' = InUploader /\ pushed' = pushed /\ waited' = waited
    <2>1. jobs' = js \/ jobs' = js \o back
      BY <1>2, <1>13 DEF NextRound
    <2>2. PICK x : Idle(x) /\ jobs' = js \o x
      BY <1>3, <1>6, <1>13, <2>1
    <2> QED BY <1>4, <1>13, <2>2
  <1>14. ASSUME NEW l, Deliver(l) \/ Refuse(l) \/ Drop(l)
         PROVE  TakenOnce' /\ InUploader' = InUploader /\ pushed' = pushed /\ waited' = waited
    BY <1>12, <1>14 DEF Deliver, Refuse, Drop
  <1>15. ASSUME NEW l, Retry(l)
         PROVE  TakenOnce' /\ InUploader' = InUploader /\ pushed' = pushed /\ waited' = waited
    <2>1. UNCHANGED <<blocked, waited, ops, jobs, pushed>>
      BY <1>15 DEF Retry, waitVars
    <2>2. jobs' = jobs \o << >>
      BY <1>1, <1>6, <2>1
    <2> QED BY <1>1, <1>3, <1>4, <2>1, <2>2
  <1>16. ASSUME NEW l, Superseded(l)
         PROVE  TakenOnce' /\ InUploader' = InUploader /\ pushed' = pushed /\ waited' = waited
    <2>1. UNCHANGED <<waited, ops, pushed>> /\ blocked' = << >> /\ jobs' = jobs \o again \o back
      BY <1>2, <1>16 DEF Superseded
    <2>2. jobs' = jobs \o << >> \o again \o back
      BY <1>1, <1>6, <2>1
    <2> QED BY <1>1, <1>3, <1>5, <2>1, <2>2
  <1>17. ASSUME NEW l, SleepEnds(l)
         PROVE  TakenOnce' /\ InUploader' = InUploader /\ pushed' = pushed /\ waited' = waited
    BY <1>1, <1>13, <1>17 DEF SleepEnds
  <1>18. ASSUME NEW l, Wake(l)
         PROVE  TakenOnce' /\ InUploader' = InUploader /\ pushed' = pushed /\ waited' = waited
    <2>1. /\ jobs # << >> /\ Head(jobs).kind = "wake"
          /\ NextRound(l, pending, l.failures, Tail(jobs)) /\ UNCHANGED <<blocked, waited, ops, pushed>>
      BY <1>18 DEF Wake
    <2>2. Behind(Tail(jobs))
      BY <1>1, <2>1, RunsBehind
    <2> QED BY <1>13, <2>1, <2>2
  <1>19. CASE LandLate \/ UNCHANGED uploaderVars
    <2>1. UNCHANGED <<blocked, waited, ops, jobs, pushed>>
      BY <1>19 DEF LandLate, waitVars, queueVars, uploaderVars
    <2>2. jobs' = jobs \o << >>
      BY <1>1, <1>6, <2>1
    <2> QED BY <1>1, <1>3, <1>4, <2>1, <2>2
  <1> QED BY <1>9, <1>10, <1>11, <1>14, <1>15, <1>16, <1>17, <1>18, <1>19

(* Every event in its place, in its order *)

Rising(s) == \A i, j \in DOMAIN s : i < j => s[i] < s[j]
Of(c) == Range(calls[c].items)
Left(c) == Range(calls[c].rest)
Unsent == UNION { Left(c) : c \in DOMAIN calls }

Known == InUploader \cup streams \subseteq 1..written

\* What is buffered was written after all that has left the buffer.
BufferLast == Rising(buffer) /\ \A e \in Range(buffer) : \A f \in InUploader \cup Unsent : f < e

\* A call enqueues its own messages, and those one after another.
InTurn(c) ==
  /\ Rising(calls[c].rest) /\ Left(c) \subseteq Of(c) /\ (Left(c) = {} \/ kind = "ccr")
  /\ Of(c) \subseteq (1..written) \ streams
  /\ \A e \in Left(c), f \in InUploader \cap Of(c) : f < e
Batches ==
  /\ \A c \in DOMAIN calls : InTurn(c)
  /\ \A c, d \in DOMAIN calls : c # d => Of(c) \cap Of(d) = {}

Covered ==
  ~shut /\ ~closed => 1..written \subseteq Range(buffer) \cup folded \cup InUploader \cup Unsent

PlaceInv == TakenOnce /\ Known /\ BufferLast /\ Batches /\ Covered /\ QueuedInOrder

\* e may be queued behind f, which was written later.
Excused(f, e) == e \in waited \/ (kind = "ccr" /\ e \notin streams /\ ~SameCall(f, e))

\* What a step does to the uploader: these events are enqueued there, if any.
Passes(items) ==
  /\ TakenOnce' /\ waited \subseteq waited'
  /\ InUploader' \subseteq InUploader \cup Range(items)
  /\ ~closed' => InUploader \cup Range(items) \subseteq InUploader'
  /\ \/ pushed' = pushed \/ pushed' = pushed \o items
     \/ \E after \in Seq(Event) : pushed' = pushed \o after /\ Range(after) \subseteq waited

\* What it does to the events written so far.
Fresher == (written + 1)..written'
Ages ==
  /\ kind' = kind /\ written' \in Nat /\ written <= written'
  /\ streams \subseteq streams' /\ streams' \subseteq streams \cup Fresher

\* What it does to call c, old or new, when the events X are enqueued.
Carries(c, X) ==
  \/ /\ c \in DOMAIN calls /\ Of(c)' = Of(c) /\ Left(c)' \subseteq Left(c) /\ Rising(calls[c].rest)'
     /\ \A e \in Left(c)', f \in X \cap Of(c) : f < e
  \/ /\ c \notin DOMAIN calls /\ Of(c)' \subseteq Fresher \ streams' /\ Left(c)' \subseteq Of(c)'
     /\ Rising(calls[c].rest)' /\ (Left(c)' = {} \/ (kind = "ccr" /\ X \cap Of(c)' = {}))
CallsCarry(X) ==
  /\ \A c \in DOMAIN calls' : Carries(c, X)
  /\ \A c, d \in DOMAIN calls' \ DOMAIN calls : c = d

LEMMA BatchesKept ==
  ASSUME PlaceInv, written \in Nat, NEW items, Passes(items), Ages, CallsCarry(Range(items)),
         Range(items) \subseteq 1..written'
  PROVE  Known' /\ Batches'
  <1> DEFINE X == Range(items)
  <1>1. /\ InUploader \subseteq 1..written /\ streams \subseteq 1..written /\ Batches
        /\ InUploader' \subseteq InUploader \cup X
        /\ X \subseteq 1..written' /\ kind' = kind
        /\ \A c \in DOMAIN calls' : Carries(c, X)
    BY DEF PlaceInv, Known, Passes, Ages, CallsCarry
  <1> HIDE DEF X
  <1>2. /\ Fresher \subseteq 1..written' /\ 1..written \subseteq 1..written'
        /\ Fresher \cap (1..written) = {} /\ streams' \subseteq streams \cup Fresher /\ streams \subseteq streams'
    BY DEF Ages, Fresher
  <1>3. Known'
    BY <1>1, <1>2 DEF Known
  <1>4. ASSUME NEW c \in DOMAIN calls' PROVE InTurn(c)'
    <2>1. Rising(calls[c].rest)' /\ Left(c)' \subseteq Of(c)' /\ (Left(c)' = {} \/ kind' = "ccr")
      <3>1. c \in DOMAIN calls => Left(c) \subseteq Of(c) /\ (Left(c) = {} \/ kind = "ccr")
        BY <1>1 DEF Batches, InTurn
      <3> QED BY <1>1, <3>1 DEF Carries
    <2>2. Of(c)' \subseteq (1..written') \ streams'
      <3>1. CASE c \in DOMAIN calls
        <4>1. Of(c)' = Of(c) /\ Of(c) \subseteq (1..written) \ streams
          BY <1>1, <3>1 DEF Carries, Batches, InTurn
        <4> QED BY <1>2, <4>1
      <3>2. CASE c \notin DOMAIN calls
        BY <1>1, <1>2, <3>2 DEF Carries
      <3> QED BY <3>1, <3>2
    <2>3. ASSUME NEW e \in Left(c)', NEW f \in InUploader' \cap Of(c)' PROVE f < e
      <3>1. CASE c \in DOMAIN calls
        <4>1. /\ Of(c)' = Of(c) /\ Left(c)' \subseteq Left(c)
              /\ \A a \in Left(c)', b \in X \cap Of(c) : b < a
          BY <1>1, <3>1 DEF Carries
        <4>2. \A a \in Left(c), b \in InUploader \cap Of(c) : b < a
          BY <1>1, <3>1 DEF Batches, InTurn
        <4>3. f \in InUploader \/ f \in X
          BY <1>1, <2>3
        <4> QED BY <2>3, <4>1, <4>2, <4>3
      <3>2. CASE c \notin DOMAIN calls
        <4>1. Of(c)' \subseteq Fresher /\ X \cap Of(c)' = {}
          BY <1>1, <2>3, <3>2 DEF Carries
        <4> QED BY <1>1, <1>2, <2>3, <4>1
      <3> QED BY <3>1, <3>2
    <2> QED BY <2>1, <2>2, <2>3 DEF InTurn
  <1>5. ASSUME NEW c \in DOMAIN calls', NEW d \in DOMAIN calls', c # d PROVE Of(c)' \cap Of(d)' = {}
    <2>1. \A b \in DOMAIN calls' :
            \/ b \in DOMAIN calls /\ Of(b)' = Of(b) /\ Of(b)' \subseteq 1..written
            \/ b \notin DOMAIN calls /\ Of(b)' \subseteq Fresher
      BY <1>1 DEF Carries, Batches, InTurn
    <2>2. c \in DOMAIN calls \/ d \in DOMAIN calls
      BY <1>5 DEF CallsCarry
    <2>3. c \in DOMAIN calls /\ d \in DOMAIN calls => Of(c) \cap Of(d) = {}
      BY <1>1, <1>5 DEF Batches
    <2> QED BY <1>2, <2>1, <2>2, <2>3
  <1> QED BY <1>3, <1>4, <1>5 DEF Batches

LEMMA ExcusedStays ==
  ASSUME PlaceInv, written \in Nat, NEW X, Ages, CallsCarry(X), waited \subseteq waited',
         NEW f \in 1..written, NEW e \in 1..written, Excused(f, e)
  PROVE  Excused(f, e)'
  <1>1. Fresher \cap (1..written) = {}
    BY DEF Ages, Fresher
  <1>2. kind' = kind /\ (e \notin streams => e \notin streams')
    BY <1>1 DEF Ages
  <1>3. ASSUME SameCall(f, e)' PROVE SameCall(f, e)
    <2>1. PICK c \in DOMAIN calls' : f \in Of(c)' /\ e \in Of(c)'
      BY <1>3 DEF SameCall, Of
    <2>2. c \in DOMAIN calls /\ Of(c)' = Of(c)
      BY <1>1, <2>1 DEF CallsCarry, Carries
    <2> QED BY <2>1, <2>2 DEF SameCall, Of
  <1> QED BY <1>2, <1>3 DEF Excused

LEMMA OrderKept ==
  ASSUME UploaderTypeOK, PlaceInv, written \in Nat, NEW items \in Seq(Event), Passes(items), Ages,
         CallsCarry(Range(items)), Rising(items), Event \subseteq Nat,
         \A e \in Range(items), f \in Range(pushed) : f < e \/ Excused(f, e)'
  PROVE  QueuedInOrder'
  <1>1. /\ pushed \in Seq(Event) /\ Len(pushed) \in Nat /\ DOMAIN pushed = 1..Len(pushed)
        /\ \A p \in DOMAIN pushed : pushed[p] \in Range(pushed) /\ pushed[p] \in Nat /\ pushed[p] \in 1..written
        /\ waited \subseteq waited'
    <2>1. pushed \in Seq(Event) /\ Range(pushed) \subseteq 1..written
      BY DEF UploaderTypeOK, PlaceInv, Known, InUploader, Holds
    <2> QED BY <2>1 DEF Range, Passes
  <1>2. ASSUME NEW p \in DOMAIN pushed, NEW q \in DOMAIN pushed, p < q,
               NEW f, f = pushed[p], NEW e, e = pushed[q], f > e
        PROVE  Excused(f, e)'
    <2>1. Excused(f, e)
      BY <1>2 DEF PlaceInv, QueuedInOrder, Excused
    <2>2. f \in 1..written /\ e \in 1..written
      BY <1>1, <1>2
    <2> QED BY <1>1, <2>1, <2>2, ExcusedStays
  <1> SUFFICES ASSUME NEW p \in DOMAIN pushed', NEW q \in DOMAIN pushed', p < q, pushed'[p] > pushed'[q],
                      NEW f, f = pushed'[p], NEW e, e = pushed'[q]
               PROVE  Excused(f, e)'
    BY DEF QueuedInOrder, Excused
  <1>3. CASE pushed' = pushed
    BY <1>2, <1>3
  <1>4. ASSUME NEW x \in Seq(Event), pushed' = pushed \o x,
               Range(x) \subseteq waited \/ x = items
        PROVE  Excused(f, e)'
    <2>1. /\ DOMAIN pushed' = 1..(Len(pushed) + Len(x)) /\ Len(x) \in Nat /\ DOMAIN x = 1..Len(x)
          /\ \A i \in 1..Len(pushed) : pushed'[i] = pushed[i]
          /\ \A i \in 1..Len(x) : pushed'[Len(pushed) + i] = x[i]
          /\ \A i \in 1..Len(x) : x[i] \in Range(x) /\ x[i] \in Nat
      <3>1. pushed' \in Seq(Event) /\ Len(pushed') = Len(pushed) + Len(x)
        BY <1>1, <1>4, JoinedProperties
      <3>2. DOMAIN pushed' = 1..(Len(pushed) + Len(x)) /\ Len(x) \in Nat /\ DOMAIN x = 1..Len(x)
        BY <3>1
      <3>3. /\ \A i \in 1..Len(pushed) : pushed'[i] = pushed[i]
            /\ \A i \in 1..Len(x) : pushed'[Len(pushed) + i] = x[i]
        BY <1>1, <1>4, JoinedProperties
      <3>4. \A i \in 1..Len(x) : x[i] \in Event
        OBVIOUS
      <3>5. \A i \in 1..Len(x) : x[i] \in Range(x)
        BY <3>2 DEF Range
      <3>6. \A i \in 1..Len(x) : x[i] \in Range(x) /\ x[i] \in Nat
        BY <3>4, <3>5
      <3> QED BY <3>2, <3>3, <3>6
    <2>2. CASE q \in 1..Len(pushed)
      <3>1. p \in 1..Len(pushed)
        BY <1>1, <2>1, <2>2
      <3>2. f = pushed[p] /\ e = pushed[q] /\ f > e
        BY <2>1, <2>2, <3>1
      <3> QED BY <1>1, <1>2, <2>2, <3>1, <3>2
    <2>3. CASE q \notin 1..Len(pushed)
      <3>1. PICK j \in 1..Len(x) : q = Len(pushed) + j
        <4>1. q - Len(pushed) \in 1..Len(x) /\ q = Len(pushed) + (q - Len(pushed))
          BY <1>1, <2>1, <2>3
        <4> QED BY <4>1
      <3>2. e = x[j] /\ e \in Range(x) /\ e \in Nat
        BY <2>1, <3>1
      <3>3. CASE Range(x) \subseteq waited
        BY <1>1, <3>2, <3>3 DEF Excused
      <3>4. CASE x = items
        <4>1. CASE p \in 1..Len(pushed)
          <5>1. f \in Range(pushed) /\ f \in Nat /\ f = pushed[p]
            BY <1>1, <2>1, <4>1
          <5>2. ~(f < e)
            BY <3>2, <5>1
          <5> QED BY <3>2, <3>4, <5>1, <5>2
        <4>2. CASE p \notin 1..Len(pushed)
          <5>1. PICK i \in 1..Len(x) : p = Len(pushed) + i
            <6>1. p - Len(pushed) \in 1..Len(x) /\ p = Len(pushed) + (p - Len(pushed))
              BY <1>1, <2>1, <4>2
            <6> QED BY <6>1
          <5>2. i < j
            BY <1>1, <3>1, <5>1
          <5>3. f = x[i] /\ f \in Nat /\ x[i] < x[j]
            BY <2>1, <3>4, <5>1, <5>2 DEF Rising
          <5> QED BY <3>2, <5>3
        <4> QED BY <4>1, <4>2
      <3> QED BY <1>4, <3>3, <3>4
    <2> QED BY <2>2, <2>3
  <1> QED BY <1>3, <1>4 DEF Passes

LEMMA NonePassed ==
  ASSUME IInv, TakenOnce,
         \/ Recheck
         \/ \E js \in CallerJobs : Flush(js) \/ Close(js)
         \/ UploaderIdle /\ \E js \in CallerJobs :
              jobs' = js \/ \E c \in Nat : jobs' = Append(js, JobOf("tick", c))
         \/ \E l \in loops : \/ Deliver(l) \/ Refuse(l) \/ Drop(l) \/ Retry(l) \/ Superseded(l)
                             \/ SleepEnds(l) \/ Wake(l)
         \/ LandLate \/ UNCHANGED uploaderVars
  PROVE  Passes(<< >>)
  <1>1. Range(<< >>) = {}
    BY InjectiveNone
  <1>2. CASE Recheck
    <2>1. /\ TakenOnce' /\ waited \subseteq waited' /\ closed' = closed
          /\ InUploader' \subseteq InUploader /\ (~closed => InUploader \subseteq InUploader')
          /\ \/ pushed' = pushed
             \/ \E items \in Seq(Event) : pushed' = pushed \o items /\ Range(items) \subseteq waited
      BY <1>2, RecheckTakes
    <2> QED BY <1>1, <2>1 DEF Passes
  <1>3. CASE ~Recheck
    <2>1. TakenOnce' /\ InUploader' = InUploader /\ pushed' = pushed /\ waited' = waited
      BY <1>3, OthersTake
    <2> QED BY <1>1, <2>1 DEF Passes
  <1> QED BY <1>2, <1>3

LEMMA RisingOnce ==
  ASSUME NEW s \in Seq(Event), Rising(s), Event \subseteq Nat
  PROVE  IsInjective(s)
  <1>1. DOMAIN s = 1..Len(s) /\ \A i \in DOMAIN s : s[i] \in Event
    OBVIOUS
  <1>2. \A i \in DOMAIN s : s[i] \in Nat
    BY <1>1
  <1>3. DOMAIN s \subseteq Nat
    BY <1>1
  <1>4. DOMAIN s \subseteq Nat /\ \A i \in DOMAIN s : s[i] \in Nat
    BY <1>2, <1>3
  <1>5. \A i, j \in DOMAIN s : i < j \/ j < i \/ i = j
    BY <1>4
  <1>6. \A i, j \in DOMAIN s : i < j => s[i] # s[j]
    BY <1>4 DEF Rising
  <1> QED BY <1>5, <1>6 DEF IsInjective

LEMMA EnqueuePasses ==
  ASSUME IInv, TakenOnce, NEW js \in CallerJobs, NEW items \in Seq(Event), Rising(items),
         Range(items) \cap InUploader = {}, Enqueue(items, js)
  PROVE  Passes(items) /\ closed' = closed
  <1>1. IsInjective(items)
    BY RisingOnce, TransportAssumption
  <1>2. /\ TakenOnce' /\ waited \subseteq waited' /\ closed' = closed
        /\ InUploader \subseteq InUploader' /\ InUploader' \subseteq InUploader \cup Range(items)
        /\ ~closed => Range(items) \subseteq InUploader'
        /\ pushed' = pushed \/ pushed' = pushed \o items
    BY <1>1, EnqueueTakes
  <1> QED BY <1>2 DEF Passes

LEMMA PlacesKept ==
  ASSUME IInv, WInv, PlaceInv, NEW items \in Seq(Event), Passes(items), Ages,
         CallsCarry(Range(items)), Range(items) \subseteq 1..written', Rising(items),
         \A e \in Range(items), f \in Range(pushed) : f < e \/ Excused(f, e)',
         BufferLast', Covered'
  PROVE  PlaceInv'
  <1>1. written \in Nat /\ UploaderTypeOK
    BY DEF WInv, TransportTypes, IInv
  <1>2. Known' /\ Batches'
    BY <1>1, BatchesKept
  <1>3. QueuedInOrder'
    BY <1>1, OrderKept, TransportAssumption
  <1> QED BY <1>2, <1>3 DEF PlaceInv, Passes

\* The calls that there were keep their messages; one that is new has new ones, and has either
\* enqueued all of them or none.
CallsFollow ==
  /\ DOMAIN calls \subseteq DOMAIN calls'
  /\ \A c \in DOMAIN calls' :
       \/ c \in DOMAIN calls /\ calls'[c].items = calls[c].items /\ calls'[c].rest = calls[c].rest
       \/ /\ c \notin DOMAIN calls /\ Of(c)' \subseteq Fresher \ streams' /\ Left(c)' \subseteq Of(c)'
          /\ Rising(calls[c].rest)' /\ (Left(c)' = {} \/ kind = "ccr")
  /\ \A c, d \in DOMAIN calls' \ DOMAIN calls : c = d

LEMMA FollowCarries ==
  ASSUME WInv, PlaceInv, CallsFollow, NEW X, \A c \in DOMAIN calls : X \cap Of(c) = {},
         X \subseteq 1..written \/ \A c \in DOMAIN calls' \ DOMAIN calls : Left(c)' = {}
  PROVE  CallsCarry(X) /\ Unsent \subseteq Unsent'
  <1>1. \A c \in DOMAIN calls : c \in DOMAIN calls' /\ Of(c)' = Of(c) /\ Left(c)' = Left(c)
    BY DEF CallsFollow, Of, Left
  <1>2. ASSUME NEW c \in DOMAIN calls' PROVE Carries(c, X)
    <2>1. CASE c \in DOMAIN calls
      <3>1. Rising(calls[c].rest)'
        BY <2>1 DEF CallsFollow, PlaceInv, Batches, InTurn
      <3> QED BY <1>1, <2>1, <3>1 DEF Carries
    <2>2. CASE c \notin DOMAIN calls
      <3>1. /\ Of(c)' \subseteq Fresher \ streams' /\ Left(c)' \subseteq Of(c)'
            /\ Rising(calls[c].rest)' /\ (Left(c)' = {} \/ kind = "ccr")
        BY <1>2, <2>2 DEF CallsFollow
      <3>2. X \subseteq 1..written => X \cap Of(c)' = {}
        <4>1. written \in Nat
          BY DEF WInv, TransportTypes
        <4>2. Fresher \cap (1..written) = {}
          BY <4>1 DEF Fresher
        <4> QED BY <3>1, <4>2
      <3>3. Left(c)' = {} \/ (kind = "ccr" /\ X \cap Of(c)' = {})
        BY <1>2, <2>2, <3>1, <3>2
      <3> QED BY <2>2, <3>1, <3>3 DEF Carries
    <2> QED BY <2>1, <2>2
  <1>3. Unsent \subseteq Unsent'
    BY <1>1 DEF Unsent
  <1>4. \A c, d \in DOMAIN calls' \ DOMAIN calls : c = d
    BY DEF CallsFollow
  <1> QED BY <1>2, <1>3, <1>4 DEF CallsCarry

\* Nothing is written or enqueued; the buffer may be dropped when something is closed.
LEMMA CalmKeeps ==
  ASSUME IInv, WInv, PlaceInv, Passes(<< >>), CallsFollow, UNCHANGED <<kind, written, streams, folded>>,
         closed => closed', shut => shut', buffer' = buffer \/ (buffer' = << >> /\ (shut' \/ closed'))
  PROVE  PlaceInv'
  <1>1. << >> \in Seq(Event) /\ Range(<< >>) = {} /\ Rising(<< >>) /\ written \in Nat
    BY InjectiveNone DEF Rising, WInv, TransportTypes
  <1>2. Fresher = {} /\ Ages
    BY <1>1 DEF Ages, Fresher
  <1>3. CallsCarry({}) /\ Unsent \subseteq Unsent'
    BY FollowCarries
  <1>4. InUploader' \subseteq InUploader /\ (~closed' => InUploader \subseteq InUploader')
    BY <1>1 DEF Passes
  <1>5. Unsent' \subseteq Unsent
    BY <1>2 DEF CallsFollow, Unsent, Left
  <1>6. BufferLast'
    <2>1. CASE buffer' = buffer
      BY <1>4, <1>5, <2>1 DEF PlaceInv, BufferLast
    <2>2. CASE buffer' = << >>
      BY <1>1, <2>2 DEF BufferLast
    <2> QED BY <2>1, <2>2
  <1>7. Covered'
    <2> SUFFICES ASSUME ~shut', ~closed'
                 PROVE  1..written' \subseteq Range(buffer') \cup folded' \cup InUploader' \cup Unsent'
      BY DEF Covered
    <2>1. 1..written \subseteq Range(buffer) \cup folded \cup InUploader \cup Unsent
      BY DEF PlaceInv, Covered
    <2> QED BY <1>3, <1>4, <2>1
  <1> QED BY <1>1, <1>2, <1>3, <1>6, <1>7, PlacesKept

\* Calls that get another stage, or a close() that is begun, send nothing.
LEMMA NotedFollows ==
  ASSUME WInv, PlaceInv, NEW c \in 1..(Len(calls) + 1), NEW r \in Call, NoteCall(c, r),
         \/ c \in DOMAIN calls /\ r.items = calls[c].items /\ r.rest = calls[c].rest
         \/ c \notin DOMAIN calls /\ r.items = << >> /\ r.rest = << >>
  PROVE  CallsFollow
  <1>1. /\ DOMAIN calls \subseteq DOMAIN calls' /\ c \in DOMAIN calls' /\ calls'[c] = r
        /\ \A d \in DOMAIN calls' : d = c \/ (d \in DOMAIN calls /\ calls'[d] = calls[d])
    BY NoteCallDoes DEF WInv
  <1>2. Range(<< >>) = {} /\ Rising(<< >>)
    BY InjectiveNone DEF Rising
  <1>3. ASSUME NEW d \in DOMAIN calls'
        PROVE  \/ d \in DOMAIN calls /\ calls'[d].items = calls[d].items /\ calls'[d].rest = calls[d].rest
               \/ /\ d \notin DOMAIN calls /\ Of(d)' \subseteq Fresher \ streams' /\ Left(d)' \subseteq Of(d)'
                  /\ Rising(calls[d].rest)' /\ (Left(d)' = {} \/ kind = "ccr")
    <2>1. CASE d \in DOMAIN calls
      BY <1>1, <1>3, <2>1
    <2>2. CASE d \notin DOMAIN calls
      <3>1. d = c /\ calls'[d].items = << >> /\ calls'[d].rest = << >>
        BY <1>1, <1>3, <2>2
      <3> QED BY <1>2, <2>2, <3>1 DEF Of, Left
    <2> QED BY <2>1, <2>2
  <1>4. \A a, b \in DOMAIN calls' \ DOMAIN calls : a = b
    BY <1>1
  <1> QED BY <1>1, <1>3, <1>4 DEF CallsFollow

LEMMA NoneFollows == ASSUME calls' = calls PROVE CallsFollow
  BY DEF CallsFollow

\* What becomes of the buffer when it is taken.
LEMMA PayloadsAre ==
  ASSUME WInv, PlaceInv, NEW payloads, TakeStreamEvents(payloads), buffer # << >> \/ payloads = buffer
  PROVE  /\ payloads \in Seq(Event) /\ Rising(payloads) /\ Range(payloads) \subseteq Range(buffer)
         /\ Range(buffer) \subseteq Range(payloads) \cup folded' /\ folded \subseteq folded'
         /\ buffer' = << >>
         /\ Range(buffer) \subseteq 1..written /\ Range(buffer) \cap InUploader = {}
         /\ \A c \in DOMAIN calls : Range(buffer) \cap Of(c) = {}
  <1>1. buffer \in Seq(Event) /\ Rising(buffer) /\ Range(buffer) \subseteq streams /\ streams \subseteq 1..written
    BY DEF WInv, TransportTypes, StreamsBuffered, PlaceInv, BufferLast, Known
  <1>2. /\ buffer' = << >> /\ folded' = folded \cup (Range(buffer) \ Range(payloads))
        /\ payloads = buffer \/ payloads = <<Head(buffer)>>
    BY DEF TakeStreamEvents
  <1>3. payloads \in Seq(Event)
    BY TakeDoes
  <1>4. Rising(payloads) /\ Range(payloads) \subseteq Range(buffer)
    <2>1. CASE payloads = buffer
      BY <1>1, <2>1
    <2>2. CASE buffer # << >> /\ payloads = <<Head(buffer)>>
      <3>1. Head(buffer) \in Range(buffer)
        BY <1>1, <2>2, TailProperties
      <3>2. Range(payloads) = {Head(buffer)}
        BY <2>2, InjectiveOne
      <3>3. DOMAIN payloads = {1}
        BY <2>2
      <3>4. Rising(payloads)
        BY <3>3 DEF Rising
      <3> QED BY <3>1, <3>2, <3>4
    <2> QED BY <1>2, <2>1, <2>2
  <1>5. Range(buffer) \cap InUploader = {}
    <2>1. \A e \in 1..written : ~(e < e)
      OBVIOUS
    <2>2. \A e \in Range(buffer), f \in InUploader : f < e
      BY DEF PlaceInv, BufferLast
    <2> QED BY <1>1, <2>1, <2>2
  <1>6. \A c \in DOMAIN calls : Range(buffer) \cap Of(c) = {}
    BY <1>1 DEF PlaceInv, Batches, InTurn
  <1> QED BY <1>1, <1>2, <1>3, <1>4, <1>5, <1>6

\* The stream events in the buffer are enqueued, and new messages may have been written.
LEMMA StreamsKeep ==
  ASSUME IInv, WInv, PlaceInv, NEW js \in CallerJobs, NEW payloads, buffer # << >>,
         TakeStreamEvents(payloads), Enqueue(payloads, js), CallsFollow, Ages,
         UNCHANGED <<shut, streams>>, Fresher \subseteq Unsent'
  PROVE  PlaceInv'
  <1>1. /\ payloads \in Seq(Event) /\ Rising(payloads) /\ Range(payloads) \subseteq Range(buffer)
        /\ Range(buffer) \subseteq Range(payloads) \cup folded' /\ folded \subseteq folded'
        /\ buffer' = << >>
        /\ Range(buffer) \subseteq 1..written /\ Range(buffer) \cap InUploader = {}
        /\ \A c \in DOMAIN calls : Range(buffer) \cap Of(c) = {}
    BY PayloadsAre
  <1>2. Range(payloads) \cap InUploader = {} /\ TakenOnce
    BY <1>1 DEF PlaceInv
  <1>3. Passes(payloads) /\ closed' = closed
    BY <1>1, <1>2, EnqueuePasses
  <1>4. CallsCarry(Range(payloads)) /\ Unsent \subseteq Unsent'
    <2>1. Range(payloads) \subseteq 1..written /\ \A c \in DOMAIN calls : Range(payloads) \cap Of(c) = {}
      BY <1>1
    <2> QED BY <2>1, FollowCarries
  <1>5. \A e \in Range(payloads), f \in Range(pushed) : f < e
    BY <1>1 DEF PlaceInv, BufferLast, InUploader, Holds
  <1>6. 1..written \subseteq 1..written' /\ 1..written' = (1..written) \cup Fresher
    BY DEF Ages, Fresher, WInv, TransportTypes
  <1>7. BufferLast'
    BY <1>1, InjectiveNone DEF BufferLast, Rising
  <1>8. Covered'
    <2> SUFFICES ASSUME ~shut', ~closed'
                 PROVE  1..written' \subseteq Range(buffer') \cup folded' \cup InUploader' \cup Unsent'
      BY DEF Covered
    <2>1. 1..written \subseteq Range(buffer) \cup folded \cup InUploader \cup Unsent
      BY <1>3 DEF PlaceInv, Covered
    <2>2. InUploader \cup Range(payloads) \subseteq InUploader'
      BY <1>3 DEF Passes
    <2> QED BY <1>1, <1>4, <1>6, <2>1, <2>2
  <1>9. Range(payloads) \subseteq 1..written'
    BY <1>1, <1>6
  <1> QED BY <1>1, <1>3, <1>4, <1>5, <1>7, <1>8, <1>9, PlacesKept

\* Nothing is enqueued, nothing is buffered, and new messages may have been written.
LEMMA UnsentKeep ==
  ASSUME IInv, WInv, PlaceInv, Passes(<< >>), closed' = closed, buffer = << >>, BufferKept, CallsFollow, Ages,
         UNCHANGED <<shut, streams>>, Fresher \subseteq Unsent'
  PROVE  PlaceInv'
  <1>1. /\ << >> \in Seq(Event) /\ Range(<< >>) = {} /\ Rising(<< >>)
        /\ UNCHANGED <<buffer, folded>>
    BY InjectiveNone DEF Rising, BufferKept
  <1>2. CallsCarry({}) /\ Unsent \subseteq Unsent'
    BY FollowCarries
  <1>3. 1..written' = (1..written) \cup Fresher
    BY DEF Ages, Fresher, WInv, TransportTypes
  <1>4. BufferLast'
    BY <1>1 DEF BufferLast
  <1>5. Covered'
    <2> SUFFICES ASSUME ~shut', ~closed'
                 PROVE  1..written' \subseteq Range(buffer') \cup folded' \cup InUploader' \cup Unsent'
      BY DEF Covered
    <2>1. 1..written \subseteq Range(buffer) \cup folded \cup InUploader \cup Unsent
      BY DEF PlaceInv, Covered
    <2>2. InUploader \subseteq InUploader'
      BY DEF Passes
    <2> QED BY <1>1, <1>2, <1>3, <2>1, <2>2
  <1> QED BY <1>1, <1>2, <1>4, <1>5, PlacesKept

(* The actions keep every event in its place *)

LEMMA RisingJoined ==
  ASSUME NEW s \in Seq(Event), NEW t \in Seq(Event), Rising(s), Rising(t),
         \A e \in Range(s), f \in Range(t) : e < f
  PROVE  Rising(s \o t)
  <1>1. /\ DOMAIN (s \o t) = 1..(Len(s) + Len(t))
        /\ Len(s) \in Nat /\ Len(t) \in Nat /\ DOMAIN s = 1..Len(s) /\ DOMAIN t = 1..Len(t)
    OBVIOUS
  <1>2. \A k \in 1..(Len(s) + Len(t)) :
          \/ k \in 1..Len(s) /\ (s \o t)[k] = s[k] /\ s[k] \in Range(s)
          \/ k > Len(s) /\ k - Len(s) \in 1..Len(t) /\ (s \o t)[k] = t[k - Len(s)] /\ t[k - Len(s)] \in Range(t)
    <2> TAKE k \in 1..(Len(s) + Len(t))
    <2>1. CASE k <= Len(s)
      <3>1. k \in 1..Len(s) /\ (s \o t)[k] = s[k]
        BY <1>1, <2>1
      <3> QED BY <1>1, <3>1 DEF Range
    <2>2. CASE k > Len(s)
      <3>1. k - Len(s) \in 1..Len(t) /\ (s \o t)[k] = t[k - Len(s)]
        BY <1>1, <2>2
      <3> QED BY <1>1, <2>2, <3>1 DEF Range
    <2> QED BY <1>1, <2>1, <2>2
  <1>3. ASSUME NEW i \in 1..(Len(s) + Len(t)), NEW j \in 1..(Len(s) + Len(t)), i < j
        PROVE  (s \o t)[i] < (s \o t)[j]
    <2>1. CASE i \in 1..Len(s) /\ j \in 1..Len(s)
      <3>1. s[i] < s[j]
        BY <1>1, <1>3, <2>1 DEF Rising
      <3> QED BY <1>2, <2>1, <3>1
    <2>2. CASE i \in 1..Len(s) /\ j > Len(s)
      <3>1. (s \o t)[i] = s[i] /\ s[i] \in Range(s)
        BY <1>1, <1>2, <2>2
      <3>2. (s \o t)[j] = t[j - Len(s)] /\ t[j - Len(s)] \in Range(t)
        BY <1>1, <1>2, <2>2
      <3> QED BY <3>1, <3>2
    <2>3. CASE i > Len(s) /\ j > Len(s)
      <3>1. /\ i - Len(s) \in 1..Len(t) /\ (s \o t)[i] = t[i - Len(s)]
            /\ j - Len(s) \in 1..Len(t) /\ (s \o t)[j] = t[j - Len(s)]
        BY <1>1, <1>2, <2>3
      <3>2. i - Len(s) < j - Len(s)
        BY <1>1, <1>3
      <3> QED BY <1>1, <3>1, <3>2 DEF Rising
    <2> QED BY <1>1, <1>3, <2>1, <2>2, <2>3
  <1> QED BY <1>1, <1>3 DEF Rising

LEMMA FreshIs ==
  ASSUME WInv, NEW n \in 1..MaxWrite, MayWrite(n), written' = written + n, kind' = kind, streams' = streams
  PROVE  /\ Fresh(n) \in Seq(Event) /\ Rising(Fresh(n)) /\ Range(Fresh(n)) = Fresher
         /\ Ages /\ 1..written' = (1..written) \cup Fresher /\ Fresher \cap (1..written) = {}
         /\ \A e \in 1..written, f \in Fresher : e < f
  <1>1. written \in Nat /\ n \in Nat
    BY TransportAssumption DEF WInv, TransportTypes
  <1>2. Fresh(n) = [i \in 1..n |-> written + i]
    BY DEF Fresh
  <1>3. Rising(Fresh(n))
    BY <1>1, <1>2 DEF Rising
  <1>4. Range(Fresh(n)) = Fresher
    <2>1. \A i \in 1..n : written + i \in Fresher
      BY <1>1 DEF Fresher
    <2>2. \A e \in Fresher : e - written \in 1..n /\ e = written + (e - written)
      BY <1>1 DEF Fresher
    <2> QED BY <1>2, <2>1, <2>2 DEF Range
  <1>5. Ages
    BY <1>1 DEF Ages
  <1>6. /\ 1..written' = (1..written) \cup Fresher /\ Fresher \cap (1..written) = {}
        /\ \A e \in 1..written, f \in Fresher : e < f
    BY <1>1 DEF Fresher
  <1> QED BY <1>3, <1>4, <1>5, <1>6, FreshTypes

\* A call of write() or writeBatch() begins.
LEMMA FreshFollows ==
  ASSUME WInv, PlaceInv, NEW n \in 1..MaxWrite, MayWrite(n), written' = written + n, kind' = kind,
         streams' = streams, NEW r \in Call, NoteCall(Len(calls) + 1, r), r.items = Fresh(n),
         r.rest = << >> \/ (kind = "ccr" /\ r.rest = Fresh(n))
  PROVE  /\ CallsFollow
         /\ r.rest = Fresh(n) => Fresher \subseteq Unsent'
         /\ r.rest = << >> => \A c \in DOMAIN calls' \ DOMAIN calls : Left(c)' = {}
  <1>1. Len(calls) \in Nat /\ DOMAIN calls = 1..Len(calls)
    BY DEF WInv, TransportTypes
  <1>2. PICK c \in 1..(Len(calls) + 1) : c = Len(calls) + 1
    BY <1>1
  <1>3. c \notin DOMAIN calls /\ NoteCall(c, r)
    BY <1>1, <1>2
  <1>4. /\ DOMAIN calls \subseteq DOMAIN calls' /\ c \in DOMAIN calls' /\ calls'[c] = r
        /\ \A d \in DOMAIN calls' : d = c \/ (d \in DOMAIN calls /\ calls'[d] = calls[d])
    BY <1>3, NoteCallDoes DEF WInv
  <1>5. Rising(Fresh(n)) /\ Range(Fresh(n)) = Fresher /\ Fresher \cap (1..written) = {}
    BY FreshIs
  <1>6. Range(<< >>) = {} /\ Rising(<< >>)
    BY InjectiveNone DEF Rising
  <1>7. Of(c)' = Fresher /\ Left(c)' = Range(r.rest)
    BY <1>4, <1>5 DEF Of, Left
  <1>8. /\ Left(c)' \subseteq Of(c)' /\ (Left(c)' = {} \/ kind = "ccr")
        /\ r.rest = Fresh(n) => Left(c)' = Fresher
        /\ r.rest = << >> => Left(c)' = {}
    BY <1>5, <1>6, <1>7
  <1>9. Rising(calls[c].rest)'
    BY <1>4, <1>5, <1>6
  <1>10. Fresher \subseteq Fresher \ streams'
    BY <1>5 DEF PlaceInv, Known
  <1>11. ASSUME NEW d \in DOMAIN calls'
         PROVE  \/ d \in DOMAIN calls /\ calls'[d].items = calls[d].items /\ calls'[d].rest = calls[d].rest
                \/ /\ d \notin DOMAIN calls /\ Of(d)' \subseteq Fresher \ streams' /\ Left(d)' \subseteq Of(d)'
                   /\ Rising(calls[d].rest)' /\ (Left(d)' = {} \/ kind = "ccr")
    <2>1. CASE d = c
      BY <1>3, <1>7, <1>8, <1>9, <1>10, <2>1
    <2>2. CASE d # c
      BY <1>4, <1>11, <2>2
    <2> QED BY <2>1, <2>2
  <1>12. CallsFollow
    BY <1>4, <1>11 DEF CallsFollow
  <1>13. r.rest = Fresh(n) => Fresher \subseteq Unsent'
    BY <1>4, <1>8 DEF Unsent
  <1>14. r.rest = << >> => \A d \in DOMAIN calls' \ DOMAIN calls : Left(d)' = {}
    BY <1>4, <1>8
  <1> QED BY <1>12, <1>13, <1>14

LEMMA StreamEventPlaces == ASSUME IInv, WInv, PlaceInv, StreamEvent PROVE PlaceInv'
  <1>1. /\ buffer' = Append(buffer, written + 1) /\ written' = written + 1
        /\ streams' = streams \cup {written + 1}
        /\ UNCHANGED <<uploaderVars, kind, calls, shut, folded>>
    BY DEF StreamEvent
  <1>2. written \in Nat /\ buffer \in Seq(Event) /\ Range(buffer) \subseteq streams /\ written + 1 \in Event
    BY DEF WInv, TransportTypes, StreamsBuffered, StreamEvent, MayWrite
  <1>3. /\ Fresher = {written + 1} /\ 1..written' = (1..written) \cup {written + 1}
        /\ \A f \in 1..written : f < written + 1
    BY <1>1, <1>2 DEF Fresher
  <1>4. Ages
    BY <1>1, <1>2, <1>3 DEF Ages
  <1>5. Passes(<< >>) /\ InUploader' = InUploader /\ closed' = closed
    <2>1. UNCHANGED uploaderVars
      BY <1>1
    <2>2. TakenOnce /\ closed' = closed
      BY <2>1 DEF PlaceInv, uploaderVars
    <2> QED BY <2>1, <2>2, NonePassed, OthersTake
  <1>6. << >> \in Seq(Event) /\ Range(<< >>) = {} /\ Rising(<< >>)
    BY InjectiveNone DEF Rising
  <1>7. CallsCarry({})
    BY <1>1, NoneFollows, FollowCarries
  <1>8. Unsent' = Unsent /\ Unsent \subseteq 1..written /\ InUploader \cup streams \subseteq 1..written
    <2>1. Unsent' = Unsent
      BY <1>1 DEF Unsent, Left
    <2>2. \A c \in DOMAIN calls : Left(c) \subseteq 1..written
      BY DEF PlaceInv, Batches, InTurn
    <2> QED BY <2>1, <2>2 DEF Unsent, PlaceInv, Known
  <1>9. /\ DOMAIN buffer' = 1..(Len(buffer) + 1) /\ Len(buffer) \in Nat /\ DOMAIN buffer = 1..Len(buffer)
        /\ \A i \in 1..Len(buffer) : buffer'[i] = buffer[i] /\ buffer[i] \in Range(buffer)
        /\ buffer'[Len(buffer) + 1] = written + 1
        /\ Range(buffer') = Range(buffer) \cup {written + 1}
    <2>1. /\ buffer' \in Seq(Event) /\ Len(buffer') = Len(buffer) + 1 /\ Len(buffer) \in Nat
          /\ \A i \in 1..Len(buffer) : buffer'[i] = buffer[i]
          /\ buffer'[Len(buffer) + 1] = written + 1
          /\ Range(buffer') = Range(buffer) \cup {written + 1}
      BY <1>1, <1>2, AppendedProperties
    <2>2. DOMAIN buffer' = 1..(Len(buffer) + 1) /\ DOMAIN buffer = 1..Len(buffer)
      BY <1>2, <2>1
    <2> QED BY <2>1, <2>2 DEF Range
  <1>10. Rising(buffer')
    <2> SUFFICES ASSUME NEW i \in 1..(Len(buffer) + 1), NEW j \in 1..(Len(buffer) + 1), i < j
                 PROVE  buffer'[i] < buffer'[j]
      BY <1>9 DEF Rising
    <2>1. i \in 1..Len(buffer) /\ buffer'[i] = buffer[i] /\ buffer[i] \in 1..written
      BY <1>2, <1>8, <1>9
    <2>2. CASE j \in 1..Len(buffer)
      BY <1>9, <2>1, <2>2 DEF PlaceInv, BufferLast, Rising
    <2>3. CASE j = Len(buffer) + 1
      BY <1>3, <1>9, <2>1, <2>3
    <2> QED BY <1>9, <2>2, <2>3
  <1>11. BufferLast'
    <2>1. ASSUME NEW e \in Range(buffer'), NEW f \in InUploader' \cup Unsent' PROVE f < e
      <3>1. f \in InUploader \cup Unsent /\ f \in 1..written
        BY <1>5, <1>8, <2>1
      <3>2. CASE e \in Range(buffer)
        BY <3>1, <3>2 DEF PlaceInv, BufferLast
      <3>3. CASE e = written + 1
        BY <1>3, <3>1, <3>3
      <3> QED BY <1>9, <2>1, <3>2, <3>3
    <2> QED BY <1>10, <2>1 DEF BufferLast
  <1>12. Covered'
    BY <1>1, <1>3, <1>5, <1>8, <1>9 DEF PlaceInv, Covered
  <1> QED BY <1>4, <1>5, <1>6, <1>7, <1>11, <1>12, PlacesKept

LEMMA HybridWritePlaces ==
  ASSUME IInv, WInv, PlaceInv, NEW n \in 1..MaxWrite, MayWrite(n), HybridWrite(n), written' = written + n,
         UNCHANGED <<kind, shut, streams>>
  PROVE  PlaceInv'
  <1>1. /\ Fresh(n) \in Seq(Event) /\ Rising(Fresh(n)) /\ Range(Fresh(n)) = Fresher
        /\ Ages /\ 1..written' = (1..written) \cup Fresher /\ Fresher \cap (1..written) = {}
        /\ \A e \in 1..written, f \in Fresher : e < f
    BY FreshIs
  <1>2. TakeStreamEvents(buffer) /\ buffer \in Seq(Event) /\ jobs \in CallerJobs
    BY CallsAreCallers DEF HybridWrite, WInv, TransportTypes
  <1>3. /\ Rising(buffer) /\ folded \subseteq folded' /\ buffer' = << >>
        /\ Range(buffer) \subseteq 1..written /\ Range(buffer) \cap InUploader = {}
        /\ \A c \in DOMAIN calls : Range(buffer) \cap Of(c) = {}
    BY <1>2, PayloadsAre
  <1>4. PICK items : items = buffer \o Fresh(n)
    OBVIOUS
  <1>5. items \in Seq(Event) /\ Range(items) = Range(buffer) \cup Fresher
    BY <1>1, <1>2, <1>4, JoinedProperties
  <1>6. Rising(items)
    <2>1. \A e \in Range(buffer), f \in Range(Fresh(n)) : e < f
      BY <1>1, <1>3
    <2> QED BY <1>1, <1>2, <1>3, <1>4, <2>1, RisingJoined
  <1>7. Enqueue(items, jobs) /\ InUploader \subseteq 1..written /\ TakenOnce
    BY <1>4 DEF HybridWrite, PlaceInv, Known
  <1>8. Range(items) \cap InUploader = {}
    BY <1>1, <1>3, <1>5, <1>7
  <1>9. Passes(items) /\ closed' = closed
    BY <1>2, <1>5, <1>6, <1>7, <1>8, EnqueuePasses
  <1>10. PICK r \in Call : NoteCall(Len(calls) + 1, r) /\ r.items = Fresh(n) /\ r.rest = << >>
    <2>1. ThisOp \in Nat /\ << >> \in Seq(Event)
      BY DEF IInv, UploaderTypeOK, ThisOp
    <2>2. PICK r : r = [NewCall("write", Fresh(n)) EXCEPT !.rest = << >>, !.stage = "queued", !.op = ThisOp]
      OBVIOUS
    <2>3. r \in Call /\ r.items = Fresh(n) /\ r.rest = << >>
      BY <1>1, <2>1, <2>2 DEF NewCall, Call
    <2>4. NoteCall(Len(calls) + 1, r)
      BY <2>2 DEF HybridWrite
    <2> QED BY <2>3, <2>4
  <1>11. CallsFollow /\ \A c \in DOMAIN calls' \ DOMAIN calls : Left(c)' = {}
    BY <1>10, FreshFollows
  <1>12. CallsCarry(Range(items)) /\ Unsent \subseteq Unsent'
    <2>1. \A c \in DOMAIN calls : Of(c) \subseteq 1..written
      BY DEF PlaceInv, Batches, InTurn
    <2>2. \A c \in DOMAIN calls : Range(items) \cap Of(c) = {}
      BY <1>1, <1>3, <1>5, <2>1
    <2> QED BY <1>11, <2>2, FollowCarries
  <1>13. \A e \in Range(items), f \in Range(pushed) : f < e
    <2>1. Range(pushed) \subseteq InUploader
      BY DEF InUploader, Holds
    <2>2. \A e \in Range(buffer), f \in Range(pushed) : f < e
      BY <2>1 DEF PlaceInv, BufferLast
    <2> QED BY <1>1, <1>5, <1>7, <2>1, <2>2
  <1>14. BufferLast'
    BY <1>3, InjectiveNone DEF BufferLast, Rising
  <1>15. Covered'
    <2> SUFFICES ASSUME ~shut', ~closed'
                 PROVE  1..written' \subseteq Range(buffer') \cup folded' \cup InUploader' \cup Unsent'
      BY DEF Covered
    <2>1. 1..written \subseteq Range(buffer) \cup folded \cup InUploader \cup Unsent
      BY <1>9 DEF PlaceInv, Covered
    <2>2. InUploader \cup Range(items) \subseteq InUploader'
      BY <1>9 DEF Passes
    <2> QED BY <1>1, <1>3, <1>5, <1>12, <2>1, <2>2
  <1>16. Range(items) \subseteq 1..written'
    BY <1>1, <1>3, <1>5
  <1> QED BY <1>1, <1>5, <1>6, <1>9, <1>12, <1>13, <1>14, <1>15, <1>16, PlacesKept

LEMMA StartWritePlaces ==
  ASSUME IInv, WInv, PlaceInv, NEW c \in 1..(Len(calls) + 1), NEW r \in Call,
         NEW js \in CallerJobs, StartWrite(c, r, js), UNCHANGED <<kind, shut, streams>>, Ages,
         \A q \in Call : NoteCall(c, q) /\ q.items = r.items /\ q.rest = r.rest
                           => CallsFollow /\ Fresher \subseteq Unsent'
  PROVE  PlaceInv'
  <1>1. c \in Nat /\ ThisOp \in Nat /\ TakenOnce
    BY DEF IInv, UploaderTypeOK, ThisOp, PlaceInv, WInv, TransportTypes
  <1>2. CASE buffer = << >>
    <2>1. PICK q : q = [r EXCEPT !.stage = "write"]
      OBVIOUS
    <2>2. jobs' = Append(js, JobOf("tick", c)) /\ NoteCall(c, q) /\ UploaderIdle /\ BufferKept
      BY <1>2, <2>1 DEF StartWrite
    <2>3. q \in Call /\ q.items = r.items /\ q.rest = r.rest
      BY <2>1 DEF Call
    <2>4. CallsFollow /\ Fresher \subseteq Unsent'
      BY <2>2, <2>3
    <2>5. Passes(<< >>)
      BY <1>1, <2>2, NonePassed
    <2>6. closed' = closed
      BY <2>2 DEF UploaderIdle
    <2> QED BY <1>2, <2>2, <2>4, <2>5, <2>6, UnsentKeep
  <1>3. CASE buffer # << >>
    <2>1. PICK q : q = [r EXCEPT !.stage = "streamed", !.op = ThisOp]
      OBVIOUS
    <2>2. NoteCall(c, q)
      BY <1>3, <2>1 DEF StartWrite
    <2>3. PICK payloads : TakeStreamEvents(payloads) /\ Enqueue(payloads, js)
      BY <1>3 DEF StartWrite
    <2>4. q \in Call /\ q.items = r.items /\ q.rest = r.rest
      BY <1>1, <2>1 DEF Call
    <2>5. CallsFollow /\ Fresher \subseteq Unsent'
      BY <2>2, <2>4
    <2> QED BY <1>3, <2>3, <2>5, StreamsKeep
  <1> QED BY <1>2, <1>3

LEMMA WritePlaces == ASSUME IInv, WInv, PlaceInv, Write PROVE PlaceInv'
  <1>1. PICK n \in 1..MaxWrite :
          /\ MayWrite(n)
          /\ HybridWrite(n) \/ \E what \in {"write", "batch"} : CcrWrite(what, n)
          /\ written' = written + n
    BY DEF Write
  <1>2. UNCHANGED <<kind, shut, streams>>
    BY DEF Write
  <1>3. CASE HybridWrite(n)
    BY <1>1, <1>2, <1>3, HybridWritePlaces
  <1>4. ASSUME NEW what \in {"write", "batch"}, CcrWrite(what, n) PROVE PlaceInv'
    <2>1. Fresh(n) \in Seq(Event) /\ Ages
      BY <1>1, <1>2, FreshIs
    <2>2. PICK r \in Call : r = NewCall(what, Fresh(n)) /\ r.items = Fresh(n) /\ r.rest = Fresh(n)
      <3>1. /\ NewCall(what, Fresh(n)) \in Call /\ NewCall(what, Fresh(n)).rest = Fresh(n)
            /\ NewCall(what, Fresh(n)).items = Fresh(n)
        BY <2>1 DEF NewCall, Call
      <3> QED BY <3>1
    <2>3. PICK c \in 1..(Len(calls) + 1) : c = Len(calls) + 1
      <3>1. Len(calls) \in Nat
        BY DEF WInv, TransportTypes
      <3> QED BY <3>1
    <2>4. StartWrite(c, r, jobs) /\ kind = "ccr"
      BY <1>4, <2>2, <2>3 DEF CcrWrite
    <2>5. ASSUME NEW q \in Call, NoteCall(c, q), q.items = r.items, q.rest = r.rest
          PROVE  CallsFollow /\ Fresher \subseteq Unsent'
      <3>1. NoteCall(Len(calls) + 1, q) /\ q.items = Fresh(n) /\ q.rest = Fresh(n)
        BY <2>2, <2>3, <2>5
      <3> QED BY <1>1, <1>2, <2>4, <3>1, FreshFollows
    <2> QED BY <1>2, <2>1, <2>4, <2>5, CallsAreCallers, StartWritePlaces
  <1> QED BY <1>1, <1>3, <1>4

LEMMA TimerFiresPlaces == ASSUME IInv, WInv, PlaceInv, TimerFires PROVE PlaceInv'
  <1>1. PICK payloads : TakeStreamEvents(payloads) /\ Enqueue(payloads, jobs)
    BY DEF TimerFires
  <1>2. buffer # << >> /\ UNCHANGED <<kind, calls, shut, written, streams>>
    BY DEF TimerFires, WInv, TimerSet
  <1>3. Fresher = {} /\ Ages
    BY <1>2 DEF Ages, Fresher, WInv, TransportTypes
  <1> QED BY <1>1, <1>2, <1>3, CallsAreCallers, NoneFollows, StreamsKeep

LEMMA ClosedForGood ==
  /\ \A js : Flush(js) \/ Close(js) => (closed => closed')
  /\ \A js : Close(js) => closed'
  /\ UploaderIdle \/ Recheck \/ LandLate => closed' = closed
  /\ \A l : Deliver(l) \/ Refuse(l) \/ Drop(l) \/ Retry(l) \/ SleepEnds(l) \/ Wake(l) => closed' = closed
  /\ \A l : Superseded(l) => closed'
  BY DEF Flush, Close, UploaderIdle, Recheck, LandLate, Deliver, Refuse, Drop, Retry, Superseded,
     SleepEnds, Wake, BatchDone

LEMMA CloseTransportPlaces == ASSUME IInv, WInv, PlaceInv, CloseTransport PROVE PlaceInv'
  <1>1. shut' = TRUE /\ buffer' = << >> /\ UNCHANGED <<kind, written, streams, folded>>
    BY DEF CloseTransport
  <1>2. (Flush(jobs) \/ Close(jobs)) /\ CallsFollow
    <2>1. CASE kind = "hybrid"
      <3>1. PICK r : r = [NewCall("close", <<>>) EXCEPT !.stage = "flushing", !.op = ThisOp]
        OBVIOUS
      <3>2. r \in Call /\ r.items = << >> /\ r.rest = << >>
        <4>1. << >> \in Seq(Event) /\ ThisOp \in Nat
          BY DEF IInv, UploaderTypeOK, ThisOp
        <4> QED BY <3>1, <4>1 DEF NewCall, Call
      <3>3. Flush(jobs) /\ NoteCall(Len(calls) + 1, r)
        BY <2>1, <3>1 DEF CloseTransport
      <3>4. PICK c \in 1..(Len(calls) + 1) : c = Len(calls) + 1 /\ c \notin DOMAIN calls
        BY DEF WInv, TransportTypes
      <3> QED BY <3>2, <3>3, <3>4, NotedFollows
    <2>2. CASE kind # "hybrid"
      <3>1. Close(jobs) /\ UNCHANGED calls
        BY <2>2 DEF CloseTransport
      <3> QED BY <3>1, NoneFollows
    <2> QED BY <2>1, <2>2
  <1>3. Passes(<< >>)
    BY <1>2, CallsAreCallers, NonePassed DEF PlaceInv
  <1>4. closed => closed'
    BY <1>2, ClosedForGood
  <1> QED BY <1>1, <1>2, <1>3, <1>4, CalmKeeps

LEMMA NetworkPlaces ==
  ASSUME IInv, WInv, PlaceInv, Answer \/ PauseOver \/ WokenLoop \/ WokenCall \/ Landing \/ GraceOver
  PROVE  PlaceInv'
  <1>1. UNCHANGED <<kind, buffer, timer, calls, shut, written, streams, folded>>
    BY DEF Answer, PauseOver, WokenLoop, WokenCall, Landing, GraceOver, Kept, transportVars
  <1>2. \/ Recheck \/ LandLate
        \/ Close(jobs)
        \/ \E l \in loops : Deliver(l) \/ Refuse(l) \/ Drop(l) \/ Retry(l) \/ SleepEnds(l) \/ Wake(l)
    BY DEF Answer, PauseOver, WokenLoop, WokenCall, Landing, GraceOver, Sending
  <1>3. Passes(<< >>)
    BY <1>2, CallsAreCallers, NonePassed DEF PlaceInv
  <1>4. closed => closed'
    BY <1>2, ClosedForGood
  <1> QED BY <1>1, <1>3, <1>4, NoneFollows, CalmKeeps

LEMMA OvertakenPlaces == ASSUME IInv, WInv, PlaceInv, Overtaken PROVE PlaceInv'
  <1>1. buffer' = << >> /\ UNCHANGED <<kind, calls, shut, written, streams, folded>>
    BY DEF Overtaken
  <1>2. Close(jobs) \/ \E l \in loops : Superseded(l)
    BY DEF Overtaken, Sending
  <1>3. Passes(<< >>)
    BY <1>2, CallsAreCallers, NonePassed DEF PlaceInv
  <1>4. closed'
    BY <1>2, ClosedForGood
  <1> QED BY <1>1, <1>3, <1>4, NoneFollows, CalmKeeps

\* ccr: a message is enqueued.
LEMMA MessagePlaces ==
  ASSUME IInv, WInv, PlaceInv, NEW c \in DOMAIN calls, NEW r \in Call, r = calls[c], r.rest # << >>,
         NEW js \in CallerJobs, Enqueue(<<Head(r.rest)>>, js), BufferKept,
         NoteCall(c, [r EXCEPT !.stage = "wrote", !.rest = Tail(r.rest), !.op = ThisOp]),
         UNCHANGED <<kind, shut, written, streams>>
  PROVE  PlaceInv'
  <1>1. /\ written \in Nat /\ ThisOp \in Nat /\ TakenOnce /\ r.rest \in Seq(Event) /\ Event \subseteq Nat
        /\ c \in 1..(Len(calls) + 1)
    <2>1. r.rest \in Seq(Event)
      BY DEF Call
    <2>2. written \in Nat /\ calls \in Seq(Call)
      BY DEF WInv, TransportTypes
    <2>3. c \in 1..(Len(calls) + 1)
      BY <2>2
    <2>4. ThisOp \in Nat /\ TakenOnce
      BY DEF IInv, UploaderTypeOK, ThisOp, PlaceInv
    <2>5. Event \subseteq Nat
      BY TransportAssumption
    <2> QED BY <2>1, <2>2, <2>3, <2>4, <2>5
  <1>2. PICK e, x : e = Head(r.rest) /\ x = <<e>>
    OBVIOUS
  <1>3. e \in Event /\ Tail(r.rest) \in Seq(Event) /\ Range(Tail(r.rest)) \subseteq Left(c) /\ e \in Left(c)
    BY <1>1, <1>2, TailProperties DEF Left
  <1>4. x \in Seq(Event) /\ Range(x) = {e} /\ Rising(x)
    <2>1. x \in Seq(Event) /\ DOMAIN x = {1}
      BY <1>2, <1>3
    <2> QED BY <1>2, <2>1, InjectiveOne DEF Rising
  <1>5. /\ InTurn(c) /\ \A d \in DOMAIN calls : d # c => Of(c) \cap Of(d) = {}
        /\ Rising(calls[c].rest) /\ Left(c) \subseteq Of(c) /\ kind = "ccr"
        /\ Of(c) \subseteq (1..written) \ streams
        /\ \A a \in Left(c), f \in InUploader \cap Of(c) : f < a
    BY <1>3 DEF PlaceInv, Batches, InTurn
  <1>6. Rising(Tail(r.rest)) /\ \A a \in Range(Tail(r.rest)) : e < a
    <2>1. /\ DOMAIN r.rest = 1..Len(r.rest) /\ Len(r.rest) \in Nat /\ Len(r.rest) >= 1
          /\ DOMAIN Tail(r.rest) = 1..(Len(r.rest) - 1)
          /\ \A i \in 1..(Len(r.rest) - 1) : Tail(r.rest)[i] = r.rest[i + 1]
          /\ e = r.rest[1]
      BY <1>1, <1>2
    <2>2. \A i, j \in 1..Len(r.rest) : i < j => r.rest[i] < r.rest[j]
      BY <1>5, <2>1 DEF Rising
    <2>3. \A i \in 1..(Len(r.rest) - 1) : i + 1 \in 1..Len(r.rest) /\ 1 < i + 1 /\ 1 \in 1..Len(r.rest)
      BY <2>1
    <2>4. \A i \in 1..(Len(r.rest) - 1) : e < Tail(r.rest)[i]
      BY <2>1, <2>2, <2>3
    <2>5. \A a \in Range(Tail(r.rest)) : e < a
      BY <2>1, <2>4 DEF Range
    <2>6. \A i, j \in 1..(Len(r.rest) - 1) : i < j => i + 1 < j + 1
      BY <2>1
    <2>7. \A i, j \in 1..(Len(r.rest) - 1) : i < j => Tail(r.rest)[i] < Tail(r.rest)[j]
      BY <2>1, <2>2, <2>3, <2>6
    <2>8. Rising(Tail(r.rest))
      BY <2>1, <2>7 DEF Rising
    <2> QED BY <2>5, <2>8
  <1>7. e \notin InUploader
    <2>1. e \in Of(c) /\ e \in Nat /\ ~(e < e)
      BY <1>1, <1>3, <1>5
    <2> QED BY <1>3, <1>5, <2>1
  <1>8. Enqueue(x, js)
    BY <1>2
  <1>9. Passes(x) /\ closed' = closed
    BY <1>1, <1>4, <1>7, <1>8, EnqueuePasses
  <1>10. PICK q \in Call : NoteCall(c, q) /\ q.items = r.items /\ q.rest = Tail(r.rest)
    <2>1. PICK q : q = [r EXCEPT !.stage = "wrote", !.rest = Tail(r.rest), !.op = ThisOp]
      OBVIOUS
    <2>2. q \in Call
      BY <1>1, <1>3, <2>1 DEF Call
    <2>3. q.items = r.items /\ q.rest = Tail(r.rest)
      BY <2>1 DEF Call
    <2> QED BY <2>1, <2>2, <2>3
  <1>11. /\ DOMAIN calls \subseteq DOMAIN calls' /\ c \in DOMAIN calls' /\ calls'[c] = q
         /\ \A d \in DOMAIN calls' : d = c \/ (d \in DOMAIN calls /\ calls'[d] = calls[d])
    BY <1>1, <1>10, NoteCallDoes DEF WInv
  <1>12. /\ Of(c)' = Of(c) /\ Left(c)' = Range(Tail(r.rest)) /\ Rising(calls[c].rest)'
         /\ \A d \in DOMAIN calls' : d # c => d \in DOMAIN calls /\ Of(d)' = Of(d) /\ Left(d)' = Left(d)
    BY <1>6, <1>10, <1>11 DEF Of, Left
  <1>13. CallsCarry({e})
    <2>1. ASSUME NEW d \in DOMAIN calls' PROVE Carries(d, {e})
      <3>1. CASE d = c
        <4>1. Left(c)' \subseteq Left(c) /\ \A a \in Left(c)', f \in {e} \cap Of(c) : f < a
          BY <1>3, <1>6, <1>12
        <4> QED BY <1>12, <3>1, <4>1 DEF Carries
      <3>2. CASE d # c
        <4>1. d \in DOMAIN calls /\ Of(d)' = Of(d) /\ Left(d)' = Left(d) /\ calls'[d] = calls[d]
          BY <1>11, <1>12, <2>1, <3>2
        <4>2. Rising(calls[d].rest)' /\ e \notin Of(d)
          BY <1>3, <1>5, <3>2, <4>1 DEF PlaceInv, Batches, InTurn
        <4> QED BY <4>1, <4>2 DEF Carries
      <3> QED BY <3>1, <3>2
    <2>2. DOMAIN calls' \ DOMAIN calls = {}
      BY <1>12
    <2> QED BY <2>1, <2>2 DEF CallsCarry
  <1>14. Fresher = {} /\ Ages
    BY <1>1 DEF Ages, Fresher
  <1>15. \A f \in Range(pushed) : f < e \/ Excused(f, e)'
    <2> SUFFICES ASSUME NEW f \in Range(pushed), ~(f < e) PROVE Excused(f, e)'
      OBVIOUS
    <2>1. ASSUME SameCall(f, e)' PROVE FALSE
      <3>1. PICK d \in DOMAIN calls' : f \in Of(d)' /\ e \in Of(d)'
        BY <2>1 DEF SameCall, Of
      <3>2. d = c /\ f \in Of(c)
        BY <1>3, <1>5, <1>12, <3>1
      <3>3. f \in InUploader
        BY DEF InUploader, Holds
      <3> QED BY <1>3, <1>5, <3>2, <3>3
    <2>2. kind' = "ccr" /\ e \notin streams'
      BY <1>3, <1>5
    <2> QED BY <2>1, <2>2 DEF Excused
  <1>16. Unsent = Unsent' \cup {e} /\ e \in Unsent
    <2>1. Left(c) \subseteq Left(c)' \cup {e}
      <3>1. \A i \in 1..Len(r.rest) : r.rest[i] \in Range(Tail(r.rest)) \cup {e}
        <4> TAKE i \in 1..Len(r.rest)
        <4>1. CASE i = 1
          BY <1>1, <1>2, <4>1
        <4>2. CASE i # 1
          <5>1. /\ i - 1 \in 1..(Len(r.rest) - 1) /\ Tail(r.rest)[i - 1] = r.rest[(i - 1) + 1]
                /\ DOMAIN Tail(r.rest) = 1..(Len(r.rest) - 1) /\ (i - 1) + 1 = i
            BY <1>1, <4>2
          <5> QED BY <5>1 DEF Range
        <4> QED BY <4>1, <4>2
      <3>2. DOMAIN r.rest = 1..Len(r.rest)
        BY <1>1
      <3> QED BY <1>12, <3>1, <3>2 DEF Left, Range
    <2>2. Unsent' \cup {e} \subseteq Unsent
      BY <1>3, <1>11, <1>12 DEF Unsent
    <2>3. Unsent \subseteq Unsent' \cup {e}
      BY <1>11, <1>12, <2>1 DEF Unsent
    <2> QED BY <1>3, <2>2, <2>3 DEF Unsent
  <1>17. buffer' = buffer /\ folded' = folded /\ InUploader' \subseteq InUploader \cup {e}
    BY <1>4, <1>9 DEF BufferKept, Passes
  <1>18. BufferLast'
    BY <1>16, <1>17 DEF PlaceInv, BufferLast
  <1>19. Covered'
    <2> SUFFICES ASSUME ~shut', ~closed'
                 PROVE  1..written' \subseteq Range(buffer') \cup folded' \cup InUploader' \cup Unsent'
      BY DEF Covered
    <2>1. 1..written \subseteq Range(buffer) \cup folded \cup InUploader \cup Unsent
      BY <1>9 DEF PlaceInv, Covered
    <2>2. InUploader \cup {e} \subseteq InUploader'
      BY <1>4, <1>9 DEF Passes
    <2> QED BY <1>16, <1>17, <2>1, <2>2
  <1>20. {e} \subseteq 1..written'
    BY <1>3, <1>5
  <1> QED BY <1>4, <1>9, <1>13, <1>14, <1>15, <1>18, <1>19, <1>20, PlacesKept

\* ccr: a call goes on after one turn of the job queue.
LEMMA TickPlaces == ASSUME IInv, WInv, PlaceInv, Tick PROVE PlaceInv'
  <1>1. jobs # << >> /\ Head(jobs).kind = "tick" /\ UNCHANGED <<kind, shut, written, streams>>
    BY DEF Tick
  <1>2. UploaderTypeOK /\ TakenOnce
    BY DEF IInv, PlaceInv
  <1>3. PICK js \in CallerJobs : js = Tail(jobs)
    BY <1>1, <1>2, TicksTail
  <1>4. calls \in Seq(Call) /\ DOMAIN calls = 1..Len(calls) /\ Len(calls) \in Nat /\ written \in Nat
    BY DEF WInv, TransportTypes
  <1>5. PICK c \in DOMAIN calls : c = Head(jobs).id
    BY <1>1, <1>2, TicksTail DEF WInv, TicksNamed
  <1>6. PICK r \in Call : r = calls[c]
    BY <1>4, <1>5
  <1>7. c \in 1..(Len(calls) + 1)
    BY <1>4, <1>5
  <1>8. \/ /\ r.stage = "write"
           /\ Enqueue(<<Head(r.rest)>>, js)
           /\ NoteCall(c, [r EXCEPT !.stage = "wrote", !.rest = Tail(r.rest), !.op = ThisOp])
           /\ BufferKept
        \/ r.stage = "next" /\ r.rest # << >> /\ StartWrite(c, r, js)
        \/ /\ jobs' = js
           /\ NoteCall(c, [r EXCEPT !.stage = "done"])
           /\ UploaderIdle
           /\ BufferKept
    BY <1>3, <1>5, <1>6 DEF Tick
  <1>9. CASE /\ r.stage = "write"
             /\ Enqueue(<<Head(r.rest)>>, js)
             /\ NoteCall(c, [r EXCEPT !.stage = "wrote", !.rest = Tail(r.rest), !.op = ThisOp])
             /\ BufferKept
    <2>1. calls[c].stage = "write"
      BY <1>6, <1>9
    <2>2. calls[c].rest # << >>
      BY <2>1 DEF WInv, StillToWrite
    <2> QED BY <1>1, <1>6, <1>9, <2>2, MessagePlaces
  <1>10. CASE r.stage = "next" /\ r.rest # << >> /\ StartWrite(c, r, js)
    <2>1. Fresher = {} /\ Ages
      BY <1>1, <1>4 DEF Ages, Fresher
    <2>2. ASSUME NEW q \in Call, NoteCall(c, q), q.items = r.items, q.rest = r.rest
          PROVE  CallsFollow /\ Fresher \subseteq Unsent'
      BY <1>6, <1>7, <2>1, <2>2, NotedFollows
    <2> QED BY <1>1, <1>7, <1>10, <2>1, <2>2, StartWritePlaces
  <1>11. CASE /\ jobs' = js
              /\ NoteCall(c, [r EXCEPT !.stage = "done"])
              /\ UploaderIdle
              /\ BufferKept
    <2>1. PICK q \in Call : NoteCall(c, q) /\ q.items = r.items /\ q.rest = r.rest
      <3>1. PICK q : q = [r EXCEPT !.stage = "done"]
        OBVIOUS
      <3>2. q \in Call /\ q.items = r.items /\ q.rest = r.rest
        BY <3>1 DEF Call
      <3> QED BY <1>11, <3>1, <3>2
    <2>2. CallsFollow
      BY <1>6, <1>7, <2>1, NotedFollows
    <2>3. Passes(<< >>)
      BY <1>2, <1>11, NonePassed
    <2>4. closed' = closed
      BY <1>11, ClosedForGood
    <2>5. UNCHANGED <<kind, written, streams, folded, shut, buffer>>
      BY <1>1, <1>11 DEF BufferKept
    <2> QED BY <2>2, <2>3, <2>4, <2>5, CalmKeeps
  <1> QED BY <1>8, <1>9, <1>10, <1>11

LEMMA ResumedPlaces ==
  ASSUME IInv, WInv, PlaceInv, jobs # << >>, Head(jobs).kind = "resume",
         NEW c \in DOMAIN calls, Resumed(c), BufferKept, UNCHANGED <<kind, shut, written, streams>>
  PROVE  PlaceInv'
  <1>1. UploaderTypeOK /\ TakenOnce
    BY DEF IInv, PlaceInv
  <1>2. PICK js \in CallerJobs : js = Tail(jobs)
    BY <1>1, TicksTail
  <1>3. calls \in Seq(Call) /\ DOMAIN calls = 1..Len(calls) /\ Len(calls) \in Nat /\ ThisOp \in Nat
    BY <1>1 DEF WInv, TransportTypes, UploaderTypeOK, ThisOp
  <1>4. c \in 1..(Len(calls) + 1) /\ c \in Nat
    BY <1>3
  <1>5. PICK r \in Call : r = calls[c]
    BY <1>3
  <1>6. \E stage \in {"flushing", "write", "next", "done"}, op \in {r.op, ThisOp} :
          NoteCall(c, [r EXCEPT !.stage = stage, !.op = op])
    <2>1. \A stage : [r EXCEPT !.stage = stage] = [r EXCEPT !.stage = stage, !.op = r.op]
      BY DEF Call
    <2>2. \/ NoteCall(c, [r EXCEPT !.stage = "flushing", !.op = ThisOp])
          \/ \E stage \in {"write", "next", "done"} : NoteCall(c, [r EXCEPT !.stage = stage])
      BY <1>5 DEF Resumed
    <2> QED BY <2>1, <2>2
  <1>7. PICK q \in Call : NoteCall(c, q) /\ q.items = r.items /\ q.rest = r.rest
    <2>1. PICK stage \in {"flushing", "write", "next", "done"}, op \in {r.op, ThisOp} :
            NoteCall(c, [r EXCEPT !.stage = stage, !.op = op])
      BY <1>6
    <2>2. PICK q : q = [r EXCEPT !.stage = stage, !.op = op]
      OBVIOUS
    <2>3. op \in Nat
      BY <1>3 DEF Call
    <2>4. q \in Call /\ q.items = r.items /\ q.rest = r.rest
      BY <2>2, <2>3 DEF Call
    <2> QED BY <2>1, <2>2, <2>4
  <1>8. \/ Flush(js) \/ Close(js)
        \/ UploaderIdle /\ (jobs' = js \/ jobs' = Append(js, JobOf("tick", c)))
    BY <1>2 DEF Resumed
  <1>9. CallsFollow
    BY <1>4, <1>5, <1>7, NotedFollows
  <1>10. Passes(<< >>)
    BY <1>1, <1>4, <1>8, NonePassed
  <1>11. closed => closed'
    BY <1>8, ClosedForGood
  <1>12. UNCHANGED <<kind, written, streams, folded, shut, buffer>>
    BY DEF BufferKept
  <1> QED BY <1>9, <1>10, <1>11, <1>12, CalmKeeps

LEMMA ResumePlaces == ASSUME IInv, WInv, PlaceInv, Resume PROVE PlaceInv'
  <1>1. /\ jobs # << >> /\ Head(jobs).kind = "resume" /\ BufferKept
        /\ UNCHANGED <<kind, shut, written, streams>>
    BY DEF Resume
  <1>2. ASSUME NEW c \in DOMAIN calls, Resumed(c) PROVE PlaceInv'
    BY <1>1, <1>2, ResumedPlaces
  <1>3. CASE jobs' = Tail(jobs) /\ UploaderIdle /\ UNCHANGED calls
    <2>1. UploaderTypeOK /\ TakenOnce
      BY DEF IInv, PlaceInv
    <2>2. Tail(jobs) \in CallerJobs
      BY <1>1, <2>1, TicksTail
    <2>3. Passes(<< >>)
      BY <1>3, <2>1, <2>2, NonePassed
    <2>4. closed' = closed
      BY <1>3, ClosedForGood
    <2>5. UNCHANGED <<kind, written, streams, folded, shut, buffer>>
      BY <1>1 DEF BufferKept
    <2> QED BY <1>3, <2>3, <2>4, <2>5, NoneFollows, CalmKeeps
  <1> QED BY <1>2, <1>3 DEF Resume

LEMMA PlacesStart == ASSUME Init PROVE PlaceInv
  <1>1. /\ jobs = << >> /\ blocked = << >> /\ pushed = << >> /\ buffer = << >> /\ calls = << >>
        /\ written = 0 /\ streams = {} /\ folded = {}
    BY DEF Init, UploaderInit
  <1>2. Range(<< >>) = {} /\ DOMAIN << >> = {} /\ IsInjective(<< >>)
    BY InjectiveNone
  <1>3. Rechecks(jobs) = {}
    BY <1>1, <1>2 DEF Rechecks
  <1>4. Asking = {}
    BY <1>1, <1>2, <1>3 DEF Asking
  <1>5. LookOnce(jobs, blocked)
    BY <1>1, <1>2, <1>3 DEF LookOnce, Singly
  <1>6. TakenOnce /\ InUploader = {}
    BY <1>1, <1>2, <1>4, <1>5 DEF TakenOnce, InUploader, Holds, Clear
  <1>7. Known
    BY <1>1, <1>6 DEF Known
  <1>8. BufferLast
    BY <1>1, <1>2 DEF BufferLast, Rising
  <1>9. Batches
    BY <1>1, <1>2 DEF Batches
  <1>10. Covered
    BY <1>1 DEF Covered
  <1>11. QueuedInOrder
    BY <1>1, <1>2 DEF QueuedInOrder
  <1> QED BY <1>6, <1>7, <1>8, <1>9, <1>10, <1>11 DEF PlaceInv

LEMMA PlacesStay == ASSUME IInv, WInv, PlaceInv, [Next]_vars PROVE PlaceInv'
  <1>1. CASE Next
    BY <1>1, StreamEventPlaces, WritePlaces, TimerFiresPlaces, CloseTransportPlaces, NetworkPlaces,
       OvertakenPlaces, TickPlaces, ResumePlaces DEF Next, RunJob
  <1>2. CASE UNCHANGED vars
    <2>1. UNCHANGED uploaderVars /\ UNCHANGED transportVars
      BY <1>2 DEF vars
    <2>2. TakenOnce
      BY DEF PlaceInv
    <2>3. Passes(<< >>)
      BY <2>1, <2>2, NonePassed
    <2>4. UNCHANGED <<kind, written, streams, folded, shut, buffer, calls, closed>>
      BY <2>1 DEF uploaderVars, transportVars
    <2> QED BY <2>3, <2>4, NoneFollows, CalmKeeps
  <1> QED BY <1>1, <1>2

LEMMA PlaceInvariance == Spec => [](IInv /\ WInv /\ PlaceInv)
  <1>1. Init => PlaceInv
    BY PlacesStart
  <1>2. IInv /\ WInv /\ PlaceInv /\ [Next]_vars => PlaceInv'
    BY PlacesStay
  <1> QED BY <1>1, <1>2, TransportInvariance, PTL DEF Spec

\* No event of an open transport goes missing before it is queued, and none is queued twice: the
\* buffer, the calls under way, the enqueue() calls that wait for room and the queue have it all.
THEOREM NothingMissing == Spec => []EventsAccounted
  <1>1. PlaceInv => EventsAccounted
    <2> SUFFICES ASSUME PlaceInv PROVE EventsAccounted
      OBVIOUS
    <2>1. Asking \subseteq Waiting
      BY DEF Asking, Waiting, Rechecks
    <2>2. Unsent = UNION { Range(calls[c].rest) : c \in DOMAIN calls }
      BY DEF Unsent, Left
    <2>3. InUploader \subseteq Range(pushed) \cup (UNION { Range(ops[o].items) : o \in Waiting })
      BY <2>1 DEF InUploader, Holds, Taker
    <2>4. ~shut /\ ~closed => 1..written \subseteq Range(buffer) \cup folded \cup InUploader \cup Unsent
      BY DEF PlaceInv, Covered
    <2>5. \A p, q \in DOMAIN pushed : pushed[p] = pushed[q] => p = q
      BY DEF PlaceInv, TakenOnce, IsInjective
    <2> QED BY <2>2, <2>3, <2>4, <2>5 DEF EventsAccounted
  <1> QED BY <1>1, PlaceInvariance, PTL

\* Events are queued in the order in which they were written, but for those whose enqueue() had
\* to wait for room, and for messages of different calls of the v2 transport.
THEOREM KeepsOrder == Spec => []QueuedInOrder
  <1>1. PlaceInv => QueuedInOrder
    BY DEF PlaceInv
  <1> QED BY <1>1, PlaceInvariance, PTL
=============================================================================
