------------------------ MODULE EventUploaderProofs -------------------------
(* Proofs about EventUploader for any events, any configurations and the most *)
(* general callers.                                                            *)
EXTENDS EventUploader, SequenceTheorems, TLAPS

(* Sequences *)

LEMMA JoinedProperties ==
  ASSUME NEW S, NEW s \in Seq(S), NEW t \in Seq(S)
  PROVE  /\ s \o t \in Seq(S) /\ Len(s \o t) = Len(s) + Len(t)
         /\ \A i \in 1..Len(s) : (s \o t)[i] = s[i]
         /\ \A i \in 1..Len(t) : (s \o t)[Len(s) + i] = t[i]
         /\ Range(s \o t) = Range(s) \cup Range(t)
  <1>1. /\ s \o t \in Seq(S) /\ Len(s \o t) = Len(s) + Len(t)
        /\ \A i \in 1..Len(s) : (s \o t)[i] = s[i]
        /\ \A i \in 1..Len(t) : (s \o t)[Len(s) + i] = t[i]
    OBVIOUS
  <1>2. Range(s \o t) = Range(s) \cup Range(t)
    BY RangeConcatenation
  <1> QED BY <1>1, <1>2

LEMMA AppendedProperties ==
  ASSUME NEW S, NEW s \in Seq(S), NEW e \in S
  PROVE  /\ Append(s, e) \in Seq(S) /\ Len(Append(s, e)) = Len(s) + 1
         /\ \A i \in 1..Len(s) : Append(s, e)[i] = s[i]
         /\ Append(s, e)[Len(s) + 1] = e
         /\ Range(Append(s, e)) = Range(s) \cup {e}
  <1>1. /\ Append(s, e) \in Seq(S) /\ Len(Append(s, e)) = Len(s) + 1
        /\ \A i \in 1..Len(s) : Append(s, e)[i] = s[i]
        /\ Append(s, e)[Len(s) + 1] = e
    OBVIOUS
  <1>2. Range(Append(s, e)) = Range(s) \cup {e}
    BY <1>1 DEF Range
  <1> QED BY <1>1, <1>2

LEMMA TailProperties ==
  ASSUME NEW S, NEW s \in Seq(S), s # << >>
  PROVE  /\ Head(s) \in S /\ Tail(s) \in Seq(S)
         /\ Head(s) \in Range(s) /\ Range(Tail(s)) \subseteq Range(s)
  <1>1. Head(s) \in S /\ Tail(s) \in Seq(S) /\ Head(s) = s[1] /\ Len(s) \in Nat /\ 1 <= Len(s)
    OBVIOUS
  <1>2. \A i \in 1..Len(Tail(s)) : Tail(s)[i] = s[i + 1] /\ i + 1 \in 1..Len(s)
    OBVIOUS
  <1> QED BY <1>1, <1>2 DEF Range

\* A longer sequence of operations names every earlier one.
LEMMA SameIds ==
  ASSUME NEW s \in Seq(Op), NEW e \in Op, NEW ids \in Seq(DOMAIN s)
  PROVE  ids \in Seq(DOMAIN Append(s, e)) /\ Append(ids, Len(s) + 1) \in Seq(DOMAIN Append(s, e))
  <1>1. DOMAIN s = 1..Len(s) /\ DOMAIN Append(s, e) = 1..(Len(s) + 1) /\ Len(s) \in Nat
    OBVIOUS
  <1>2. ids \in Seq(1..(Len(s) + 1))
    BY <1>1, SeqMonotonic
  <1> QED BY <1>1, <1>2

LEMMA JobsOfProperties ==
  ASSUME NEW kind \in {"recheck", "resume", "wake", "tick"}, NEW n \in Nat, NEW ids \in Seq(1..n)
  PROVE  /\ JobsOf(kind, ids) \in Seq(Job)
         /\ \A j \in Range(JobsOf(kind, ids)) : j.kind = kind /\ j.id \in Range(ids)
  <1>1. Len(ids) \in Nat /\ DOMAIN ids = 1..Len(ids) /\ \A i \in 1..Len(ids) : ids[i] \in Nat
    OBVIOUS
  <1>2. JobsOf(kind, ids) = [i \in 1..Len(ids) |-> [kind |-> kind, id |-> ids[i]]]
    BY <1>1 DEF JobsOf
  <1>3. JobsOf(kind, ids) \in Seq(Job)
    BY <1>1, <1>2 DEF Job
  <1>4. \A j \in Range(JobsOf(kind, ids)) : j.kind = kind /\ j.id \in Range(ids)
    BY <1>1, <1>2 DEF Range
  <1> QED BY <1>3, <1>4

(* The queue *)

LEMMA Configured ==
  UploaderTypeOK => MaxBatch \in Nat /\ MaxBatch >= 1 /\ MaxQueue \in Nat /\ MaxQueue >= 1 /\ Limit \in Nat
  BY UploaderAssumption DEF UploaderTypeOK, MaxBatch, MaxQueue, Limit

LEMMA BatchTaken ==
  ASSUME UploaderTypeOK, NEW q \in Seq(Event)
  PROVE  /\ TakeBatch(q) \in Seq(Event) /\ LeftOver(q) \in Seq(Event)
         /\ Len(TakeBatch(q)) <= MaxBatch
         /\ Len(TakeBatch(q)) + Len(LeftOver(q)) = Len(q)
         /\ q # << >> => TakeBatch(q) # << >>
         /\ Len(q) <= MaxQueue + MaxBatch => Len(LeftOver(q)) <= MaxQueue
         /\ \A i \in 1..Len(TakeBatch(q)) : TakeBatch(q)[i] = q[i]
         /\ \A i \in 1..Len(LeftOver(q)) : LeftOver(q)[i] = q[Len(TakeBatch(q)) + i]
  <1>1. Len(q) \in Nat /\ (q # << >> => Len(q) >= 1) /\ \A i \in 1..Len(q) : q[i] \in Event
    OBVIOUS
  <1>2. /\ Taken(q) \in 0..Len(q) /\ Taken(q) <= MaxBatch
        /\ Len(q) >= 1 => Taken(q) >= 1
        /\ Len(q) - Taken(q) <= 0 \/ Taken(q) = MaxBatch
    BY <1>1, Configured DEF Taken
  <1>3. /\ TakeBatch(q) \in Seq(Event) /\ Len(TakeBatch(q)) = Taken(q)
        /\ \A i \in 1..Taken(q) : TakeBatch(q)[i] = q[i]
    BY <1>1, <1>2 DEF TakeBatch
  <1>4. /\ LeftOver(q) \in Seq(Event) /\ Len(LeftOver(q)) = Len(q) - Taken(q)
        /\ \A i \in 1..(Len(q) - Taken(q)) : LeftOver(q)[i] = q[Taken(q) + i]
    BY <1>1, <1>2, SubSeqProperties DEF LeftOver
  <1>5. q # << >> => TakeBatch(q) # << >>
    BY <1>1, <1>2, <1>3
  <1>6. Len(q) <= MaxQueue + MaxBatch => Len(LeftOver(q)) <= MaxQueue
    BY <1>1, <1>2, <1>4, Configured
  <1> QED BY <1>1, <1>2, <1>3, <1>4, <1>5, <1>6

\* After the first k events of p come those of b, and then those of q.
Lies(k, b, q, p) ==
  /\ k + Len(b) + Len(q) <= Len(p)
  /\ \A i \in 1..Len(b) : b[i] = p[k + i]
  /\ \A i \in 1..Len(q) : q[i] = p[k + Len(b) + i]

LEMMA LiesTaken ==
  ASSUME UploaderTypeOK, NEW k \in Nat, NEW q \in Seq(Event), NEW p \in Seq(Event),
         Lies(k, << >>, q, p)
  PROVE  Lies(k, TakeBatch(q), LeftOver(q), p)
  <1> DEFINE b == TakeBatch(q)
             r == LeftOver(q)
  <1>1. /\ b \in Seq(Event) /\ r \in Seq(Event) /\ Len(b) + Len(r) = Len(q)
        /\ \A i \in 1..Len(b) : b[i] = q[i]
        /\ \A i \in 1..Len(r) : r[i] = q[Len(b) + i]
    BY BatchTaken
  <1>2. k + Len(q) <= Len(p) /\ \A i \in 1..Len(q) : q[i] = p[k + i]
    BY DEF Lies
  <1> HIDE DEF b, r
  <1>3. Len(b) \in Nat /\ Len(r) \in Nat /\ Len(q) \in Nat /\ Len(p) \in Nat
    BY <1>1
  <1>4. \A i \in 1..Len(b) : i \in 1..Len(q) /\ b[i] = p[k + i]
    BY <1>1, <1>2, <1>3
  <1>5. \A i \in 1..Len(r) : Len(b) + i \in 1..Len(q) /\ r[i] = p[k + Len(b) + i]
    BY <1>1, <1>2, <1>3
  <1>6. Lies(k, b, r, p)
    BY <1>1, <1>2, <1>3, <1>4, <1>5 DEF Lies
  <1> QED BY <1>6 DEF b, r

LEMMA LiesDone ==
  ASSUME NEW k \in Nat, NEW b \in Seq(Event), NEW q \in Seq(Event), NEW p \in Seq(Event),
         Lies(k, b, q, p)
  PROVE  Lies(k + Len(b), << >>, q, p) /\ k + Len(b) \in 0..Len(p)
  BY DEF Lies

LEMMA LiesBack ==
  ASSUME NEW k \in Nat, NEW b \in Seq(Event), NEW q \in Seq(Event), NEW p \in Seq(Event),
         Lies(k, b, q, p)
  PROVE  Lies(k, << >>, b \o q, p)
  <1>1. Len(b) \in Nat /\ Len(q) \in Nat /\ Len(p) \in Nat /\ Len(b \o q) = Len(b) + Len(q)
    OBVIOUS
  <1>2. ASSUME NEW i \in 1..Len(b \o q) PROVE (b \o q)[i] = p[k + i]
    <2>1. CASE i <= Len(b)
      BY <1>1, <2>1 DEF Lies
    <2>2. CASE i > Len(b)
      <3>1. i - Len(b) \in 1..Len(q) /\ (b \o q)[i] = q[i - Len(b)]
        BY <1>1, <2>2
      <3>2. q[i - Len(b)] = p[k + Len(b) + (i - Len(b))]
        BY <3>1 DEF Lies
      <3> QED BY <1>1, <3>1, <3>2
    <2> QED BY <1>1, <2>1, <2>2
  <1> QED BY <1>1, <1>2 DEF Lies

LEMMA LiesMore ==
  ASSUME NEW k \in Nat, NEW b \in Seq(Event), NEW q \in Seq(Event), NEW p \in Seq(Event),
         NEW x \in Seq(Event), Lies(k, b, q, p)
  PROVE  Len(p) = k + Len(b) + Len(q) =>
           Lies(k, b, q \o x, p \o x) /\ Len(p \o x) = k + Len(b) + Len(q \o x)
  <1>1. /\ Len(b) \in Nat /\ Len(q) \in Nat /\ Len(p) \in Nat /\ Len(x) \in Nat
        /\ Len(q \o x) = Len(q) + Len(x) /\ Len(p \o x) = Len(p) + Len(x)
        /\ \A i \in 1..Len(p) : (p \o x)[i] = p[i]
        /\ \A i \in 1..Len(x) : (p \o x)[Len(p) + i] = x[i]
    OBVIOUS
  <1>2. SUFFICES ASSUME Len(p) = k + Len(b) + Len(q)
                 PROVE  Lies(k, b, q \o x, p \o x) /\ Len(p \o x) = k + Len(b) + Len(q \o x)
    OBVIOUS
  <1>3. Len(p \o x) = k + Len(b) + Len(q \o x)
    BY <1>1, <1>2
  <1>4. ASSUME NEW i \in 1..Len(b) PROVE b[i] = (p \o x)[k + i]
    <2>1. b[i] = p[k + i]
      BY DEF Lies
    <2>2. k + i \in 1..Len(p)
      BY <1>1, <1>2
    <2> QED BY <1>1, <2>1, <2>2
  <1>5. ASSUME NEW i \in 1..Len(q \o x) PROVE (q \o x)[i] = (p \o x)[k + Len(b) + i]
    <2>1. CASE i <= Len(q)
      <3>1. i \in 1..Len(q) /\ k + Len(b) + i \in 1..Len(p) /\ (q \o x)[i] = q[i]
        BY <1>1, <1>2, <2>1
      <3> QED BY <1>1, <3>1 DEF Lies
    <2>2. CASE i > Len(q)
      <3>1. i - Len(q) \in 1..Len(x) /\ (q \o x)[i] = x[i - Len(q)]
        BY <1>1, <2>2
      <3>2. (p \o x)[Len(p) + (i - Len(q))] = x[i - Len(q)]
        BY <1>1, <3>1
      <3>3. Len(p) + (i - Len(q)) = k + Len(b) + i
        BY <1>1, <1>2
      <3> QED BY <3>1, <3>2, <3>3
    <2>3. i <= Len(q) \/ i > Len(q)
      BY <1>1
    <2> QED BY <2>1, <2>2, <2>3
  <1>6. k + Len(b) + Len(q \o x) <= Len(p \o x)
    BY <1>1, <1>2
  <1>7. Lies(k, b, q \o x, p \o x)
    BY <1>4, <1>5, <1>6 DEF Lies
  <1> QED BY <1>3, <1>7

(* The invariant of the queue and its loop *)

\* A batch is being sent, or the loop pauses with work to do.
Shapes ==
  /\ Len(pending) <= MaxQueue + MaxBatch
  /\ \A l \in loops :
       /\ l.at = "sending" => l.batch # << >> /\ Len(l.batch) <= MaxBatch /\ Len(pending) <= MaxQueue
       /\ l.at # "sending" => l.batch = << >>
       /\ l.at = "sleeping" /\ ~closed => pending # << >>
       /\ l.at = "waking" => closed

\* The queued events are: the first k, all settled; the batch b in flight; the
\* queue. Only close() forgets any.
Held(b) == (\A l \in loops : l.batch = b) /\ (loops = {} => b = << >>)
InHand(k, b) ==
  /\ Held(b)
  /\ QueuedFirst(k) \subseteq Settled
  /\ Lies(k, b, pending, pushed)
  /\ ~closed => Len(pushed) = k + Len(b) + Len(pending)
Split == \E k \in Nat, b \in Seq(Event) : InHand(k, b)

\* What may still land lies among the settled.
Lands(B) == \E n \in 0..Len(pushed) : B \subseteq QueuedFirst(n) /\ QueuedFirst(n) \subseteq Settled \cup B
Lates == \A B \in late : Lands(B)

QueueInv ==
  /\ OneInFlight /\ Shapes /\ Split /\ Lates
  /\ ~closed /\ pending # << >> => draining

LEMMA FirstStays ==
  ASSUME pushed \in Seq(Event), NEW x \in Seq(Event), pushed' = pushed \o x,
         NEW n \in Nat, n <= Len(pushed)
  PROVE  QueuedFirst(n)' = QueuedFirst(n)
  <1>1. \A i \in 1..n : i \in 1..Len(pushed)
    OBVIOUS
  <1>2. \A i \in 1..n : pushed'[i] = pushed[i]
    BY <1>1, JoinedProperties
  <1> QED BY <1>2 DEF QueuedFirst

LEMMA LandsStay ==
  ASSUME UploaderTypeOK, NEW x \in Seq(Event), pushed' = pushed \o x, Settled \subseteq Settled',
         NEW B, Lands(B)
  PROVE  Lands(B)'
  <1>1. PICK n \in 0..Len(pushed) : B \subseteq QueuedFirst(n) /\ QueuedFirst(n) \subseteq Settled \cup B
    BY DEF Lands
  <1>2. pushed \in Seq(Event) /\ Len(pushed) \in Nat /\ n \in Nat /\ n <= Len(pushed)
    BY DEF UploaderTypeOK
  <1>3. QueuedFirst(n)' = QueuedFirst(n)
    BY <1>2, FirstStays
  <1>4. n \in 0..Len(pushed')
    BY <1>2, JoinedProperties
  <1> QED BY <1>1, <1>3, <1>4 DEF Lands

core == <<pending, draining, closed, loops, config, late, arrived, given, pushed>>

LEMMA CoreStays == ASSUME QueueInv, UNCHANGED core PROVE QueueInv'
  <1>1. /\ UNCHANGED <<pending, draining, closed, loops, config, late, arrived, given, pushed>>
        /\ Settled' = Settled /\ MaxBatch' = MaxBatch /\ MaxQueue' = MaxQueue
    BY DEF core, Settled, MaxBatch, MaxQueue
  <1>2. \A n \in Nat : QueuedFirst(n)' = QueuedFirst(n)
    BY <1>1 DEF QueuedFirst
  <1>3. Split'
    <2>1. PICK k \in Nat, b \in Seq(Event) : InHand(k, b)
      BY DEF QueueInv, Split
    <2>2. InHand(k, b)'
      BY <1>1, <1>2, <2>1 DEF InHand, Held
    <2> QED BY <2>2 DEF Split
  <1>4. Lates'
    <2> SUFFICES ASSUME NEW B \in late PROVE Lands(B)'
      BY <1>1 DEF Lates
    <2>1. Lands(B)
      BY DEF QueueInv, Lates
    <2> QED BY <1>1, <2>1 DEF Lands, QueuedFirst
  <1>5. OneInFlight' /\ Shapes' /\ (~closed' /\ pending' # << >> => draining')
    BY <1>1 DEF QueueInv, OneInFlight, Shapes
  <1> QED BY <1>3, <1>4, <1>5 DEF QueueInv

LEMMA LoopIs ==
  ASSUME UploaderTypeOK, QueueInv, NEW l \in loops
  PROVE  /\ loops = {l} /\ loops \ {l} = {} /\ draining /\ l \in Loop
         /\ \E k \in Nat : InHand(k, l.batch) /\ l.batch \in Seq(Event)
  <1>1. loops = {l} /\ draining /\ l \in Loop
    BY DEF QueueInv, OneInFlight, UploaderTypeOK
  <1>2. \E k \in Nat : InHand(k, l.batch) /\ l.batch \in Seq(Event)
    BY DEF QueueInv, Split, InHand, Held
  <1> QED BY <1>1, <1>2

LEMMA PushKeeps ==
  ASSUME UploaderTypeOK, QueueInv, ~closed, NEW items \in Seq(Event), items # << >>,
         Len(pending) + Len(items) <= MaxQueue, Drain(pending \o items),
         pushed' = pushed \o items, UNCHANGED <<closed, config, late, arrived, given>>
  PROVE  QueueInv'
  <1> DEFINE q == pending \o items
  <1>1. /\ pending \in Seq(Event) /\ pushed \in Seq(Event) /\ q \in Seq(Event)
        /\ Len(q) = Len(pending) + Len(items) /\ q # << >> /\ Len(q) <= MaxQueue
    BY JoinedProperties DEF UploaderTypeOK
  <1>0. /\ TakeBatch(q) \in Seq(Event) /\ LeftOver(q) \in Seq(Event)
        /\ TakeBatch(q) # << >> /\ Len(TakeBatch(q)) <= MaxBatch
        /\ Len(q) = Len(TakeBatch(q)) + Len(LeftOver(q))
    BY <1>1, BatchTaken
  <1> HIDE DEF q
  <1>2. MaxBatch' = MaxBatch /\ MaxQueue' = MaxQueue /\ Settled' = Settled
    BY DEF MaxBatch, MaxQueue, Settled
  <1>3. Lates'
    BY <1>2, LandsStay DEF QueueInv, Lates
  <1>4. Len(pending) \in Nat /\ Len(items) \in Nat /\ MaxBatch \in Nat /\ MaxQueue \in Nat
    BY Configured DEF UploaderTypeOK
  <1>5. PICK k \in Nat, b \in Seq(Event) : InHand(k, b)
    BY DEF QueueInv, Split
  <1>6. Lies(k, b, q, pushed') /\ Len(pushed') = k + Len(b) + Len(q)
    BY <1>1, <1>5, LiesMore DEF InHand, q
  <1>7. QueuedFirst(k)' = QueuedFirst(k)
    <2>1. k <= Len(pushed)
      BY <1>1, <1>4, <1>5 DEF InHand
    <2> QED BY <1>1, <2>1, FirstStays
  <1>8. CASE draining
    <2>1. pending' = q /\ UNCHANGED <<draining, loops>>
      BY <1>8 DEF Drain, q
    <2>2. OneInFlight' /\ (~closed' /\ pending' # << >> => draining')
      BY <1>8, <2>1 DEF QueueInv, OneInFlight
    <2>3. Shapes'
      BY <1>1, <1>2, <1>4, <2>1 DEF QueueInv, Shapes
    <2>4. InHand(k, b)'
      BY <1>2, <1>5, <1>6, <1>7, <2>1 DEF InHand, Held
    <2>5. Split'
      BY <2>4 DEF Split
    <2> QED BY <1>3, <2>2, <2>3, <2>5 DEF QueueInv
  <1>9. CASE ~draining
    <2>1. loops = {} /\ pending = << >> /\ b = << >>
      BY <1>5, <1>9 DEF QueueInv, OneInFlight, InHand, Held
    <2>2. draining' = TRUE /\ pending' = LeftOver(q) /\ loops' = {SendingLoop(q, 0)}
      BY <1>9, <2>1 DEF Drain, q
    <2>3. OneInFlight' /\ (~closed' /\ pending' # << >> => draining')
      BY <2>2 DEF OneInFlight
    <2>4. SendingLoop(q, 0).at = "sending" /\ SendingLoop(q, 0).batch = TakeBatch(q)
      BY DEF SendingLoop
    <2>5. Len(pending') \in Nat /\ Len(pending') <= MaxQueue
      BY <1>0, <1>1, <1>4, <2>2
    <2>6. Shapes'
      BY <1>0, <1>2, <1>4, <2>2, <2>4, <2>5 DEF Shapes
    <2>7. Lies(k, TakeBatch(q), LeftOver(q), pushed')
      <3>1. pushed' \in Seq(Event)
        BY <1>1
      <3> QED BY <1>1, <1>6, <2>1, <3>1, LiesTaken
    <2>8. PICK n \in Seq(Event) : n = TakeBatch(q)
      BY <1>0
    <2>9. Lies(k, n, pending', pushed') /\ \A l \in loops' : l.batch = n
      BY <2>2, <2>4, <2>7, <2>8
    <2>10. Len(pushed') = k + Len(n) + Len(pending')
      <3>1. Len(pushed') = k + Len(q)
        BY <1>1, <1>6, <2>1
      <3>2. Len(n) \in Nat /\ Len(pending') \in Nat /\ Len(q) = Len(n) + Len(pending')
        BY <1>0, <2>2, <2>8
      <3> QED BY <3>1, <3>2
    <2>11. InHand(k, n)'
      BY <1>2, <1>5, <1>7, <2>2, <2>9, <2>10 DEF InHand, Held
    <2>12. Split'
      BY <2>8, <2>11 DEF Split
    <2> QED BY <1>3, <2>3, <2>6, <2>12 DEF QueueInv
  <1> QED BY <1>8, <1>9

LEMMA LiesCut ==
  ASSUME NEW k \in Nat, NEW b \in Seq(Event), NEW q \in Seq(Event), NEW p \in Seq(Event),
         Lies(k, b, q, p)
  PROVE  Lies(k, << >>, b, p) /\ Lies(k, b, << >>, p)
  BY DEF Lies

LEMMA FirstMore ==
  ASSUME pushed \in Seq(Event), pending \in Seq(Event),
         NEW k \in Nat, NEW b \in Seq(Event), Lies(k, b, pending, pushed)
  PROVE  /\ QueuedFirst(k + Len(b)) = QueuedFirst(k) \cup Range(b)
         /\ k + Len(b) \in 0..Len(pushed)
  <1>1. Len(b) \in Nat /\ k + Len(b) \in 0..Len(pushed) /\ DOMAIN b = 1..Len(b)
    BY DEF Lies
  <1>2. \A i \in 1..Len(b) : k + i \in 1..(k + Len(b)) /\ pushed[k + i] = b[i]
    BY <1>1 DEF Lies
  <1>3. \A i \in 1..(k + Len(b)) : i \in 1..k \/ (i - k \in 1..Len(b) /\ k + (i - k) = i)
    BY <1>1
  <1>4. \A i \in 1..k : i \in 1..(k + Len(b))
    BY <1>1
  <1>5. QueuedFirst(k + Len(b)) \subseteq QueuedFirst(k) \cup Range(b)
    <2> SUFFICES ASSUME NEW i \in 1..(k + Len(b)) PROVE pushed[i] \in QueuedFirst(k) \cup Range(b)
      BY DEF QueuedFirst
    <2>1. CASE i \in 1..k
      BY <2>1 DEF QueuedFirst
    <2>2. CASE i - k \in 1..Len(b) /\ k + (i - k) = i
      <3>1. pushed[i] = b[i - k]
        BY <1>2, <2>2
      <3> QED BY <1>1, <2>2, <3>1 DEF Range
    <2> QED BY <1>3, <2>1, <2>2
  <1>6. QueuedFirst(k) \cup Range(b) \subseteq QueuedFirst(k + Len(b))
    BY <1>1, <1>2, <1>4 DEF QueuedFirst, Range
  <1> QED BY <1>1, <1>5, <1>6

LEMMA RoundDoes ==
  ASSUME UploaderTypeOK, NEW l \in loops, loops \ {l} = {}, NEW q \in Seq(Event),
         NEW f \in Nat, NEW js, NextRound(l, q, f, js)
  PROVE  \/ /\ q # << >> /\ ~closed
            /\ pending' = LeftOver(q) /\ loops' = {SendingLoop(q, f)} /\ draining' = draining
            /\ jobs' = js /\ flushers' = flushers
         \/ /\ q = << >> \/ closed
            /\ pending' = q /\ loops' = {} /\ draining' = FALSE
            /\ \/ q = << >> /\ jobs' = js \o JobsOf("resume", flushers) /\ flushers' = << >>
               \/ q # << >> /\ jobs' = js /\ flushers' = flushers
  BY DEF NextRound

LEMMA RoundKeeps ==
  ASSUME UploaderTypeOK, Len(pending) <= MaxQueue + MaxBatch, NEW l \in loops,
         loops \ {l} = {}, draining,
         NEW k \in Nat, Lies(k, << >>, pending, pushed), ~closed => Len(pushed) = k + Len(pending),
         NEW f \in Nat, NEW js, NextRound(l, pending, f, js), UNCHANGED <<closed, config, pushed>>,
         QueuedFirst(k) \subseteq Settled', Lates'
  PROVE  QueueInv'
  <1>1. pending \in Seq(Event) /\ Len(pending) \in Nat /\ pushed \in Seq(Event)
    BY DEF UploaderTypeOK
  <1>2. MaxBatch' = MaxBatch /\ MaxQueue' = MaxQueue /\ QueuedFirst(k)' = QueuedFirst(k)
    BY DEF MaxBatch, MaxQueue, QueuedFirst
  <1>3. MaxBatch \in Nat /\ MaxQueue \in Nat
    BY Configured
  <1>4. CASE /\ pending # << >> /\ ~closed
             /\ pending' = LeftOver(pending) /\ loops' = {SendingLoop(pending, f)}
             /\ draining' = draining
    <2>1. PICK n \in Seq(Event) : n = TakeBatch(pending)
      BY <1>1, BatchTaken
    <2>2. /\ n # << >> /\ Len(n) <= MaxBatch /\ Len(pending') <= MaxQueue
          /\ pending' \in Seq(Event) /\ Len(pending) = Len(n) + Len(pending')
      BY <1>1, <1>4, <2>1, BatchTaken
    <2>3. Lies(k, n, pending', pushed')
      BY <1>1, <1>4, <2>1, LiesTaken
    <2>4. \A m \in loops' : m.at = "sending" /\ m.batch = n
      BY <1>4, <2>1 DEF SendingLoop
    <2>5. OneInFlight' /\ (~closed' /\ pending' # << >> => draining')
      BY <1>4 DEF OneInFlight
    <2>6. Len(pending') \in Nat /\ Len(n) \in Nat
      BY <2>2
    <2>7. Shapes'
      BY <1>2, <1>3, <2>2, <2>4, <2>6 DEF Shapes
    <2>8. Len(pushed') = k + Len(n) + Len(pending')
      <3>1. Len(pushed') = k + Len(pending)
        BY <1>4
      <3> QED BY <2>2, <2>6, <3>1
    <2>9. InHand(k, n)'
      BY <1>2, <1>4, <2>3, <2>4, <2>8 DEF InHand, Held
    <2>10. Split'
      BY <2>9 DEF Split
    <2> QED BY <2>5, <2>7, <2>10 DEF QueueInv
  <1>5. CASE /\ pending = << >> \/ closed
             /\ pending' = pending /\ loops' = {} /\ draining' = FALSE
    <2>1. OneInFlight' /\ (~closed' /\ pending' # << >> => draining')
      BY <1>5 DEF OneInFlight
    <2>2. Shapes'
      BY <1>2, <1>5 DEF Shapes
    <2>3. Len(<< >>) = 0 /\ << >> \in Seq(Event)
      OBVIOUS
    <2>4. ~closed' => Len(pushed') = k + Len(<< >>) + Len(pending')
      BY <1>1, <1>5, <2>3
    <2>5. InHand(k, << >>)'
      BY <1>2, <1>5, <2>4 DEF InHand, Held
    <2>6. Split'
      BY <2>3, <2>5 DEF Split
    <2> QED BY <2>1, <2>2, <2>6 DEF QueueInv
  <1> QED BY <1>1, <1>4, <1>5, RoundDoes

LEMMA MoreSettled ==
  ASSUME UploaderTypeOK, QueueInv, pushed' = pushed, Settled \subseteq Settled', late' \subseteq late
  PROVE  Lates'
  <1>1. pushed' = pushed \o << >> /\ << >> \in Seq(Event)
    BY DEF UploaderTypeOK
  <1> SUFFICES ASSUME NEW B \in late PROVE Lands(B)'
    BY DEF Lates
  <1>2. Lands(B)
    BY DEF QueueInv, Lates
  <1> QED BY <1>1, <1>2, LandsStay

\* A batch that failed here may have been stored, or may still be.
LEMMA OutcomeDoes ==
  ASSUME UploaderTypeOK, QueueInv, NEW l \in loops, Outcome(l.batch),
         given \subseteq given', pushed' = pushed
  PROVE  Settled \subseteq Settled' /\ Lates'
  <1>1. PICK k \in Nat : InHand(k, l.batch) /\ l.batch \in Seq(Event)
    BY LoopIs
  <1>2. arrived \subseteq arrived' /\ late' \subseteq late \cup {Range(l.batch)}
    BY DEF Outcome
  <1>3. Settled \subseteq Settled'
    BY <1>2 DEF Settled
  <1>4. pushed \in Seq(Event) /\ pending \in Seq(Event) /\ << >> \in Seq(Event) /\ pushed' = pushed \o << >>
    BY DEF UploaderTypeOK
  <1>5. Lands(Range(l.batch))
    <2>1. /\ QueuedFirst(k + Len(l.batch)) = QueuedFirst(k) \cup Range(l.batch)
          /\ k + Len(l.batch) \in 0..Len(pushed)
      BY <1>1, <1>4, FirstMore DEF InHand
    <2> QED BY <1>1, <2>1 DEF Lands, InHand
  <1>6. Lates'
    <2> SUFFICES ASSUME NEW B \in late \cup {Range(l.batch)} PROVE Lands(B)'
      BY <1>2 DEF Lates
    <2>1. Lands(B)
      BY <1>5 DEF QueueInv, Lates
    <2> QED BY <1>3, <1>4, <2>1, LandsStay
  <1> QED BY <1>3, <1>6

LEMMA BatchDoneKeeps ==
  ASSUME UploaderTypeOK, QueueInv, NEW l \in Sending, BatchDone(l), Lates',
         Settled \cup Range(l.batch) \subseteq Settled'
  PROVE  QueueInv'
  <1>1. l \in loops
    BY DEF Sending
  <1>2. PICK k \in Nat : InHand(k, l.batch) /\ l.batch \in Seq(Event)
    BY <1>1, LoopIs
  <1>3. loops \ {l} = {} /\ draining
    BY <1>1, LoopIs
  <1>4. pushed \in Seq(Event) /\ pending \in Seq(Event) /\ Len(l.batch) \in Nat /\ Len(pending) \in Nat
    BY <1>2 DEF UploaderTypeOK
  <1>5. PICK n \in Nat : n = k + Len(l.batch)
    BY <1>4
  <1>6. Lies(n, << >>, pending, pushed)
    BY <1>2, <1>4, <1>5, LiesDone DEF InHand
  <1>7. ~closed => Len(pushed) = n + Len(pending)
    BY <1>2, <1>5 DEF InHand
  <1>8. QueuedFirst(n) = QueuedFirst(k) \cup Range(l.batch)
    BY <1>2, <1>4, <1>5, FirstMore DEF InHand
  <1>9. QueuedFirst(n) \subseteq Settled'
    BY <1>2, <1>8 DEF InHand
  <1>10. /\ NextRound(l, pending, 0, jobs \o JobsOf("recheck", blocked))
         /\ UNCHANGED <<closed, config, pushed>> /\ 0 \in Nat
    BY DEF BatchDone
  <1>11. Len(pending) <= MaxQueue + MaxBatch
    BY DEF QueueInv, Shapes
  <1> QED BY <1>1, <1>3, <1>6, <1>7, <1>9, <1>10, <1>11, RoundKeeps

LEMMA AnsweredKeeps ==
  ASSUME UploaderTypeOK, QueueInv, NEW l \in Sending, Deliver(l) \/ Refuse(l) \/ Drop(l)
  PROVE  QueueInv'
  <1>1. l \in loops /\ BatchDone(l)
    BY DEF Sending, Deliver, Refuse, Drop
  <1>2. pushed' = pushed /\ given \subseteq given' /\ arrived \subseteq arrived'
    BY <1>1 DEF BatchDone, Deliver, Refuse, Drop, Outcome
  <1>3. Settled \cup Range(l.batch) \subseteq Settled'
    BY <1>2 DEF Deliver, Refuse, Drop, Settled
  <1>4. CASE Deliver(l) \/ Refuse(l)
    <2>1. late' = late
      BY <1>4 DEF Deliver, Refuse
    <2>2. Lates'
      BY <1>2, <1>3, <2>1, MoreSettled
    <2> QED BY <1>1, <1>3, <2>2, BatchDoneKeeps
  <1>5. CASE Drop(l)
    <2>1. Lates'
      BY <1>1, <1>2, <1>5, OutcomeDoes DEF Drop
    <2> QED BY <1>1, <1>3, <2>1, BatchDoneKeeps
  <1> QED BY <1>4, <1>5

\* The batch goes back to the queue and the loop pauses, after close() or before it.
LEMMA PausesKeeps ==
  ASSUME UploaderTypeOK, QueueInv, NEW l \in Sending, NEW f \in Nat, NEW q \in Seq(Event),
         pending' = q, loops' = (loops \ {l}) \cup {SleepingLoop(f)},
         UNCHANGED <<draining, config, pushed>>, closed => closed',
         q # << >>, Len(q) <= MaxQueue + MaxBatch,
         NEW k \in Nat, QueuedFirst(k) \subseteq Settled', Lies(k, << >>, q, pushed),
         ~closed' => Len(pushed) = k + Len(q), Lates'
  PROVE  QueueInv'
  <1>1. l \in loops /\ loops \ {l} = {} /\ draining
    BY LoopIs DEF Sending
  <1>2. loops' = {SleepingLoop(f)} /\ SleepingLoop(f).at = "sleeping" /\ SleepingLoop(f).batch = << >>
    BY <1>1 DEF SleepingLoop
  <1>3. MaxBatch' = MaxBatch /\ MaxQueue' = MaxQueue /\ QueuedFirst(k)' = QueuedFirst(k)
    BY DEF MaxBatch, MaxQueue, QueuedFirst
  <1>4. OneInFlight' /\ (~closed' /\ pending' # << >> => draining')
    BY <1>1, <1>2 DEF OneInFlight
  <1>5. Shapes'
    BY <1>2, <1>3 DEF Shapes
  <1>6. Len(<< >>) = 0 /\ << >> \in Seq(Event) /\ Len(q) \in Nat
    OBVIOUS
  <1>7. ~closed' => Len(pushed') = k + Len(<< >>) + Len(pending')
    BY <1>6
  <1>8. InHand(k, << >>)'
    BY <1>2, <1>3, <1>7 DEF InHand, Held
  <1>9. Split'
    BY <1>6, <1>8 DEF Split
  <1> QED BY <1>4, <1>5, <1>9 DEF QueueInv

LEMMA RetryKeeps ==
  ASSUME UploaderTypeOK, QueueInv, NEW l \in Sending, Retry(l)
  PROVE  QueueInv'
  <1>1. l \in loops
    BY DEF Sending
  <1>2. PICK k \in Nat : InHand(k, l.batch) /\ l.batch \in Seq(Event)
    BY <1>1, LoopIs
  <1>3. /\ Failures(l) \in Nat /\ given' = given /\ Outcome(l.batch) /\ pushed' = pushed
        /\ pending' = l.batch \o pending /\ closed' = closed
    BY <1>1 DEF Retry, Failures, UploaderTypeOK, Loop
  <1>4. Settled \subseteq Settled' /\ Lates'
    BY <1>1, <1>3, OutcomeDoes
  <1>5. /\ pending \in Seq(Event) /\ pushed \in Seq(Event)
        /\ Len(pending) \in Nat /\ Len(l.batch) \in Nat
    BY <1>2 DEF UploaderTypeOK
  <1>6. PICK q \in Seq(Event) : q = l.batch \o pending /\ Len(q) = Len(l.batch) + Len(pending)
    <2>1. l.batch \o pending \in Seq(Event) /\ Len(l.batch \o pending) = Len(l.batch) + Len(pending)
      BY <1>2, <1>5, JoinedProperties
    <2> QED BY <2>1
  <1>7. Lies(k, << >>, q, pushed)
    BY <1>2, <1>5, <1>6, LiesBack DEF InHand
  <1>8. ~closed' => Len(pushed) = k + Len(q)
    BY <1>2, <1>3, <1>6 DEF InHand
  <1>9. l.batch # << >> /\ Len(l.batch) <= MaxBatch /\ Len(pending) <= MaxQueue
    BY DEF QueueInv, Shapes, Sending
  <1>10. q # << >>
    BY <1>2, <1>5, <1>6, <1>9
  <1>11. Len(q) <= MaxQueue + MaxBatch
    BY <1>5, <1>6, <1>9, Configured
  <1>12. QueuedFirst(k) \subseteq Settled'
    BY <1>2, <1>4 DEF InHand
  <1>13. /\ pending' = q /\ loops' = (loops \ {l}) \cup {SleepingLoop(Failures(l))}
         /\ UNCHANGED <<draining, config, pushed>>
    BY <1>6 DEF Retry
  <1> QED BY <1>3, <1>4, <1>7, <1>8, <1>10, <1>11, <1>12, <1>13, PausesKeeps

LEMMA SupersededKeeps ==
  ASSUME UploaderTypeOK, QueueInv, NEW l \in Sending, Superseded(l)
  PROVE  QueueInv'
  <1>1. l \in loops
    BY DEF Sending
  <1>2. PICK k \in Nat : InHand(k, l.batch) /\ l.batch \in Seq(Event)
    BY <1>1, LoopIs
  <1>3. /\ Failures(l) \in Nat /\ closed' /\ pending' = l.batch
        /\ loops' = (loops \ {l}) \cup {SleepingLoop(Failures(l))}
        /\ UNCHANGED <<draining, config, pushed, late, arrived, given>>
    BY <1>1 DEF Superseded, Failures, UploaderTypeOK, Loop, serverVars
  <1>4. Settled' = Settled
    BY <1>3 DEF Settled
  <1>5. Lates'
    BY <1>3, <1>4, MoreSettled
  <1>6. Lies(k, << >>, l.batch, pushed)
    BY <1>2, LiesCut DEF InHand, UploaderTypeOK
  <1>7. l.batch # << >> /\ Len(l.batch) <= MaxBatch
    BY DEF QueueInv, Shapes, Sending
  <1>8. Len(l.batch) <= MaxQueue + MaxBatch
    BY <1>2, <1>7, Configured
  <1>9. QueuedFirst(k) \subseteq Settled'
    BY <1>2, <1>4 DEF InHand
  <1> QED BY <1>2, <1>3, <1>5, <1>6, <1>7, <1>8, <1>9, PausesKeeps

LEMMA WakesKeeps ==
  ASSUME UploaderTypeOK, QueueInv, NEW l \in loops, SleepEnds(l) \/ Wake(l)
  PROVE  QueueInv'
  <1>1. PICK k \in Nat : InHand(k, l.batch) /\ l.batch \in Seq(Event)
    BY LoopIs
  <1>2. l.at # "sending" /\ l.batch = << >> /\ Len(pending) <= MaxQueue + MaxBatch
    <2>1. l.at = "sleeping" \/ l.at = "waking"
      BY DEF SleepEnds, Wake
    <2> QED BY <2>1 DEF QueueInv, Shapes
  <1>3. loops \ {l} = {} /\ draining /\ l.failures \in Nat
    BY LoopIs DEF Loop
  <1>4. /\ \E js : NextRound(l, pending, l.failures, js)
        /\ UNCHANGED <<closed, config, pushed, late, arrived, given>>
    BY DEF SleepEnds, Wake, serverVars
  <1>5. Settled' = Settled
    BY <1>4 DEF Settled
  <1>6. Lates'
    BY <1>4, <1>5, MoreSettled
  <1>7. QueuedFirst(k) \subseteq Settled' /\ Lies(k, << >>, pending, pushed)
    BY <1>1, <1>2, <1>5 DEF InHand
  <1>8. ~closed => Len(pushed) = k + Len(pending)
    <2>1. Len(l.batch) = 0 /\ Len(pending) \in Nat
      BY <1>2 DEF UploaderTypeOK
    <2> QED BY <1>1, <2>1 DEF InHand
  <1> QED BY <1>2, <1>3, <1>4, <1>6, <1>7, <1>8, RoundKeeps

LEMMA CloseKeeps ==
  ASSUME UploaderTypeOK, QueueInv, NEW js, Close(js)
  PROVE  QueueInv'
  <1>1. CASE closed
    <2>1. UNCHANGED core
      BY <1>1 DEF Close, queueVars, serverVars, core
    <2> QED BY <2>1, CoreStays
  <1>2. CASE ~closed
    <2> DEFINE woken(l) == IF l.at = "sleeping" THEN [l EXCEPT !.at = "waking"] ELSE l
    <2>1. /\ closed' /\ pending' = << >> /\ loops' = {woken(l) : l \in loops}
          /\ UNCHANGED <<draining, config, pushed, late, arrived, given>>
      BY <1>2 DEF Close, serverVars
    <2>2. \A l \in loops : woken(l).batch = l.batch /\ woken(l).at # "sleeping"
                           /\ (woken(l).at = "sending" <=> l.at = "sending")
      BY DEF UploaderTypeOK, Loop
    <2> HIDE DEF woken
    <2>3. MaxBatch' = MaxBatch /\ MaxQueue' = MaxQueue /\ Settled' = Settled
      BY <2>1 DEF MaxBatch, MaxQueue, Settled
    <2>4. OneInFlight' /\ (~closed' /\ pending' # << >> => draining')
      <3>1. \A l, m \in loops : l = m
        BY DEF QueueInv, OneInFlight
      <3>2. loops = {} <=> loops' = {}
        BY <2>1
      <3> QED BY <2>1, <3>1, <3>2 DEF QueueInv, OneInFlight
    <2>5. Shapes'
      <3>1. Len(<< >>) = 0 /\ MaxBatch \in Nat /\ MaxQueue \in Nat
        BY Configured
      <3> QED BY <2>1, <2>2, <2>3, <3>1 DEF QueueInv, Shapes
    <2>6. PICK k \in Nat, b \in Seq(Event) : InHand(k, b)
      BY DEF QueueInv, Split
    <2>7. Lies(k, b, << >>, pushed)
      BY <2>6, LiesCut DEF InHand, UploaderTypeOK
    <2>8. Held(b)'
      BY <2>1, <2>2, <2>6 DEF InHand, Held
    <2>9. QueuedFirst(k)' = QueuedFirst(k)
      BY <2>1 DEF QueuedFirst
    <2>10. InHand(k, b)'
      BY <2>1, <2>3, <2>6, <2>7, <2>8, <2>9 DEF InHand
    <2>11. Split'
      BY <2>10 DEF Split
    <2>12. Lates'
      BY <2>1, <2>3, MoreSettled
    <2> QED BY <2>4, <2>5, <2>11, <2>12 DEF QueueInv
  <1> QED BY <1>1, <1>2

LEMMA LandLateKeeps ==
  ASSUME UploaderTypeOK, QueueInv, LandLate
  PROVE  QueueInv'
  <1>1. /\ arrived \subseteq arrived' /\ late' \subseteq late
        /\ UNCHANGED <<pending, draining, loops, pushed, closed, config, given>>
    BY DEF LandLate, queueVars
  <1>2. Settled \subseteq Settled' /\ MaxBatch' = MaxBatch /\ MaxQueue' = MaxQueue
    BY <1>1 DEF Settled, MaxBatch, MaxQueue
  <1>3. Lates'
    BY <1>1, <1>2, MoreSettled
  <1>4. PICK k \in Nat, b \in Seq(Event) : InHand(k, b)
    BY DEF QueueInv, Split
  <1>5. QueuedFirst(k)' = QueuedFirst(k)
    BY <1>1 DEF QueuedFirst
  <1>6. InHand(k, b)'
    BY <1>1, <1>2, <1>4, <1>5 DEF InHand, Held
  <1>7. Split'
    BY <1>6 DEF Split
  <1>8. OneInFlight' /\ Shapes' /\ (~closed' /\ pending' # << >> => draining')
    BY <1>1, <1>2 DEF QueueInv, OneInFlight, Shapes
  <1> QED BY <1>3, <1>7, <1>8 DEF QueueInv

(* The invariant of the calls *)

\* Who will look for room has something to queue.
Rechecks(js) == { j.id : j \in { i \in Range(js) : i.kind = "recheck" } }
Askers == \A o \in Range(blocked) \cup Rechecks(jobs) : o \in DOMAIN ops /\ ops[o].items # << >>

\* A flush() that is over has been kept.
Honoured(o) ==
  /\ ops[o].goal <= Len(pushed)
  /\ ~closed => o \in Range(flushers) \/ QueuedFirst(ops[o].goal) \subseteq Settled
Promises == \A o \in DOMAIN ops : Honoured(o)

CallInv == Askers /\ Promises /\ NobodyStranded

IInv == UploaderTypeOK /\ QueueInv /\ CallInv

LEMMA NoneFirst == QueuedFirst(0) = {} /\ QueuedFirst(0)' = {}
  BY DEF QueuedFirst

LEMMA Start == UploaderInit => IInv
  <1> SUFFICES ASSUME UploaderInit PROVE IInv
    OBVIOUS
  <1>1. << >> \in Seq(Event) /\ Len(<< >>) = 0 /\ Range(<< >>) = {} /\ DOMAIN << >> = {}
    BY DEF Range
  <1>2. UploaderTypeOK
    <2>1. \A S : << >> \in Seq(S)
      OBVIOUS
    <2>2. blocked \in Seq(DOMAIN ops) /\ flushers \in Seq(DOMAIN ops)
      BY <2>1 DEF UploaderInit
    <2>3. pending \in Seq(Event) /\ pushed \in Seq(Event) /\ ops \in Seq(Op) /\ jobs \in Seq(Job)
      BY <2>1 DEF UploaderInit
    <2>4. /\ draining \in BOOLEAN /\ closed \in BOOLEAN /\ loops \in SUBSET Loop /\ config \in Configs
          /\ late \in SUBSET SUBSET Event /\ arrived \subseteq Event /\ given \subseteq Event
          /\ waited \subseteq Event
      BY DEF UploaderInit
    <2> QED BY <2>2, <2>3, <2>4 DEF UploaderTypeOK
  <1>3. OneInFlight /\ Lates /\ (~closed /\ pending # << >> => draining)
    BY DEF UploaderInit, OneInFlight, Lates
  <1>4. Shapes
    BY <1>1, <1>2, Configured DEF UploaderInit, Shapes
  <1>5. InHand(0, << >>)
    BY <1>1, NoneFirst DEF UploaderInit, InHand, Held, Lies
  <1>6. Split
    BY <1>1, <1>5 DEF Split
  <1>7. CallInv
    BY <1>1 DEF UploaderInit, CallInv, Askers, Rechecks, Promises, NobodyStranded
  <1> QED BY <1>2, <1>3, <1>4, <1>6, <1>7 DEF IInv, QueueInv

LEMMA DrainTypes ==
  ASSUME UploaderTypeOK, NEW q \in Seq(Event), Drain(q)
  PROVE  /\ pending' \in Seq(Event) /\ draining' \in BOOLEAN /\ loops' \in SUBSET Loop
         /\ draining => draining'
  <1>1. SendingLoop(q, 0) \in Loop /\ LeftOver(q) \in Seq(Event)
    BY BatchTaken DEF SendingLoop, Loop
  <1> QED BY <1>1 DEF Drain, UploaderTypeOK

LEMMA RoundTypes ==
  ASSUME UploaderTypeOK, QueueInv, NEW l \in loops, NEW f \in Nat, NEW js \in Seq(Job),
         NextRound(l, pending, f, js)
  PROVE  /\ pending' \in Seq(Event) /\ draining' \in BOOLEAN /\ loops' \in SUBSET Loop
         /\ jobs' \in Seq(Job) /\ flushers' \in Seq(DOMAIN ops)
         /\ Rechecks(jobs') \subseteq Rechecks(js)
  <1>1. pending \in Seq(Event)
    BY DEF UploaderTypeOK
  <1>2. SendingLoop(pending, f) \in Loop /\ LeftOver(pending) \in Seq(Event)
    BY <1>1, BatchTaken DEF SendingLoop, Loop
  <1>3. /\ JobsOf("resume", flushers) \in Seq(Job)
        /\ \A j \in Range(JobsOf("resume", flushers)) : j.kind = "resume"
    <2>1. DOMAIN ops = 1..Len(ops) /\ Len(ops) \in Nat /\ flushers \in Seq(1..Len(ops))
      BY DEF UploaderTypeOK
    <2> QED BY <2>1, JobsOfProperties
  <1>4. /\ js \o JobsOf("resume", flushers) \in Seq(Job)
        /\ Range(js \o JobsOf("resume", flushers)) = Range(js) \cup Range(JobsOf("resume", flushers))
    BY <1>3, JoinedProperties
  <1>5. Rechecks(js \o JobsOf("resume", flushers)) \subseteq Rechecks(js)
    BY <1>3, <1>4 DEF Rechecks
  <1>6. loops \ {l} = {} /\ << >> \in Seq(DOMAIN ops)
    BY LoopIs
  <1> QED BY <1>1, <1>2, <1>4, <1>5, <1>6, RoundDoes DEF UploaderTypeOK

\* What a new operation, or none, does to the operations there are.
Grown(o, items) ==
  \/ ops' = ops /\ o \in DOMAIN ops /\ ops[o].items = items
  \/ \E n \in Nat : ops' = Append(ops, [items |-> items, goal |-> n]) /\ o = Len(ops) + 1

LEMMA OpsGrow ==
  ASSUME UploaderTypeOK, NEW o, NEW items \in Seq(Event), Grown(o, items)
  PROVE  /\ ops' \in Seq(Op) /\ o \in DOMAIN ops' /\ ops'[o].items = items
         /\ \A p \in DOMAIN ops : p \in DOMAIN ops' /\ ops'[p] = ops[p]
         /\ DOMAIN ops' \subseteq DOMAIN ops \cup {o}
         /\ \A ids \in Seq(DOMAIN ops) : ids \in Seq(DOMAIN ops') /\ Append(ids, o) \in Seq(DOMAIN ops')
         /\ JobOf("resume", o) \in Job
  <1>1. ops \in Seq(Op) /\ DOMAIN ops = 1..Len(ops) /\ Len(ops) \in Nat
    BY DEF UploaderTypeOK
  <1>2. CASE ops' = ops /\ o \in DOMAIN ops /\ ops[o].items = items
    BY <1>1, <1>2 DEF JobOf, Job
  <1>3. CASE \E n \in Nat : ops' = Append(ops, [items |-> items, goal |-> n]) /\ o = Len(ops) + 1
    <2>1. PICK n \in Nat : ops' = Append(ops, [items |-> items, goal |-> n]) /\ o = Len(ops) + 1
      BY <1>3
    <2>2. [items |-> items, goal |-> n] \in Op
      BY DEF Op
    <2>3. \A ids \in Seq(DOMAIN ops) : ids \in Seq(DOMAIN ops') /\ Append(ids, o) \in Seq(DOMAIN ops')
      BY <1>1, <2>1, <2>2, SameIds
    <2>4. /\ ops' \in Seq(Op) /\ DOMAIN ops' = 1..(Len(ops) + 1)
          /\ \A p \in 1..Len(ops) : ops'[p] = ops[p]
          /\ ops'[o] = [items |-> items, goal |-> n]
      BY <1>1, <2>1, <2>2
    <2> QED BY <1>1, <2>1, <2>3, <2>4 DEF JobOf, Job
  <1> QED BY <1>2, <1>3 DEF Grown

LEMMA AskersStay ==
  ASSUME Askers, NEW o, o \in DOMAIN ops', ops'[o].items # << >>,
         \A p \in DOMAIN ops : p \in DOMAIN ops' /\ ops'[p] = ops[p],
         Range(blocked') \subseteq Range(blocked) \cup {o},
         Rechecks(jobs') \subseteq Rechecks(jobs)
  PROVE  Askers'
  BY DEF Askers, Rechecks

LEMMA RecheckOne ==
  ASSUME NEW js \in Seq(Job), NEW o \in Nat
  PROVE  /\ Append(js, JobOf("resume", o)) \in Seq(Job)
         /\ Rechecks(Append(js, JobOf("resume", o))) = Rechecks(js)
         /\ Append(js, JobOf("tick", o)) \in Seq(Job)
         /\ Rechecks(Append(js, JobOf("tick", o))) = Rechecks(js)
  <1>1. JobOf("resume", o) \in Job /\ JobOf("tick", o) \in Job
    BY DEF JobOf, Job
  <1>2. /\ Range(Append(js, JobOf("resume", o))) = Range(js) \cup {JobOf("resume", o)}
        /\ Range(Append(js, JobOf("tick", o))) = Range(js) \cup {JobOf("tick", o)}
    BY <1>1, AppendedProperties
  <1>3. JobOf("resume", o).kind = "resume" /\ JobOf("tick", o).kind = "tick"
    BY DEF JobOf
  <1> QED BY <1>1, <1>2, <1>3, AppendedProperties DEF Rechecks

\* An enqueue() that looks for room.
LEMMA AdmitKeeps ==
  ASSUME IInv, NEW o, NEW items \in Seq(Event), items # << >>, Grown(o, items),
         \A p \in DOMAIN ops' : p \in DOMAIN ops \/ ops'[p].goal = 0,
         NEW js \in Seq(Job), Rechecks(js) \subseteq Rechecks(jobs),
         Admit(o, items, js), UNCHANGED <<closed, flushers, config, serverVars>>
  PROVE  IInv'
  <1>1. UploaderTypeOK /\ QueueInv /\ Askers /\ Promises /\ NobodyStranded
    BY DEF IInv, CallInv
  <1>2. /\ ops' \in Seq(Op) /\ o \in DOMAIN ops' /\ ops'[o].items = items /\ o \in Nat
        /\ \A p \in DOMAIN ops : p \in DOMAIN ops' /\ ops'[p] = ops[p]
        /\ \A ids \in Seq(DOMAIN ops) : ids \in Seq(DOMAIN ops') /\ Append(ids, o) \in Seq(DOMAIN ops')
    BY <1>1, OpsGrow
  <1>3. UNCHANGED <<closed, flushers, config, late, arrived, given>>
    BY DEF serverVars
  <1>4. /\ pending \in Seq(Event) /\ pushed \in Seq(Event) /\ jobs \in Seq(Job) /\ blocked \in Seq(DOMAIN ops)
        /\ pending \o items \in Seq(Event) /\ Range(items) \subseteq Event
    BY <1>1, JoinedProperties, RangeOfSeq DEF UploaderTypeOK
  <1>5. QueueInv'
    <2>1. CASE UNCHANGED queueVars
      <3>1. UNCHANGED core
        BY <1>3, <2>1 DEF queueVars, core
      <3> QED BY <1>1, <3>1, CoreStays
    <2>2. CASE ~ UNCHANGED queueVars
      <3>1. /\ ~closed /\ Len(pending) + Len(items) <= MaxQueue
            /\ pushed' = pushed \o items /\ Drain(pending \o items)
        BY <2>2 DEF Admit
      <3> QED BY <1>1, <1>3, <3>1, PushKeeps
    <2> QED BY <2>1, <2>2
  <1>6. /\ pending' \in Seq(Event) /\ pushed' \in Seq(Event) /\ draining' \in BOOLEAN
        /\ loops' \in SUBSET Loop /\ (draining => draining')
        /\ \E x \in Seq(Event) : pushed' = pushed \o x
    <2>1. CASE UNCHANGED queueVars
      <3>1. << >> \in Seq(Event) /\ pushed = pushed \o << >>
        BY <1>4
      <3> QED BY <1>1, <2>1, <3>1 DEF queueVars, UploaderTypeOK
    <2>2. CASE pushed' = pushed \o items /\ Drain(pending \o items)
      BY <1>1, <1>4, <2>2, DrainTypes, JoinedProperties
    <2> QED BY <2>1, <2>2 DEF Admit
  <1>7. /\ jobs' \in Seq(Job) /\ Rechecks(jobs') \subseteq Rechecks(jobs)
    <2>1. /\ Append(js, JobOf("resume", o)) \in Seq(Job)
          /\ Rechecks(Append(js, JobOf("resume", o))) = Rechecks(js)
      BY <1>2, RecheckOne
    <2> QED BY <2>1 DEF Admit
  <1>8. \/ blocked' = blocked /\ waited' = waited
        \/ /\ ~closed /\ Len(pending) + Len(items) > MaxQueue
           /\ blocked' = Append(blocked, o) /\ waited' = waited \cup Range(items)
    BY DEF Admit
  <1>9. /\ blocked' \in Seq(DOMAIN ops') /\ flushers' \in Seq(DOMAIN ops') /\ waited' \subseteq Event
        /\ Range(blocked') \subseteq Range(blocked) \cup {o}
    <2>1. flushers \in Seq(DOMAIN ops) /\ waited \subseteq Event
      BY <1>1 DEF UploaderTypeOK
    <2>2. blocked \in Seq(DOMAIN ops')
      BY <1>2, <1>4
    <2>3. Range(Append(blocked, o)) = Range(blocked) \cup {o}
      BY <1>2, <2>2, AppendedProperties
    <2> QED BY <1>2, <1>3, <1>4, <1>8, <2>1, <2>2, <2>3
  <1>10. UploaderTypeOK'
    BY <1>1, <1>2, <1>3, <1>6, <1>7, <1>9 DEF UploaderTypeOK
  <1>11. Askers'
    BY <1>1, <1>2, <1>7, <1>9, AskersStay
  <1>12. Promises'
    <2> SUFFICES ASSUME NEW p \in DOMAIN ops' PROVE Honoured(p)'
      BY DEF Promises
    <2>1. Settled' = Settled /\ Len(pushed) \in Nat /\ Len(pushed) <= Len(pushed') /\ Len(pushed') \in Nat
      BY <1>3, <1>4, <1>6, JoinedProperties DEF Settled
    <2>2. CASE p \in DOMAIN ops
      <3>1. PICK g \in Nat : g = ops[p].goal /\ ops'[p].goal = g
        <4>1. ops[p] \in Op /\ ops'[p] = ops[p]
          BY <1>1, <1>2, <2>2 DEF UploaderTypeOK
        <4> QED BY <4>1 DEF Op
      <3>2. g <= Len(pushed) /\ (~closed => p \in Range(flushers) \/ QueuedFirst(g) \subseteq Settled)
        BY <1>1, <2>2, <3>1 DEF Promises, Honoured
      <3>3. QueuedFirst(g)' = QueuedFirst(g)
        BY <1>4, <1>6, <3>2, FirstStays
      <3>4. g <= Len(pushed')
        BY <2>1, <3>2
      <3> QED BY <1>3, <2>1, <3>1, <3>2, <3>3, <3>4 DEF Honoured
    <2>3. CASE p \notin DOMAIN ops
      <3>1. ops'[p].goal = 0
        BY <2>3
      <3> QED BY <2>1, <3>1, NoneFirst DEF Honoured
    <2> QED BY <2>2, <2>3
  <1>13. NobodyStranded'
    <2> SUFFICES ASSUME ~closed
                 PROVE  /\ pending' # << >> => draining'
                        /\ flushers' # << >> => draining'
                        /\ \A p \in Range(blocked') : draining' \/ Len(ops'[p].items) > MaxQueue'
      BY <1>3 DEF NobodyStranded
    <2>1. MaxQueue' = MaxQueue
      BY <1>3 DEF MaxQueue
    <2>2. pending' # << >> => draining'
      BY <1>3, <1>5 DEF QueueInv
    <2>3. flushers' # << >> => draining'
      BY <1>1, <1>3, <1>6 DEF NobodyStranded
    <2>4. ASSUME NEW p \in Range(blocked), ~draining' PROVE Len(ops'[p].items) > MaxQueue'
      BY <1>1, <1>2, <1>6, <2>1, <2>4 DEF NobodyStranded, Askers
    <2>5. ASSUME o \in Range(blocked'), o \notin Range(blocked), ~draining'
          PROVE  Len(ops'[o].items) > MaxQueue'
      <3>1. Len(pending) + Len(items) > MaxQueue
        BY <1>8, <2>5
      <3>2. Len(pending) = 0
        <4>1. pending = << >>
          BY <1>1, <1>6, <2>5 DEF QueueInv
        <4> QED BY <4>1
      <3>3. Len(items) \in Nat
        OBVIOUS
      <3> QED BY <1>2, <2>1, <3>1, <3>2, <3>3
    <2> QED BY <1>9, <2>2, <2>3, <2>4, <2>5
  <1> QED BY <1>5, <1>10, <1>11, <1>12, <1>13 DEF IInv, CallInv

LEMMA EnqueueKeeps ==
  ASSUME IInv, NEW items \in Seq(Event), NEW js \in Seq(Job), Rechecks(js) \subseteq Rechecks(jobs),
         Enqueue(items, js)
  PROVE  IInv'
  <1>1. /\ items # << >> /\ Admit(Len(ops) + 1, items, js)
        /\ ops' = Append(ops, [items |-> items, goal |-> 0])
        /\ UNCHANGED <<closed, flushers, config, serverVars>>
    BY DEF Enqueue
  <1>2. Grown(Len(ops) + 1, items)
    BY <1>1 DEF Grown
  <1>3. \A p \in DOMAIN ops' : p \in DOMAIN ops \/ ops'[p].goal = 0
    <2>1. ops \in Seq(Op) /\ [items |-> items, goal |-> 0] \in Op
      BY DEF IInv, UploaderTypeOK, Op
    <2> QED BY <1>1, <2>1
  <1> QED BY <1>1, <1>2, <1>3, AdmitKeeps

LEMMA RecheckKeeps == ASSUME IInv, Recheck PROVE IInv'
  <1> DEFINE o == Head(jobs).id
  <1>1. jobs \in Seq(Job) /\ jobs # << >> /\ Head(jobs).kind = "recheck" /\ Askers
    BY DEF Recheck, IInv, UploaderTypeOK, CallInv
  <1>2. Head(jobs) \in Range(jobs) /\ Tail(jobs) \in Seq(Job) /\ Range(Tail(jobs)) \subseteq Range(jobs)
    BY <1>1, TailProperties
  <1>3. o \in DOMAIN ops /\ ops[o].items # << >>
    BY <1>1, <1>2 DEF Askers, Rechecks
  <1>4. ops[o].items \in Seq(Event)
    <2>1. ops[o] \in Op
      BY <1>3 DEF IInv, UploaderTypeOK
    <2> QED BY <2>1 DEF Op
  <1>5. /\ Admit(o, ops[o].items, Tail(jobs)) /\ ops' = ops
        /\ UNCHANGED <<closed, flushers, config, serverVars>>
    BY DEF Recheck
  <1>6. PICK items \in Seq(Event) : items = ops[o].items
    BY <1>4
  <1>7. Grown(o, items) /\ Rechecks(Tail(jobs)) \subseteq Rechecks(jobs)
    BY <1>2, <1>3, <1>5, <1>6 DEF Grown, Rechecks
  <1>8. PICK n : n = o
    OBVIOUS
  <1>9. Grown(n, items) /\ Admit(n, items, Tail(jobs)) /\ items # << >>
    BY <1>3, <1>5, <1>6, <1>7, <1>8
  <1>10. \A p \in DOMAIN ops' : p \in DOMAIN ops \/ ops'[p].goal = 0
    BY <1>5
  <1> QED BY <1>2, <1>5, <1>7, <1>9, <1>10, AdmitKeeps

LEMMA CallerJobsAre ==
  ASSUME UploaderTypeOK, NEW js \in CallerJobs
  PROVE  js \in Seq(Job) /\ Rechecks(js) \subseteq Rechecks(jobs)
  <1>1. jobs \in Seq(Job)
    BY DEF UploaderTypeOK
  <1>2. CASE js = jobs
    BY <1>1, <1>2
  <1>3. CASE js = Tail(jobs) /\ Range(jobs) # {}
    <2>1. jobs # << >>
      BY <1>3 DEF Range
    <2> QED BY <1>1, <1>3, <2>1, TailProperties DEF Rechecks
  <1> QED BY <1>2, <1>3 DEF CallerJobs

\* When the queue is empty and the loop has ended, all that was queued is settled.
LEMMA AllSettled ==
  ASSUME UploaderTypeOK, QueueInv, ~closed, pending = << >>, ~draining
  PROVE  QueuedFirst(Len(pushed)) \subseteq Settled
  <1>1. PICK k \in Nat, b \in Seq(Event) : InHand(k, b)
    BY DEF QueueInv, Split
  <1>2. b = << >>
    BY <1>1 DEF QueueInv, OneInFlight, InHand, Held
  <1>3. Len(b) = 0 /\ Len(pending) = 0
    BY <1>2
  <1>4. Len(pushed) = k
    BY <1>1, <1>3 DEF InHand
  <1> QED BY <1>1, <1>4 DEF InHand

LEMMA FlushKeeps ==
  ASSUME IInv, NEW js \in Seq(Job), Rechecks(js) \subseteq Rechecks(jobs), Flush(js)
  PROVE  IInv'
  <1> DEFINE o == Len(ops) + 1
  <1>1. UploaderTypeOK /\ QueueInv /\ Askers /\ Promises /\ NobodyStranded
    BY DEF IInv, CallInv
  <1>2. ops \in Seq(Op) /\ Len(ops) \in Nat /\ DOMAIN ops = 1..Len(ops) /\ pushed \in Seq(Event) /\ Len(pushed) \in Nat
    BY <1>1 DEF UploaderTypeOK
  <1>3. [items |-> << >>, goal |-> Len(pushed)] \in Op
    BY <1>2 DEF Op
  <1>4. /\ ops' = Append(ops, [items |-> << >>, goal |-> Len(pushed)])
        /\ UNCHANGED <<closed, blocked, waited, config, late, arrived, given, pushed>>
    BY DEF Flush, serverVars
  <1>5. /\ ops' \in Seq(Op) /\ DOMAIN ops' = 1..(Len(ops) + 1)
        /\ \A p \in DOMAIN ops : p \in DOMAIN ops' /\ ops'[p] = ops[p]
        /\ ops'[o].goal = Len(pushed) /\ o \in DOMAIN ops' /\ o \in Nat
    BY <1>2, <1>3, <1>4
  <1>6. \A ids \in Seq(DOMAIN ops) : ids \in Seq(DOMAIN ops') /\ Append(ids, o) \in Seq(DOMAIN ops')
    BY <1>2, <1>3, <1>4, SameIds
  <1> HIDE DEF o
  <1>7. UNCHANGED core
    <2>1. UNCHANGED <<pending, draining, loops>>
      BY <1>1 DEF Flush, Drain, QueueInv
    <2> QED BY <1>4, <2>1 DEF core
  <1>8. QueueInv'
    BY <1>1, <1>7, CoreStays
  <1>9. /\ jobs' = js \/ jobs' = Append(js, JobOf("resume", o))
        /\ \/ flushers' = flushers /\ pending = << >> /\ ~draining
           \/ flushers' = Append(flushers, o) /\ (pending # << >> \/ draining)
    BY DEF Flush, o
  <1>10. flushers \in Seq(DOMAIN ops) /\ blocked \in Seq(DOMAIN ops)
    BY <1>1 DEF UploaderTypeOK
  <1>11. jobs' \in Seq(Job) /\ Rechecks(jobs') \subseteq Rechecks(jobs)
    BY <1>5, <1>9, RecheckOne
  <1>12. /\ flushers' \in Seq(DOMAIN ops') /\ blocked' \in Seq(DOMAIN ops')
         /\ Range(flushers) \subseteq Range(flushers')
         /\ flushers' = Append(flushers, o) => o \in Range(flushers')
    <2>1. flushers \in Seq(DOMAIN ops') /\ Append(flushers, o) \in Seq(DOMAIN ops')
      BY <1>6, <1>10
    <2>2. Range(Append(flushers, o)) = Range(flushers) \cup {o}
      BY <1>5, <2>1, AppendedProperties
    <2>3. blocked' \in Seq(DOMAIN ops')
      BY <1>4, <1>6, <1>10
    <2> QED BY <1>9, <2>1, <2>2, <2>3
  <1>13. UploaderTypeOK'
    BY <1>1, <1>4, <1>5, <1>7, <1>11, <1>12 DEF UploaderTypeOK, core
  <1>14. Askers'
    BY <1>1, <1>4, <1>5, <1>11 DEF Askers
  <1>15. Promises'
    <2> SUFFICES ASSUME NEW p \in DOMAIN ops' PROVE Honoured(p)'
      BY DEF Promises
    <2>1. Settled' = Settled /\ pushed' = pushed /\ closed' = closed
      BY <1>4 DEF Settled
    <2>2. CASE p \in DOMAIN ops
      <3>1. ops'[p] = ops[p] /\ Honoured(p)
        BY <1>1, <1>5, <2>2 DEF Promises
      <3> QED BY <1>12, <2>1, <3>1 DEF Honoured, QueuedFirst
    <2>3. CASE p = o
      <3>1. ops'[p].goal = Len(pushed)
        BY <1>5, <2>3
      <3>2. CASE flushers' = flushers /\ pending = << >> /\ ~draining
        <4>1. ~closed => QueuedFirst(Len(pushed)) \subseteq Settled
          BY <1>1, <3>2, AllSettled
        <4> QED BY <1>2, <2>1, <3>1, <4>1 DEF Honoured, QueuedFirst
      <3>3. CASE flushers' = Append(flushers, o)
        <4>1. o \in Range(flushers')
          BY <1>12, <3>3
        <4> QED BY <1>2, <2>1, <2>3, <3>1, <4>1 DEF Honoured
      <3> QED BY <1>9, <3>2, <3>3
    <2>4. p \in DOMAIN ops \/ p = o
      BY <1>2, <1>5 DEF o
    <2> QED BY <2>2, <2>3, <2>4
  <1>16. NobodyStranded'
    <2>1. UNCHANGED <<pending, draining, closed, blocked>> /\ MaxQueue' = MaxQueue
      BY <1>4, <1>7 DEF core, MaxQueue
    <2>2. \A p \in Range(blocked) : p \in DOMAIN ops /\ ops'[p] = ops[p]
      BY <1>1, <1>5 DEF Askers
    <2>3. ~closed => (flushers' # << >> => draining)
      BY <1>1, <1>9 DEF NobodyStranded, QueueInv
    <2> QED BY <1>1, <2>1, <2>2, <2>3 DEF NobodyStranded
  <1> QED BY <1>8, <1>13, <1>14, <1>15, <1>16 DEF IInv, CallInv

\* After close() only the types, the queue and what may still be rechecked matter.
LEMMA ClosedKeeps ==
  ASSUME IInv, closed', UploaderTypeOK', QueueInv', ops' = ops, pushed' = pushed,
         Range(blocked') \subseteq Range(blocked),
         Rechecks(jobs') \subseteq Rechecks(jobs) \cup Range(blocked)
  PROVE  IInv'
  <1>1. Askers'
    BY DEF IInv, CallInv, Askers
  <1>2. Promises'
    BY DEF IInv, CallInv, Promises, Honoured
  <1>3. NobodyStranded'
    BY DEF NobodyStranded
  <1> QED BY <1>1, <1>2, <1>3 DEF IInv, CallInv

\* The jobs that close() adds.
LEMMA ClosingJobs ==
  ASSUME UploaderTypeOK, NEW js \in Seq(Job), NEW w \in Seq(Job), Rechecks(w) = {}
  PROVE  /\ js \o w \o JobsOf("recheck", blocked) \o JobsOf("resume", flushers) \in Seq(Job)
         /\ Rechecks(js \o w \o JobsOf("recheck", blocked) \o JobsOf("resume", flushers))
              \subseteq Rechecks(js) \cup Range(blocked)
         /\ js \o JobsOf("recheck", blocked) \in Seq(Job)
         /\ Rechecks(js \o JobsOf("recheck", blocked)) \subseteq Rechecks(js) \cup Range(blocked)
  <1>1. /\ DOMAIN ops = 1..Len(ops) /\ Len(ops) \in Nat
        /\ blocked \in Seq(1..Len(ops)) /\ flushers \in Seq(1..Len(ops))
    BY DEF UploaderTypeOK
  <1>2. PICK again \in Seq(Job) :
          again = JobsOf("recheck", blocked) /\ \A j \in Range(again) : j.id \in Range(blocked)
    BY <1>1, JobsOfProperties
  <1>3. PICK back \in Seq(Job) :
          back = JobsOf("resume", flushers) /\ \A j \in Range(back) : j.kind = "resume"
    BY <1>1, JobsOfProperties
  <1>4. PICK x \in Seq(Job) : x = js \o w /\ Range(x) = Range(js) \cup Range(w)
    BY JoinedProperties
  <1>5. PICK y \in Seq(Job) : y = x \o again /\ Range(y) = Range(x) \cup Range(again)
    BY JoinedProperties
  <1>6. PICK z \in Seq(Job) : z = y \o back /\ Range(z) = Range(y) \cup Range(back)
    BY JoinedProperties
  <1>7. js \o again \in Seq(Job) /\ Range(js \o again) = Range(js) \cup Range(again)
    BY JoinedProperties
  <1>8. Rechecks(z) \subseteq Rechecks(js) \cup Range(blocked)
    <2>1. Rechecks(z) \subseteq Rechecks(y)
      BY <1>3, <1>6 DEF Rechecks
    <2>2. Rechecks(y) \subseteq Rechecks(x) \cup Range(blocked)
      BY <1>2, <1>5 DEF Rechecks
    <2>3. \A j \in Range(w) : j.kind # "recheck"
      BY DEF Rechecks
    <2>4. Rechecks(x) \subseteq Rechecks(js)
      BY <1>4, <2>3 DEF Rechecks
    <2> QED BY <2>1, <2>2, <2>4
  <1>9. Rechecks(js \o again) \subseteq Rechecks(js) \cup Range(blocked)
    BY <1>2, <1>7 DEF Rechecks
  <1>10. z = js \o w \o JobsOf("recheck", blocked) \o JobsOf("resume", flushers)
    BY <1>2, <1>3, <1>4, <1>5, <1>6
  <1> QED BY <1>2, <1>7, <1>8, <1>9, <1>10

LEMMA CloseCallKeeps ==
  ASSUME IInv, NEW js \in Seq(Job), Rechecks(js) \subseteq Rechecks(jobs), Close(js)
  PROVE  IInv'
  <1>1. UploaderTypeOK /\ QueueInv
    BY DEF IInv
  <1>2. QueueInv'
    BY <1>1, CloseKeeps
  <1>3. CASE closed
    <2>1. /\ jobs' = js /\ closed'
          /\ UNCHANGED <<pending, draining, closed, loops, blocked, flushers, ops, config,
                         late, arrived, given, pushed, waited>>
      BY <1>3 DEF Close, queueVars, waitVars, serverVars
    <2>2. UploaderTypeOK'
      BY <1>1, <2>1 DEF UploaderTypeOK
    <2> QED BY <1>2, <2>1, <2>2, ClosedKeeps
  <1>4. CASE ~closed
    <2> DEFINE w == IF \E l \in loops : l.at = "sleeping" THEN <<JobOf("wake", 0)>> ELSE << >>
    <2>1. w \in Seq(Job) /\ Rechecks(w) = {}
      <3>1. << >> \in Seq(Job) /\ Rechecks(<< >>) = {}
        BY DEF Rechecks, Range
      <3>2. JobOf("wake", 0) \in Job /\ JobOf("wake", 0).kind = "wake"
        BY DEF JobOf, Job
      <3>3. <<JobOf("wake", 0)>> \in Seq(Job) /\ Range(<<JobOf("wake", 0)>>) = {JobOf("wake", 0)}
        BY <3>2 DEF Range
      <3> QED BY <3>1, <3>2, <3>3 DEF Rechecks
    <2>2. /\ closed' = TRUE /\ pending' = << >> /\ blocked' = << >> /\ flushers' = << >>
          /\ loops' = { IF l.at = "sleeping" THEN [l EXCEPT !.at = "waking"] ELSE l : l \in loops }
          /\ jobs' = js \o w \o JobsOf("recheck", blocked) \o JobsOf("resume", flushers)
          /\ UNCHANGED <<draining, pushed, waited, ops, config, late, arrived, given>>
      BY <1>4 DEF Close, serverVars
    <2> HIDE DEF w
    <2>3. /\ jobs' \in Seq(Job)
          /\ Rechecks(jobs') \subseteq Rechecks(jobs) \cup Range(blocked)
      BY <1>1, <2>1, <2>2, ClosingJobs
    <2>4. loops' \in SUBSET Loop
      BY <1>1, <2>2 DEF UploaderTypeOK, Loop
    <2>5. \A S : << >> \in Seq(S)
      OBVIOUS
    <2>6. UploaderTypeOK'
      BY <1>1, <2>2, <2>3, <2>4, <2>5 DEF UploaderTypeOK
    <2>7. Range(blocked') = {}
      BY <2>2 DEF Range
    <2> QED BY <1>2, <2>2, <2>3, <2>6, <2>7, ClosedKeeps
  <1> QED BY <1>3, <1>4

\* A step that leaves all but the jobs alone.
LEMMA IdleKeeps ==
  ASSUME IInv, jobs' \in Seq(Job), Rechecks(jobs') \subseteq Rechecks(jobs),
         UNCHANGED <<queueVars, waitVars, closed, ops, config, serverVars>>
  PROVE  IInv'
  <1>1. UNCHANGED <<pending, draining, closed, loops, blocked, flushers, ops, config,
                    late, arrived, given, pushed, waited>>
    BY DEF queueVars, waitVars, serverVars
  <1>2. UploaderTypeOK' /\ QueueInv'
    BY <1>1, CoreStays DEF IInv, UploaderTypeOK, core
  <1>3. Askers'
    BY <1>1 DEF IInv, CallInv, Askers
  <1>4. Promises'
    BY <1>1 DEF IInv, CallInv, Promises, Honoured, QueuedFirst, Settled
  <1>5. NobodyStranded'
    BY <1>1 DEF IInv, CallInv, NobodyStranded, MaxQueue
  <1> QED BY <1>2, <1>3, <1>4, <1>5 DEF IInv, CallInv

LEMMA CallsKeep == ASSUME IInv, Calls PROVE IInv'
  <1>1. PICK js \in CallerJobs :
          \/ \E items \in Seq(Event) : Enqueue(items, js)
          \/ Flush(js)
          \/ Close(js)
          \/ /\ jobs' = js \/ \E c \in Nat : jobs' = Append(js, JobOf("tick", c))
             /\ UNCHANGED <<queueVars, waitVars, closed, ops, config, serverVars>>
    BY DEF Calls
  <1>2. js \in Seq(Job) /\ Rechecks(js) \subseteq Rechecks(jobs)
    BY CallerJobsAre DEF IInv
  <1>3. ASSUME jobs' = js \/ \E c \in Nat : jobs' = Append(js, JobOf("tick", c)),
               UNCHANGED <<queueVars, waitVars, closed, ops, config, serverVars>>
        PROVE  IInv'
    <2>1. jobs' \in Seq(Job) /\ Rechecks(jobs') \subseteq Rechecks(jobs)
      BY <1>2, <1>3, RecheckOne
    <2> QED BY <1>3, <2>1, IdleKeeps
  <1> QED BY <1>1, <1>2, <1>3, EnqueueKeeps, FlushKeeps, CloseCallKeeps

\* The loop at its head: when it ends on an open uploader, every flush() has been kept.
LEMMA RoundCalls ==
  ASSUME IInv, NEW l \in loops, NEW f \in Nat, NEW js \in Seq(Job), NextRound(l, pending, f, js),
         Rechecks(js) \subseteq Rechecks(jobs) \cup Range(blocked),
         blocked' = << >> \/ (blocked' = blocked /\ l.at # "sending"),
         UNCHANGED <<closed, ops, config, pushed, waited>>, Settled \subseteq Settled', QueueInv',
         late' \in SUBSET SUBSET Event, arrived' \subseteq Event, given' \subseteq Event
  PROVE  IInv'
  <1>1. UploaderTypeOK /\ QueueInv /\ Askers /\ Promises /\ NobodyStranded
    BY DEF IInv, CallInv
  <1>2. /\ pending' \in Seq(Event) /\ draining' \in BOOLEAN /\ loops' \in SUBSET Loop
        /\ jobs' \in Seq(Job) /\ flushers' \in Seq(DOMAIN ops)
        /\ Rechecks(jobs') \subseteq Rechecks(js)
    BY <1>1, RoundTypes
  <1>3. blocked' \in Seq(DOMAIN ops)
    <2>1. << >> \in Seq(DOMAIN ops)
      OBVIOUS
    <2> QED BY <1>1, <2>1 DEF UploaderTypeOK
  <1>4. UploaderTypeOK'
    BY <1>1, <1>2, <1>3 DEF UploaderTypeOK
  <1>5. pending \in Seq(Event) /\ loops \ {l} = {} /\ draining
    BY <1>1, LoopIs DEF UploaderTypeOK
  <1>6. \/ ~closed /\ draining' /\ flushers' = flushers
        \/ /\ pending = << >> \/ closed
           /\ pending' = pending /\ loops' = {} /\ ~draining'
           /\ pending = << >> => flushers' = << >>
           /\ pending # << >> => flushers' = flushers
    BY <1>1, <1>5, RoundDoes
  <1>7. Range(<< >>) = {}
    BY DEF Range
  <1>8. Askers'
    <2>1. Range(blocked') \subseteq Range(blocked)
      BY <1>7
    <2> QED BY <1>1, <1>2, <2>1 DEF Askers
  <1>9. Promises'
    <2> SUFFICES ASSUME NEW p \in DOMAIN ops PROVE Honoured(p)'
      BY DEF Promises
    <2>1. PICK g \in Nat : g = ops[p].goal
      <3>1. ops[p] \in Op
        BY <1>1 DEF UploaderTypeOK
      <3> QED BY <3>1 DEF Op
    <2>2. g <= Len(pushed) /\ (~closed => p \in Range(flushers) \/ QueuedFirst(g) \subseteq Settled)
      BY <1>1, <2>1 DEF Promises, Honoured
    <2>3. QueuedFirst(g)' = QueuedFirst(g) /\ pushed \in Seq(Event)
      BY <1>1 DEF QueuedFirst, UploaderTypeOK
    <2>4. CASE closed \/ flushers' = flushers
      BY <2>1, <2>2, <2>3, <2>4 DEF Honoured
    <2>5. CASE ~closed /\ pending' = << >> /\ ~draining'
      <3>1. QueuedFirst(Len(pushed)) \subseteq Settled'
        <4>1. PICK k \in Nat, b \in Seq(Event) : InHand(k, b)'
          BY DEF QueueInv, Split
        <4>2. b = << >>
          BY <2>5, <4>1 DEF QueueInv, OneInFlight, InHand, Held
        <4>3. Len(b) = 0 /\ Len(pending') = 0
          BY <2>5, <4>2
        <4>4. Len(pushed) = k
          BY <2>5, <4>1, <4>3 DEF InHand
        <4> QED BY <4>1, <4>4 DEF InHand, QueuedFirst
      <3>2. QueuedFirst(g) \subseteq QueuedFirst(Len(pushed))
        BY <2>2, <2>3 DEF QueuedFirst
      <3> QED BY <2>1, <2>2, <2>3, <3>1, <3>2 DEF Honoured
    <2> QED BY <1>6, <2>4, <2>5
  <1>10. NobodyStranded'
    <2> SUFFICES ASSUME ~closed
                 PROVE  /\ pending' # << >> => draining'
                        /\ flushers' # << >> => draining'
                        /\ \A p \in Range(blocked') : draining' \/ Len(ops[p].items) > MaxQueue'
      BY DEF NobodyStranded
    <2>1. pending' # << >> => draining'
      BY DEF QueueInv
    <2>2. flushers' # << >> => draining'
      BY <1>6
    <2>3. blocked' = << >> \/ draining'
      <3>1. l.at \in {"sending", "sleeping", "waking"}
        BY <1>1, LoopIs DEF Loop
      <3>2. blocked' = << >> \/ pending # << >>
        BY <1>1, <3>1 DEF QueueInv, Shapes
      <3> QED BY <1>6, <3>2
    <2> QED BY <1>7, <2>1, <2>2, <2>3
  <1> QED BY <1>4, <1>8, <1>9, <1>10 DEF IInv, CallInv

LEMMA BatchTypes ==
  ASSUME UploaderTypeOK, NEW l \in loops
  PROVE  Range(l.batch) \subseteq Event /\ l.failures \in Nat /\ Failures(l) \in Nat
  <1>1. l \in Loop
    BY DEF UploaderTypeOK
  <1>2. l.batch \in Seq(Event) /\ l.failures \in Nat
    BY <1>1 DEF Loop
  <1> QED BY <1>2, RangeOfSeq DEF Failures

LEMMA OutcomeTypes ==
  ASSUME UploaderTypeOK, NEW l \in loops, Outcome(l.batch)
  PROVE  late' \in SUBSET SUBSET Event /\ arrived' \subseteq Event
  <1>1. Range(l.batch) \subseteq Event /\ Range(l.batch) \in SUBSET Event
    BY BatchTypes
  <1>2. late \in SUBSET SUBSET Event /\ arrived \subseteq Event
    BY DEF UploaderTypeOK
  <1>3. late' \subseteq late \cup {Range(l.batch)} /\ arrived' \subseteq arrived \cup Range(l.batch)
    BY DEF Outcome
  <1> QED BY <1>1, <1>2, <1>3

LEMMA AnsweredCalls ==
  ASSUME IInv, NEW l \in Sending, Deliver(l) \/ Refuse(l) \/ Drop(l)
  PROVE  IInv'
  <1>1. l \in loops /\ BatchDone(l) /\ UploaderTypeOK /\ QueueInv
    BY DEF Sending, Deliver, Refuse, Drop, IInv
  <1>2. QueueInv'
    BY <1>1, AnsweredKeeps
  <1>3. /\ NextRound(l, pending, 0, jobs \o JobsOf("recheck", blocked)) /\ blocked' = << >>
        /\ UNCHANGED <<closed, ops, config, pushed, waited>>
    BY <1>1 DEF BatchDone
  <1>4. given \subseteq given' /\ arrived \subseteq arrived'
    BY DEF Deliver, Refuse, Drop, Outcome
  <1>5. late' \in SUBSET SUBSET Event /\ arrived' \subseteq Event /\ given' \subseteq Event
    <2>1. CASE Deliver(l) \/ Refuse(l)
      BY <1>1, <2>1, BatchTypes DEF Deliver, Refuse, UploaderTypeOK
    <2>2. CASE Drop(l)
      BY <1>1, <2>2, BatchTypes, OutcomeTypes DEF Drop, UploaderTypeOK
    <2> QED BY <2>1, <2>2
  <1>6. /\ jobs \o JobsOf("recheck", blocked) \in Seq(Job)
        /\ Rechecks(jobs \o JobsOf("recheck", blocked)) \subseteq Rechecks(jobs) \cup Range(blocked)
    <2>1. jobs \in Seq(Job) /\ << >> \in Seq(Job) /\ Rechecks(<< >>) = {}
      BY <1>1 DEF UploaderTypeOK, Rechecks, Range
    <2> QED BY <1>1, <2>1, ClosingJobs
  <1>7. Settled \subseteq Settled'
    BY <1>4 DEF Settled
  <1>8. PICK js \in Seq(Job) : js = jobs \o JobsOf("recheck", blocked)
    BY <1>6
  <1> QED BY <1>1, <1>2, <1>3, <1>5, <1>6, <1>7, <1>8, RoundCalls

LEMMA RetryCalls == ASSUME IInv, NEW l \in Sending, Retry(l) PROVE IInv'
  <1>1. l \in loops /\ UploaderTypeOK /\ QueueInv
    BY DEF Sending, IInv
  <1>2. QueueInv'
    BY <1>1, RetryKeeps
  <1>3. /\ Outcome(l.batch) /\ pending' = l.batch \o pending
        /\ loops' = (loops \ {l}) \cup {SleepingLoop(Failures(l))}
        /\ UNCHANGED <<draining, closed, blocked, flushers, waited, ops, jobs, config, given, pushed>>
    BY DEF Retry, waitVars
  <1>4. late' \in SUBSET SUBSET Event /\ arrived' \subseteq Event
    BY <1>1, <1>3, OutcomeTypes
  <1>5. pending' \in Seq(Event) /\ loops' \in SUBSET Loop
    <2>1. l.batch \in Seq(Event) /\ pending \in Seq(Event) /\ << >> \in Seq(Event)
      BY <1>1 DEF UploaderTypeOK, Loop
    <2>2. SleepingLoop(Failures(l)) \in Loop
      BY <1>1, <2>1, BatchTypes DEF SleepingLoop, Loop
    <2> QED BY <1>1, <1>3, <2>1, <2>2, JoinedProperties DEF UploaderTypeOK
  <1>6. UploaderTypeOK'
    BY <1>1, <1>3, <1>4, <1>5 DEF UploaderTypeOK
  <1>7. Settled \subseteq Settled'
    BY <1>3 DEF Outcome, Settled
  <1>8. Askers'
    BY <1>3 DEF IInv, CallInv, Askers
  <1>9. Promises'
    BY <1>3, <1>7 DEF IInv, CallInv, Promises, Honoured, QueuedFirst
  <1>10. draining
    BY <1>1, LoopIs
  <1>11. NobodyStranded'
    BY <1>3, <1>10 DEF NobodyStranded
  <1> QED BY <1>2, <1>6, <1>8, <1>9, <1>11 DEF IInv, CallInv

LEMMA SupersededCalls == ASSUME IInv, NEW l \in Sending, Superseded(l) PROVE IInv'
  <1>1. l \in loops /\ UploaderTypeOK /\ QueueInv
    BY DEF Sending, IInv
  <1>2. QueueInv'
    BY <1>1, SupersededKeeps
  <1>3. /\ closed' = TRUE /\ pending' = l.batch /\ blocked' = << >> /\ flushers' = << >>
        /\ loops' = (loops \ {l}) \cup {SleepingLoop(Failures(l))}
        /\ jobs' = jobs \o JobsOf("recheck", blocked) \o JobsOf("resume", flushers)
        /\ UNCHANGED <<draining, pushed, waited, ops, config, late, arrived, given>>
    BY DEF Superseded, serverVars
  <1>4. /\ jobs' \in Seq(Job)
        /\ Rechecks(jobs') \subseteq Rechecks(jobs) \cup Range(blocked)
    <2>1. jobs \in Seq(Job) /\ << >> \in Seq(Job) /\ Rechecks(<< >>) = {}
      BY <1>1 DEF UploaderTypeOK, Rechecks, Range
    <2>2. jobs \o << >> = jobs
      BY <2>1
    <2>3. jobs' = jobs \o << >> \o JobsOf("recheck", blocked) \o JobsOf("resume", flushers)
      BY <1>3, <2>2
    <2> QED BY <1>1, <2>1, <2>3, ClosingJobs
  <1>5. pending' \in Seq(Event) /\ loops' \in SUBSET Loop
    <2>1. l.batch \in Seq(Event) /\ << >> \in Seq(Event)
      BY <1>1 DEF UploaderTypeOK, Loop
    <2>2. SleepingLoop(Failures(l)) \in Loop
      BY <1>1, <2>1, BatchTypes DEF SleepingLoop, Loop
    <2> QED BY <1>1, <1>3, <2>1, <2>2 DEF UploaderTypeOK
  <1>6. UploaderTypeOK'
    <2>1. \A S : << >> \in Seq(S)
      OBVIOUS
    <2> QED BY <1>1, <1>3, <1>4, <1>5, <2>1 DEF UploaderTypeOK
  <1>7. Range(blocked') = {}
    BY <1>3 DEF Range
  <1> QED BY <1>2, <1>3, <1>4, <1>6, <1>7, ClosedKeeps

LEMMA WakesCalls == ASSUME IInv, NEW l \in loops, SleepEnds(l) \/ Wake(l) PROVE IInv'
  <1>1. UploaderTypeOK /\ QueueInv /\ jobs \in Seq(Job)
    BY DEF IInv, UploaderTypeOK
  <1>2. QueueInv'
    BY <1>1, WakesKeeps
  <1>3. PICK js \in Seq(Job) :
          NextRound(l, pending, l.failures, js) /\ Rechecks(js) \subseteq Rechecks(jobs)
    <2>1. CASE SleepEnds(l)
      BY <1>1, <2>1 DEF SleepEnds
    <2>2. CASE Wake(l)
      <3>1. jobs # << >> /\ NextRound(l, pending, l.failures, Tail(jobs))
        BY <2>2 DEF Wake
      <3>2. Tail(jobs) \in Seq(Job) /\ Range(Tail(jobs)) \subseteq Range(jobs)
        BY <1>1, <3>1, TailProperties
      <3> QED BY <3>1, <3>2 DEF Rechecks
    <2> QED BY <2>1, <2>2
  <1>4. /\ l.at # "sending" /\ l.failures \in Nat
        /\ UNCHANGED <<closed, blocked, waited, ops, config, pushed, late, arrived, given>>
    <2>1. l.at = "sleeping" \/ l.at = "waking"
      BY DEF SleepEnds, Wake
    <2> QED BY <1>1, <2>1, BatchTypes DEF SleepEnds, Wake, serverVars
  <1>5. late' \in SUBSET SUBSET Event /\ arrived' \subseteq Event /\ given' \subseteq Event
    BY <1>1, <1>4 DEF UploaderTypeOK
  <1>6. Settled \subseteq Settled'
    BY <1>4 DEF Settled
  <1> QED BY <1>2, <1>3, <1>4, <1>5, <1>6, RoundCalls

LEMMA LandLateCalls == ASSUME IInv, LandLate PROVE IInv'
  <1>1. UploaderTypeOK /\ QueueInv
    BY DEF IInv
  <1>2. QueueInv'
    BY <1>1, LandLateKeeps
  <1>3. /\ \E B \in late : arrived' = arrived \cup B /\ late' = late \ {B}
        /\ UNCHANGED <<pending, draining, loops, pushed, blocked, flushers, waited, closed, ops,
                       jobs, config, given>>
    BY DEF LandLate, queueVars, waitVars
  <1>4. UploaderTypeOK'
    BY <1>1, <1>3 DEF UploaderTypeOK
  <1>5. Settled \subseteq Settled'
    BY <1>3 DEF Settled
  <1>6. Askers'
    BY <1>3 DEF IInv, CallInv, Askers
  <1>7. Promises'
    BY <1>3, <1>5 DEF IInv, CallInv, Promises, Honoured, QueuedFirst
  <1>8. NobodyStranded'
    BY <1>3 DEF IInv, CallInv, NobodyStranded, MaxQueue
  <1> QED BY <1>2, <1>4, <1>6, <1>7, <1>8 DEF IInv, CallInv

LEMMA UploaderStepKeeps == IInv /\ [UploaderNext]_uploaderVars => IInv'
  <1> SUFFICES ASSUME IInv, [UploaderNext]_uploaderVars PROVE IInv'
    OBVIOUS
  <1>1. CASE Calls
    BY <1>1, CallsKeep
  <1>2. CASE Recheck
    BY <1>2, RecheckKeeps
  <1>3. ASSUME NEW l \in Sending, Deliver(l) \/ Refuse(l) \/ Drop(l) \/ Retry(l) \/ Superseded(l)
        PROVE  IInv'
    BY <1>3, AnsweredCalls, RetryCalls, SupersededCalls
  <1>4. ASSUME NEW l \in loops, SleepEnds(l) \/ Wake(l) PROVE IInv'
    BY <1>4, WakesCalls
  <1>5. CASE LandLate
    BY <1>5, LandLateCalls
  <1>6. CASE UNCHANGED uploaderVars
    <2>1. /\ UNCHANGED <<queueVars, waitVars, closed, ops, config, serverVars>> /\ jobs' = jobs
      BY <1>6 DEF uploaderVars, queueVars, waitVars, serverVars
    <2>2. jobs' \in Seq(Job) /\ Rechecks(jobs') \subseteq Rechecks(jobs)
      BY <2>1 DEF IInv, UploaderTypeOK
    <2> QED BY <2>1, <2>2, IdleKeeps
  <1> QED BY <1>1, <1>2, <1>3, <1>4, <1>5, <1>6 DEF UploaderNext

LEMMA Invariance == UploaderSpec => []IInv
  <1>1. UploaderInit => IInv
    BY Start
  <1> QED BY <1>1, UploaderStepKeeps, PTL DEF UploaderSpec

(* Theorems *)

\* The state of an uploader has the types of cli/transports/SerialBatchEventUploader.ts,
\* whoever calls it and in whatever order promises, answers and timers come.
THEOREM UploaderTypes == UploaderSpec => []UploaderTypeOK
  <1>1. IInv => UploaderTypeOK
    BY DEF IInv
  <1> QED BY <1>1, Invariance, PTL

\* One POST at a time: the flag of drain() (lines 157-158) is set exactly while one
\* loop runs, however many calls, pauses and wakes there are.
THEOREM OnePost == UploaderSpec => []OneInFlight
  <1>1. IInv => OneInFlight
    BY DEF IInv, QueueInv
  <1> QED BY <1>1, Invariance, PTL

\* While the uploader is open, every queued event, every flush() and every enqueue() that
\* may get room has a loop at work for it: no wake-up is lost (lines 108-114, 131-134, 257-261).
THEOREM NoLostWakeUp == UploaderSpec => []NobodyStranded
  <1>1. IInv => NobodyStranded
    BY DEF IInv, CallInv
  <1> QED BY <1>1, Invariance, PTL

\* The queue and the batch in flight never exceed maxQueueSize by more than one batch,
\* although a failed batch is put back without room being asked for (line 186).
THEOREM BoundedQueue == UploaderSpec => []QueueBounded
  <1>1. IInv => QueueBounded
    <2> SUFFICES ASSUME IInv PROVE QueueBounded
      OBVIOUS
    <2>1. UploaderTypeOK /\ Shapes /\ Len(pending) \in Nat
      BY DEF IInv, QueueInv, UploaderTypeOK
    <2>2. ASSUME NEW l \in loops PROVE Len(l.batch) + Len(pending) <= MaxQueue + MaxBatch
      <3>1. l.batch \in Seq(Event) /\ Len(l.batch) \in Nat
        BY <2>1 DEF UploaderTypeOK, Loop
      <3>2. MaxQueue \in Nat /\ MaxBatch \in Nat
        BY <2>1, Configured
      <3>3. CASE l.at = "sending"
        <4>1. Len(l.batch) <= MaxBatch /\ Len(pending) <= MaxQueue
          BY <2>1, <3>3 DEF Shapes
        <4> QED BY <2>1, <3>1, <3>2, <4>1
      <3>4. CASE l.at # "sending"
        <4>1. Len(l.batch) = 0 /\ Len(pending) <= MaxQueue + MaxBatch
          BY <2>1, <3>4 DEF Shapes
        <4> QED BY <2>1, <3>1, <3>2, <4>1
      <3> QED BY <3>3, <3>4
    <2> QED BY <2>1, <2>2 DEF QueueBounded, Shapes
  <1> QED BY <1>1, Invariance, PTL

\* When flush() has returned on an open uploader, all that was queued before the call was
\* received or given up (lines 127-135, 193-199).
THEOREM FlushIsKept == UploaderSpec => []SettledOnReturn
  <1>1. IInv => SettledOnReturn
    BY DEF IInv, CallInv, Promises, Honoured, SettledOnReturn, Waiting
  <1> QED BY <1>1, Invariance, PTL

(* The uploader implements OrderedDelivery *)

\* An enqueue(): the log grows at its end, or stays.
LEMMA AdmitRefines ==
  ASSUME UploaderTypeOK, NEW o, NEW items \in Seq(Event), NEW js, Admit(o, items, js),
         UNCHANGED <<closed, config, serverVars>>
  PROVE  [Ordered!Next]_Ordered!vars
  <1>1. closed' = closed /\ arrived' = arrived /\ given' = given
    BY DEF serverVars
  <1>2. CASE pushed' = pushed
    BY <1>1, <1>2 DEF Ordered!vars
  <1>3. CASE ~closed /\ pushed' = pushed \o items
    <2>1. pushed \in Seq(Event) /\ Len(pushed) \in Nat /\ Len(items) \in Nat
      BY DEF UploaderTypeOK
    <2>2. /\ pushed' \in Seq(Event) /\ Len(pushed') = Len(pushed) + Len(items)
          /\ \A i \in 1..Len(pushed) : pushed'[i] = pushed[i]
      BY <1>3, <2>1, JoinedProperties
    <2>3. SubSeq(pushed', 1, Len(pushed)) = pushed
      BY <2>1, <2>2
    <2>4. Ordered!Accept
      BY <1>1, <1>3, <2>1, <2>2, <2>3 DEF Ordered!Accept
    <2> QED BY <2>4 DEF Ordered!Next
  <1> QED BY <1>2, <1>3 DEF Admit, queueVars

\* Events among the first n are settled, and with them these n.
LEMMA SettleRefines ==
  ASSUME NEW n \in 0..Len(pushed), NEW got, NEW lost, got \subseteq QueuedFirst(n),
         lost \subseteq QueuedFirst(n), arrived' = arrived \cup got, given' = given \cup lost,
         QueuedFirst(n) \subseteq Settled', pushed' = pushed, closed' = closed
  PROVE  [Ordered!Next]_Ordered!vars
  <1>1. Ordered!Prefix(n) = QueuedFirst(n)
    BY DEF Ordered!Prefix, QueuedFirst
  <1>2. Ordered!Settle
    BY <1>1 DEF Ordered!Settle, Settled
  <1> QED BY <1>2 DEF Ordered!Next

LEMMA AnsweredRefines ==
  ASSUME IInv, NEW l \in Sending,
         Deliver(l) \/ Refuse(l) \/ Drop(l) \/ Retry(l) \/ Superseded(l)
  PROVE  [Ordered!Next]_Ordered!vars
  <1>1. l \in loops /\ UploaderTypeOK /\ QueueInv /\ pushed \in Seq(Event) /\ pending \in Seq(Event)
    BY DEF Sending, IInv, UploaderTypeOK
  <1>2. PICK k \in Nat : InHand(k, l.batch) /\ l.batch \in Seq(Event)
    BY <1>1, LoopIs
  <1>3. PICK n \in 0..Len(pushed) : QueuedFirst(n) = QueuedFirst(k) \cup Range(l.batch)
    <2>1. /\ QueuedFirst(k + Len(l.batch)) = QueuedFirst(k) \cup Range(l.batch)
          /\ k + Len(l.batch) \in 0..Len(pushed)
      BY <1>1, <1>2, FirstMore DEF InHand
    <2> QED BY <2>1
  <1>4. QueuedFirst(k) \subseteq Settled
    BY <1>2 DEF InHand
  <1>5. CASE Superseded(l)
    <2>1. closed' = TRUE /\ UNCHANGED <<pushed, arrived, given>>
      BY <1>5 DEF Superseded, serverVars
    <2>2. Ordered!Shut
      BY <2>1 DEF Ordered!Shut
    <2> QED BY <2>2 DEF Ordered!Next
  <1>6. CASE Deliver(l) \/ Refuse(l) \/ Drop(l) \/ Retry(l)
    <2>1. pushed' = pushed /\ closed' = closed
      BY <1>6 DEF Deliver, Refuse, Drop, Retry, BatchDone
    <2>2. PICK got : arrived' = arrived \cup got /\ got \in {{}, Range(l.batch)}
      <3>1. arrived' = arrived \/ arrived' = arrived \cup Range(l.batch)
        BY <1>6 DEF Deliver, Refuse, Drop, Retry, Outcome
      <3> QED BY <3>1
    <2>3. PICK lost : given' = given \cup lost /\ lost \in {{}, Range(l.batch)}
      <3>1. given' = given \/ given' = given \cup Range(l.batch)
        BY <1>6 DEF Deliver, Refuse, Drop, Retry
      <3> QED BY <3>1
    <2>4. CASE arrived' = arrived /\ given' = given
      BY <2>1, <2>4 DEF Ordered!vars
    <2>5. CASE got = Range(l.batch) \/ lost = Range(l.batch)
      <3>1. QueuedFirst(n) \subseteq Settled'
        BY <1>3, <1>4, <2>2, <2>3, <2>5 DEF Settled
      <3>2. got \subseteq QueuedFirst(n) /\ lost \subseteq QueuedFirst(n)
        BY <1>3, <2>2, <2>3
      <3> QED BY <2>1, <2>2, <2>3, <3>1, <3>2, SettleRefines
    <2> QED BY <2>2, <2>3, <2>4, <2>5
  <1> QED BY <1>5, <1>6

LEMMA CallsRefine == ASSUME IInv, Calls PROVE [Ordered!Next]_Ordered!vars
  <1>1. PICK js \in CallerJobs :
          \/ \E items \in Seq(Event) : Enqueue(items, js)
          \/ Flush(js)
          \/ Close(js)
          \/ UNCHANGED <<queueVars, waitVars, closed, ops, config, serverVars>>
    BY DEF Calls
  <1>2. ASSUME NEW items \in Seq(Event), Enqueue(items, js)
        PROVE  [Ordered!Next]_Ordered!vars
    <2>1. Admit(Len(ops) + 1, items, js) /\ UNCHANGED <<closed, config, serverVars>> /\ UploaderTypeOK
      BY <1>2 DEF Enqueue, IInv
    <2> QED BY <2>1, AdmitRefines
  <1>3. CASE Flush(js) \/ UNCHANGED <<queueVars, waitVars, closed, ops, config, serverVars>>
    BY <1>3 DEF Flush, queueVars, serverVars, Ordered!vars
  <1>4. CASE Close(js)
    <2>1. /\ UNCHANGED <<pushed, arrived, given>>
          /\ closed' = closed \/ closed' = TRUE
      BY <1>4 DEF Close, queueVars, serverVars
    <2>2. CASE closed' = closed
      BY <2>1, <2>2 DEF Ordered!vars
    <2>3. CASE closed' = TRUE
      <3>1. Ordered!Shut
        BY <2>1, <2>3 DEF Ordered!Shut
      <3> QED BY <3>1 DEF Ordered!Next
    <2> QED BY <2>1, <2>2, <2>3
  <1> QED BY <1>1, <1>2, <1>3, <1>4

LEMMA StepRefines == IInv /\ [UploaderNext]_uploaderVars => [Ordered!Next]_Ordered!vars
  <1> SUFFICES ASSUME IInv, [UploaderNext]_uploaderVars PROVE [Ordered!Next]_Ordered!vars
    OBVIOUS
  <1>1. CASE Calls
    BY <1>1, CallsRefine
  <1>2. CASE Recheck
    <2>1. jobs \in Seq(Job) /\ jobs # << >> /\ Head(jobs).kind = "recheck" /\ UploaderTypeOK /\ Askers
      BY <1>2 DEF Recheck, IInv, UploaderTypeOK, CallInv
    <2>2. Head(jobs) \in Range(jobs)
      BY <2>1, TailProperties
    <2>3. Head(jobs).id \in DOMAIN ops
      BY <2>1, <2>2 DEF Askers, Rechecks
    <2>4. ops[Head(jobs).id] \in Op
      BY <2>1, <2>3 DEF UploaderTypeOK
    <2>5. PICK items \in Seq(Event) : items = ops[Head(jobs).id].items
      BY <2>4 DEF Op
    <2>6. PICK o : o = Head(jobs).id
      OBVIOUS
    <2>7. Admit(o, items, Tail(jobs)) /\ UNCHANGED <<closed, config, serverVars>>
      BY <1>2, <2>5, <2>6 DEF Recheck
    <2> QED BY <2>1, <2>7, AdmitRefines
  <1>3. ASSUME NEW l \in Sending, Deliver(l) \/ Refuse(l) \/ Drop(l) \/ Retry(l) \/ Superseded(l)
        PROVE  [Ordered!Next]_Ordered!vars
    BY <1>3, AnsweredRefines
  <1>4. ASSUME NEW l \in loops, SleepEnds(l) \/ Wake(l) PROVE [Ordered!Next]_Ordered!vars
    <2>1. UNCHANGED <<pushed, closed, arrived, given>>
      BY <1>4 DEF SleepEnds, Wake, serverVars
    <2> QED BY <2>1 DEF Ordered!vars
  <1>5. CASE LandLate
    <2>1. PICK B \in late : arrived' = arrived \cup B /\ UNCHANGED <<pushed, closed, given>>
      BY <1>5 DEF LandLate, queueVars
    <2>2. PICK n \in 0..Len(pushed) : B \subseteq QueuedFirst(n) /\ QueuedFirst(n) \subseteq Settled \cup B
      BY <2>1 DEF IInv, QueueInv, Lates, Lands
    <2>3. QueuedFirst(n) \subseteq Settled'
      BY <2>1, <2>2 DEF Settled
    <2>4. PICK lost : given' = given \cup lost /\ lost \subseteq QueuedFirst(n)
      <3>1. given' = given \cup {} /\ {} \subseteq QueuedFirst(n)
        BY <2>1
      <3> QED BY <3>1
    <2> QED BY <2>1, <2>2, <2>3, <2>4, SettleRefines
  <1>6. CASE UNCHANGED uploaderVars
    BY <1>6 DEF uploaderVars, Ordered!vars
  <1> QED BY <1>1, <1>2, <1>3, <1>4, <1>5, <1>6 DEF UploaderNext

\* Whatever the server, the network and the callers do, events reach the server in the
\* order in which they were queued: none before every earlier one was received or given
\* up. Only an event that was given up may turn up later, and one that was received again.
\* This is what the batches, the retries and the late requests of the drain loop (lines
\* 158-204) add up to.
THEOREM OrderedDelivered == UploaderSpec => DeliversInOrder
  <1>1. UploaderInit => Ordered!Init
    BY DEF UploaderInit, Ordered!Init
  <1> QED BY <1>1, Invariance, StepRefines, PTL DEF UploaderSpec, DeliversInOrder, Ordered!Spec
=============================================================================
