----------------------------- MODULE ReplTurnProofs ----------------------------
(* Proofs about ReplTurn for any set of commands and any number of turns alive *)
(* at the same time.                                                           *)
EXTENDS ReplTurn, TLAPS

-------------------------------------------------------------------------------
(* Type correctness *)

LEMMA InitTypeOK == Init => TypeOK
BY DEF Init, TypeOK, Phases, None

\* What the operators that actions share do to the types.
LEMMA QueueTypes ==
  ASSUME TypeOK, NEW S \in SUBSET Commands
  PROVE  /\ Enqueue(S) => age' \in [Commands -> Nat]
         /\ Remove(S) => age' \in [Commands -> Nat] /\ recast' = recast
BY DEF TypeOK, Enqueue, Remove

LEMMA GuardTypes ==
  ASSUME TypeOK, Reserve \/ CancelReservation
  PROVE  status' \in {"idle", "dispatching", "running"} /\ generation' \in Nat
BY DEF TypeOK, Reserve, CancelReservation

LEMMA FreesTypes ==
  ASSUME TypeOK, NEW a \in Turns, Frees(a)
  PROVE  /\ phase' \in [Turns -> Phases] /\ batch' \in [Turns -> SUBSET Commands]
         /\ direct' \in [Turns -> BOOLEAN] /\ held' \in [Turns -> Nat]
         /\ aborted' \in [Turns -> {"no", "user-cancel", "interrupt"}]
BY DEF TypeOK, Frees, Phases

LEMMA ReturnsTypes ==
  ASSUME TypeOK, NEW a \in Turns, Returns(a)
  PROVE  /\ phase' \in [Turns -> Phases] /\ batch' \in [Turns -> SUBSET Commands]
         /\ direct' \in [Turns -> BOOLEAN] /\ held' \in [Turns -> Nat]
         /\ aborted' \in [Turns -> {"no", "user-cancel", "interrupt"}]
<1>1. CASE direct[a]
  BY <1>1, FreesTypes DEF Returns
<1>2. CASE ~direct[a]
  BY <1>2 DEF Returns, TypeOK, Phases
<1> QED
  BY <1>1, <1>2

LEMMA BeginsTypes ==
  ASSUME TypeOK, NEW a \in Turns, NEW S \in SUBSET Commands, Begins(a, S)
  PROVE  /\ phase' \in [Turns -> Phases] /\ batch' \in [Turns -> SUBSET Commands]
         /\ direct' \in [Turns -> BOOLEAN] /\ held' = held /\ drained' = drained
         /\ aborted' \in [Turns -> {"no", "user-cancel", "interrupt"}]
         /\ controller' \in Turns \cup {None}
         /\ status' \in {"idle", "dispatching", "running"} /\ generation' \in Nat
BY GuardTypes DEF TypeOK, Begins, Phases

LEMMA TakenTypes == \A c \in Queued : Taken(c) \in SUBSET Commands
BY DEF Taken, Queued

LEMMA UserTypeOK == TypeOK /\ UserStep => TypeOK'
<1> SUFFICES ASSUME TypeOK, UserStep PROVE TypeOK'
  OBVIOUS
<1>1. ASSUME NEW c \in Commands, SubmitRuns(c) PROVE TypeOK'
  <2>1. PICK a \in Turns : Begins(a, {c})
    BY <1>1 DEF SubmitRuns
  <2> QED
    BY <1>1, <2>1, BeginsTypes DEF SubmitRuns, TypeOK, queue
<1>2. ASSUME NEW c \in Commands, SubmitWaits(c) PROVE TypeOK'
  <2>1. age' \in [Commands -> Nat]
    BY <1>2, QueueTypes DEF SubmitWaits
  <2>2. aborted' \in [Turns -> {"no", "user-cancel", "interrupt"}]
    BY <1>2 DEF SubmitWaits, TypeOK
  <2> QED
    BY <1>2, <2>1, <2>2 DEF SubmitWaits, TypeOK, guard
<1>3. ASSUME NEW c \in Commands, Notify(c) PROVE TypeOK'
  <2>1. age' \in [Commands -> Nat]
    BY <1>3, QueueTypes DEF Notify
  <2> QED
    BY <1>3, <2>1 DEF Notify, TypeOK, guard, turns
<1>4. ASSUME NEW c \in Commands, Incoming(c) PROVE TypeOK'
  BY <1>4 DEF Incoming, TryStart, TypeOK, Phases, queue
<1>5. CASE Cancel
  <2>1. status' \in {"idle", "dispatching", "running"} /\ generation' \in Nat
    BY <1>5 DEF Cancel, ForceEnd, TypeOK
  <2> QED
    BY <1>5, <2>1 DEF Cancel, TypeOK, None, queue, fate
<1>6. CASE Pop
  <2>1. Editable \in SUBSET Commands
    BY DEF Editable, Queued
  <2>2. age' \in [Commands -> Nat] /\ recast' = recast
    BY <1>6, <2>1, QueueTypes DEF Pop
  <2> QED
    BY <1>6, <2>1, <2>2 DEF Pop, TypeOK, guard, turns
<1>7. CASE KillAgents
  <2>1. Queued \in SUBSET Commands
    BY DEF Queued
  <2>2. age' \in [Commands -> Nat] /\ recast' = recast
    BY <1>7, <2>1, QueueTypes DEF KillAgents
  <2> QED
    BY <1>7, <2>1, <2>2 DEF KillAgents, TypeOK, guard, turns
<1> QED
  BY <1>1, <1>2, <1>3, <1>4, <1>5, <1>6, <1>7 DEF UserStep

LEMMA EffectTypeOK == TypeOK /\ QueueEffect => TypeOK'
<1> SUFFICES ASSUME TypeOK, QueueEffect PROVE TypeOK'
  OBVIOUS
<1>1. PICK c \in Queued : (\E a \in Turns : Begins(a, Taken(c))) /\ Remove(Taken(c))
  BY DEF QueueEffect
<1>2. PICK a \in Turns : Begins(a, Taken(c))
  BY <1>1
<1>3. age' \in [Commands -> Nat] /\ recast' = recast
  BY <1>1, TakenTypes, QueueTypes
<1> QED
  BY <1>2, <1>3, TakenTypes, BeginsTypes DEF QueueEffect, TypeOK, fate

LEMMA InputTypeOK ==
  ASSUME TypeOK, NEW a \in Turns, InputStep(a)
  PROVE  TypeOK'
<1>1. batch[a] \in SUBSET Commands
  BY DEF TypeOK
<1>2. CASE InputQueries(a)
  BY <1>1, <1>2 DEF InputQueries, TryStart, TypeOK, Phases, queue
<1>3. CASE InputRequeues(a)
  <2>1. age' \in [Commands -> Nat]
    BY <1>1, <1>3, QueueTypes DEF InputRequeues
  <2> QED
    BY <1>1, <1>3, <2>1 DEF InputRequeues, TypeOK, Phases, guard, fate
<1>4. CASE InputSilent(a)
  BY <1>1, <1>4, GuardTypes, FreesTypes DEF InputSilent, TypeOK, queue, None
<1>5. CASE InputThrows(a)
  BY <1>1, <1>5, GuardTypes, FreesTypes DEF InputThrows, TypeOK, queue
<1>6. CASE InputSkips(a)
  BY <1>1, <1>6 DEF InputSkips, TryStart, TypeOK, Phases, None, queue
<1> QED
  BY <1>2, <1>3, <1>4, <1>5, <1>6 DEF InputStep

LEMMA QueryTypeOK ==
  ASSUME TypeOK, NEW a \in Turns, QueryStep(a)
  PROVE  TypeOK'
<1>1. drained[a] \in SUBSET Commands
  BY DEF TypeOK
<1>2. CASE DrainBegins(a)
  <2>1. drained' \in [Turns -> SUBSET Commands]
    BY <1>2 DEF DrainBegins, TypeOK, Queued
  <2> QED
    BY <1>2, <2>1 DEF DrainBegins, TypeOK, Phases, guard, queue, fate
<1>3. CASE DrainAttaches(a)
  BY <1>1, <1>3 DEF DrainAttaches, TypeOK, Phases, guard, queue
<1>4. CASE DrainRemoves(a)
  <2>1. age' \in [Commands -> Nat] /\ recast' = recast
    BY <1>1, <1>4, QueueTypes DEF DrainRemoves
  <2> QED
    BY <1>4, <2>1 DEF DrainRemoves, TypeOK, Phases, guard, fate
<1>5. CASE QueryEnds(a)
  <2>1. drained' \in [Turns -> SUBSET Commands] /\ status' \in {"idle", "dispatching", "running"}
    BY <1>5 DEF QueryEnds, TypeOK
  <2>2. CASE Ends(a)
    BY <1>5, <2>1, <2>2 DEF QueryEnds, TypeOK, Phases, queue, fate
  <2>3. CASE ~Ends(a)
    BY <1>5, <2>1, <2>3, ReturnsTypes DEF QueryEnds, TypeOK, queue, fate
  <2> QED
    BY <2>2, <2>3
<1> QED
  BY <1>2, <1>3, <1>4, <1>5 DEF QueryStep

LEMMA NextTypeOK == TypeOK /\ [Next]_vars => TypeOK'
<1> SUFFICES ASSUME TypeOK, [Next]_vars PROVE TypeOK'
  OBVIOUS
<1>1. ASSUME NEW a \in Turns, Finalizes(a) PROVE TypeOK'
  BY <1>1, ReturnsTypes DEF Finalizes, TypeOK, guard, queue, fate, None
<1>2. ASSUME NEW a \in Turns, Leaves(a) PROVE TypeOK'
  BY <1>2, GuardTypes, FreesTypes DEF Leaves, TypeOK, queue, fate
<1>3. CASE UNCHANGED vars
  BY <1>3 DEF vars, guard, queue, fate, turns, TypeOK
<1> QED
  BY <1>1, <1>2, <1>3, UserTypeOK, EffectTypeOK, InputTypeOK, QueryTypeOK
  DEF Next, Quiet

\* Every variable of the REPL's turns keeps its type, whatever is submitted,
\* cancelled, drained or requeued.
THEOREM TypeCorrect == Spec => []TypeOK
<1> QED
  BY InitTypeOK, NextTypeOK, PTL DEF Spec

-------------------------------------------------------------------------------
(* The guard is held by a turn that will release it *)

\* A turn's generation is one the guard has given out, and no two queries have
\* the same: tryStart increments it.
HeldDistinct ==
  /\ \A a \in Turns : held[a] <= generation
  /\ \A a, b \in Turns :
       phase[a] \in Querying /\ phase[b] \in Querying /\ held[a] = held[b] => a = b

GuardInv == TypeOK /\ GuardHeld /\ HeldDistinct

LEMMA InitGuardInv == Init => GuardInv
BY InitTypeOK DEF Init, GuardInv, GuardHeld, HeldDistinct, Querying

\* Every step keeps the generations distinct.
LEMMA NextHeldDistinct == TypeOK /\ HeldDistinct /\ [Next]_vars => HeldDistinct'
<1> SUFFICES ASSUME TypeOK, HeldDistinct, [Next]_vars PROVE HeldDistinct'
  OBVIOUS
<1> USE DEF HeldDistinct, TypeOK, Querying, Phases
<1>1. CASE UserStep
  <2>1. ASSUME NEW c \in Commands, SubmitRuns(c) PROVE HeldDistinct'
    BY <2>1 DEF SubmitRuns, Begins, Reserve
  <2>2. ASSUME NEW c \in Commands, SubmitWaits(c) \/ Notify(c) PROVE HeldDistinct'
    BY <2>2 DEF SubmitWaits, Notify, guard, turns
  <2>3. ASSUME NEW c \in Commands, Incoming(c) PROVE HeldDistinct'
    BY <2>3 DEF Incoming, TryStart
  <2>4. CASE Cancel
    BY <2>4 DEF Cancel, ForceEnd
  <2>5. CASE Pop \/ KillAgents
    BY <2>5 DEF Pop, KillAgents, guard, turns
  <2> QED
    BY <1>1, <2>1, <2>2, <2>3, <2>4, <2>5 DEF UserStep
<1>2. CASE QueueEffect
  BY <1>2 DEF QueueEffect, Begins, Reserve
<1>3. ASSUME NEW a \in Turns, InputStep(a) PROVE HeldDistinct'
  <2>1. CASE InputQueries(a) \/ InputSkips(a)
    BY <2>1 DEF InputQueries, InputSkips, TryStart
  <2>2. CASE InputRequeues(a)
    BY <2>2 DEF InputRequeues, guard
  <2>3. CASE InputSilent(a) \/ InputThrows(a)
    BY <2>3 DEF InputSilent, InputThrows, Frees, CancelReservation
  <2> QED
    BY <1>3, <2>1, <2>2, <2>3 DEF InputStep
<1>4. ASSUME NEW a \in Turns, QueryStep(a) PROVE HeldDistinct'
  <2>1. CASE DrainBegins(a) \/ DrainAttaches(a) \/ DrainRemoves(a)
    BY <2>1 DEF DrainBegins, DrainAttaches, DrainRemoves, guard
  <2>2. CASE QueryEnds(a)
    BY <2>2 DEF QueryEnds, Returns, Frees
  <2> QED
    BY <1>4, <2>1, <2>2 DEF QueryStep
<1>5. ASSUME NEW a \in Turns, Finalizes(a) \/ Leaves(a) PROVE HeldDistinct'
  BY <1>5 DEF Finalizes, Leaves, Returns, Frees, CancelReservation, guard
<1>6. CASE Quiet \/ UNCHANGED vars
  BY <1>6 DEF Quiet, vars, guard, turns
<1> QED
  BY <1>1, <1>2, <1>3, <1>4, <1>5, <1>6 DEF Next

\* A step that touches neither the guard nor the turns keeps the guard held.
LEMMA KeepsHeld ==
  ASSUME GuardHeld, guard' = guard, phase' = phase, held' = held
  PROVE  GuardHeld'
BY DEF GuardHeld, Holds, guard

\* executeUserInput reserves the guard and is behind the reservation.
LEMMA BeginsHeld ==
  ASSUME TypeOK, GuardHeld, NEW a \in Turns, NEW S, Begins(a, S)
  PROVE  GuardHeld'
<1>1. status' = "running" => status = "running" /\ generation' = generation
  BY DEF Begins, Reserve
<1>2. phase'[a] = "input" /\ held' = held
  BY DEF Begins, TypeOK
<1>3. \A b \in Turns : phase[b] \in Querying => phase'[b] = phase[b]
  BY DEF Begins, FreeTurn, TypeOK, Querying
<1> QED
  BY <1>1, <1>2, <1>3 DEF GuardHeld, Holds

\* tryStart succeeds: the new query holds the guard.
LEMMA StartHeld ==
  ASSUME TypeOK, NEW a \in Turns, TryStart(a),
         \/ phase' = [phase EXCEPT ![a] = "query"]
         \/ phase' = [phase EXCEPT ![a] = "skipped"]
  PROVE  GuardHeld'
BY DEF TypeOK, TryStart, GuardHeld, Holds, Querying

\* A turn that holds nothing gives back a reservation, its own or another's.
LEMMA CancelHeld ==
  ASSUME TypeOK, GuardHeld, NEW a \in Turns, phase[a] \notin Querying, CancelReservation,
         Frees(a)
  PROVE  GuardHeld'
BY DEF TypeOK, CancelReservation, Frees, GuardHeld, Holds, Querying

LEMMA EndsHeld ==
  ASSUME TypeOK, GuardHeld, HeldDistinct, NEW a \in Turns, QueryEnds(a)
  PROVE  GuardHeld'
<1>1. CASE Ends(a)
  BY <1>1 DEF QueryEnds, GuardHeld
<1>2. CASE ~Ends(a)
  <2>1. status' = status /\ generation' = generation
    BY <1>2 DEF QueryEnds
  <2>2. \A b \in Turns : b # a => phase'[b] = phase[b] /\ held'[b] = held[b]
    BY <1>2 DEF QueryEnds, Returns, Frees, TypeOK
  <2>3. phase[a] \in Querying
    BY DEF QueryEnds
  <2>4. CASE status = "running"
    <3>1. PICK b \in Turns : Holds(b)
      BY <2>4 DEF GuardHeld
    <3>2. b # a
      BY <1>2, <3>1 DEF Ends, Holds
    <3> QED
      BY <2>1, <2>2, <2>4, <3>1, <3>2 DEF GuardHeld, Holds
  <2>5. CASE status = "dispatching"
    <3>1. PICK b \in Turns : phase[b] = "input"
      BY <2>5 DEF GuardHeld
    <3>2. b # a
      BY <2>3, <3>1 DEF Querying
    <3> QED
      BY <2>1, <2>2, <2>5, <3>1, <3>2 DEF GuardHeld
  <2> QED
    BY <2>1, <2>4, <2>5 DEF GuardHeld
<1> QED
  BY <1>1, <1>2

LEMMA NextGuardInv == GuardInv /\ [Next]_vars => GuardInv'
<1> SUFFICES ASSUME GuardInv, [Next]_vars PROVE GuardHeld'
  BY NextTypeOK, NextHeldDistinct DEF GuardInv
<1>0. TypeOK /\ GuardHeld /\ HeldDistinct
  BY DEF GuardInv
<1>1. CASE UserStep
  <2>1. ASSUME NEW c \in Commands, SubmitRuns(c) PROVE GuardHeld'
    BY <1>0, <2>1, BeginsHeld DEF SubmitRuns
  <2>2. ASSUME NEW c \in Commands, SubmitWaits(c) \/ Notify(c) PROVE GuardHeld'
    BY <1>0, <2>2, KeepsHeld DEF SubmitWaits, Notify, turns
  <2>3. ASSUME NEW c \in Commands, Incoming(c) PROVE GuardHeld'
    BY <1>0, <2>3, StartHeld DEF Incoming
  <2>4. CASE Cancel
    BY <2>4 DEF Cancel, ForceEnd, GuardHeld
  <2>5. CASE Pop \/ KillAgents
    BY <1>0, <2>5, KeepsHeld DEF Pop, KillAgents, turns
  <2> QED
    BY <1>1, <2>1, <2>2, <2>3, <2>4, <2>5 DEF UserStep
<1>2. CASE QueueEffect
  BY <1>0, <1>2, BeginsHeld DEF QueueEffect
<1>3. ASSUME NEW a \in Turns, InputStep(a) PROVE GuardHeld'
  <2>1. CASE InputQueries(a) \/ InputSkips(a)
    BY <1>0, <2>1, StartHeld DEF InputQueries, InputSkips
  <2>2. CASE InputRequeues(a)
    <3>1. PICK b \in Turns : Holds(b)
      BY <1>0, <2>2 DEF InputRequeues, GuardHeld
    <3>2. phase'[b] = phase[b] /\ held' = held /\ guard' = guard
      BY <1>0, <2>2, <3>1 DEF InputRequeues, Holds, Querying, TypeOK
    <3> QED
      BY <2>2, <3>1, <3>2 DEF InputRequeues, GuardHeld, Holds, guard
  <2>3. CASE InputSilent(a) \/ InputThrows(a)
    <3>1. phase[a] \notin Querying /\ CancelReservation /\ Frees(a)
      BY <2>3 DEF InputSilent, InputThrows, Querying
    <3> QED
      BY <1>0, <3>1, CancelHeld
  <2> QED
    BY <1>3, <2>1, <2>2, <2>3 DEF InputStep
<1>4. ASSUME NEW a \in Turns, QueryStep(a) PROVE GuardHeld'
  <2>1. CASE DrainBegins(a) \/ DrainAttaches(a) \/ DrainRemoves(a)
    <3>1. /\ status' = status /\ generation' = generation /\ held' = held
          /\ \A b \in Turns : /\ phase[b] \in Querying => phase'[b] \in Querying
                              /\ phase[b] = "input" => phase'[b] = "input"
      BY <1>0, <2>1 DEF DrainBegins, DrainAttaches, DrainRemoves, TypeOK, Querying, guard
    <3>2. CASE status = "running"
      <4>1. PICK b \in Turns : Holds(b)
        BY <1>0, <3>2 DEF GuardHeld
      <4> QED
        BY <3>1, <3>2, <4>1 DEF GuardHeld, Holds, Querying
    <3>3. CASE status # "running"
      BY <1>0, <3>1, <3>3 DEF GuardHeld
    <3> QED
      BY <3>2, <3>3
  <2>2. CASE QueryEnds(a)
    BY <1>0, <2>2, EndsHeld
  <2> QED
    BY <1>4, <2>1, <2>2 DEF QueryStep
<1>5. ASSUME NEW a \in Turns, Finalizes(a) PROVE GuardHeld'
  <2>1. \A b \in Turns : b # a => phase'[b] = phase[b] /\ held'[b] = held[b]
    BY <1>0, <1>5 DEF Finalizes, Returns, Frees, TypeOK
  <2>2. status' = status /\ generation' = generation
    BY <1>5 DEF Finalizes, guard
  <2>3. phase[a] \notin Querying /\ phase[a] # "input"
    BY <1>5 DEF Finalizes, Querying
  <2>4. status = "running" => GuardHeld'
    BY <1>0, <2>1, <2>2, <2>3 DEF GuardHeld, Holds
  <2>5. status # "running" => GuardHeld'
    BY <1>0, <2>1, <2>2, <2>3 DEF GuardHeld
  <2> QED
    BY <2>4, <2>5
<1>6. ASSUME NEW a \in Turns, Leaves(a) PROVE GuardHeld'
  BY <1>0, <1>6, CancelHeld DEF Leaves, Querying
<1>7. CASE Quiet \/ UNCHANGED vars
  BY <1>0, <1>7, KeepsHeld DEF Quiet, vars, turns
<1> QED
  BY <1>1, <1>2, <1>3, <1>4, <1>5, <1>6, <1>7 DEF Next

\* QueryGuard and executeUserInput: whenever the guard is taken there is a turn
\* that will release it, so the prompt can never be locked out for good.
THEOREM GuardNeverLeaks == Spec => []GuardHeld
<1>1. Spec => []GuardInv
  BY InitGuardInv, NextGuardInv, PTL DEF Spec
<1>2. GuardInv => GuardHeld
  BY DEF GuardInv
<1> QED
  BY <1>1, <1>2, PTL

-------------------------------------------------------------------------------
(* A turn loses the guard by its own end or by the cancel key *)

\* A step that starts no query and keeps the guard's status if it is running.
LEMMA KeepsHolder ==
  ASSUME NEW a \in Turns, Holds(a), held'[a] = held[a], status = "running" => status' = "running"
  PROVE  ~Holds(a)' => phase'[a] \notin Querying \/ generation' # generation
BY DEF Holds, Querying

LEMMA NextOwnEnd ==
  ASSUME GuardInv, Next, NEW a \in Turns, Holds(a), ~Holds(a)'
  PROVE  phase'[a] \notin Querying \/ generation' # generation
<1> DEFINE Own == phase'[a] \notin Querying \/ generation' # generation
<1>0. /\ TypeOK /\ HeldDistinct /\ status = "running" /\ phase[a] \in Querying
      /\ held[a] = generation
  BY DEF GuardInv, Holds
<1> SUFFICES Own
  OBVIOUS
<1>1. CASE UserStep
  <2>1. ASSUME NEW c \in Commands, SubmitRuns(c) \/ Incoming(c) PROVE FALSE
    BY <1>0, <2>1 DEF SubmitRuns, Incoming
  <2>2. ASSUME NEW c \in Commands, SubmitWaits(c) \/ Notify(c) PROVE Own
    BY <2>2, KeepsHolder DEF SubmitWaits, Notify, guard, turns
  <2>3. CASE Cancel
    BY <1>0, <2>3 DEF Cancel, ForceEnd, TypeOK
  <2>4. CASE Pop \/ KillAgents
    BY <2>4, KeepsHolder DEF Pop, KillAgents, guard, turns
  <2> QED
    BY <1>1, <2>1, <2>2, <2>3, <2>4 DEF UserStep
<1>2. CASE QueueEffect
  BY <1>0, <1>2 DEF QueueEffect
<1>3. ASSUME NEW b \in Turns, InputStep(b) PROVE Own
  <2>1. CASE InputQueries(b) \/ InputSkips(b)
    BY <1>0, <2>1 DEF InputQueries, InputSkips
  <2>2. CASE InputRequeues(b)
    BY <2>2, KeepsHolder DEF InputRequeues, guard
  <2>3. CASE InputSilent(b) \/ InputThrows(b)
    <3>1. b # a /\ CancelReservation /\ Frees(b)
      BY <1>0, <2>3 DEF InputSilent, InputThrows, Querying
    <3> QED
      BY <1>0, <3>1, KeepsHolder DEF Frees, CancelReservation, TypeOK
  <2> QED
    BY <1>3, <2>1, <2>2, <2>3 DEF InputStep
<1>4. ASSUME NEW b \in Turns, QueryStep(b) PROVE Own
  <2>1. CASE DrainBegins(b) \/ DrainAttaches(b) \/ DrainRemoves(b)
    BY <2>1, KeepsHolder DEF DrainBegins, DrainAttaches, DrainRemoves, guard
  <2>2. CASE QueryEnds(b)
    <3>1. CASE Ends(b)
      <4>1. phase[b] \in Querying /\ held[b] = generation /\ phase' = [phase EXCEPT ![b] = "finalizing"]
        BY <2>2, <3>1 DEF QueryEnds, Ends
      <4>2. b = a
        BY <1>0, <4>1 DEF HeldDistinct
      <4> QED
        BY <1>0, <4>1, <4>2 DEF TypeOK, Querying
    <3>2. CASE ~Ends(b)
      <4>1. b # a
        BY <1>0, <3>2 DEF Ends
      <4>2. status' = status /\ held'[a] = held[a]
        BY <1>0, <2>2, <3>2, <4>1 DEF QueryEnds, Returns, Frees, TypeOK
      <4> QED
        BY <1>0, <4>2, KeepsHolder
    <3> QED
      BY <3>1, <3>2
  <2> QED
    BY <1>4, <2>1, <2>2 DEF QueryStep
<1>5. ASSUME NEW b \in Turns, Finalizes(b) \/ Leaves(b) PROVE Own
  <2>1. b # a
    BY <1>0, <1>5 DEF Finalizes, Leaves, Querying
  <2>2. (status = "running" => status' = "running") /\ held'[a] = held[a]
    BY <1>0, <1>5, <2>1 DEF Finalizes, Leaves, Returns, Frees, CancelReservation, guard, TypeOK
  <2> QED
    BY <2>2, KeepsHolder
<1>6. CASE Quiet
  BY <1>6, KeepsHolder DEF Quiet, vars, guard, turns
<1> QED
  BY <1>1, <1>2, <1>3, <1>4, <1>5, <1>6 DEF Next

\* QueryGuard.end: a turn that was cancelled, and ends late, never ends the query
\* that has replaced it.
THEOREM StaleEndIsHarmless == Spec => OwnEnd
<1>1. GuardInv /\ [Next]_vars
        => [\A a \in Turns :
              Holds(a) /\ ~Holds(a)' => phase'[a] \notin Querying \/ generation' # generation]_vars
  BY NextOwnEnd
<1>2. GuardInv /\ [Next]_vars => GuardInv'
  BY NextGuardInv
<1> QED
  BY <1>1, <1>2, InitGuardInv, PTL DEF Spec, OwnEnd

-------------------------------------------------------------------------------
(* No command is lost *)

\* What is about to be removed from the queue is in the conversation.
AttachedHandled == \A a \in Turns : phase[a] = "attached" => drained[a] \subseteq handled

FateInv == TypeOK /\ NoCommandLost /\ AttachedHandled

LEMMA InitFateInv == Init => FateInv
BY InitTypeOK DEF Init, FateInv, NoCommandLost, AttachedHandled

LEMMA EnqueueQueued ==
  ASSUME TypeOK, NEW S \in SUBSET Commands, Enqueue(S)
  PROVE  Queued' = Queued \cup S
BY DEF TypeOK, Enqueue, Queued

LEMMA RemoveQueued ==
  ASSUME TypeOK, NEW S \in SUBSET Commands, Remove(S)
  PROVE  Queued' = Queued \ S
BY DEF TypeOK, Remove, Queued

\* A step that leaves every input where it is loses nothing if what leaves the queue,
\* and what is new, has somewhere to be.
LEMMA KeepsInputs ==
  ASSUME NoCommandLost,
         handled \subseteq handled', dropped \subseteq dropped',
         Queued \subseteq Queued' \cup handled' \cup dropped',
         submitted' \subseteq submitted \cup Queued' \cup handled',
         \A a \in Turns : phase[a] = "input" => phase'[a] = "input" /\ batch'[a] = batch[a]
  PROVE  NoCommandLost'
BY DEF NoCommandLost

\* A turn that begins has its commands in hand.
LEMMA BeginsKeeps ==
  ASSUME TypeOK, NEW a \in Turns, NEW S \in SUBSET Commands, Begins(a, S)
  PROVE  /\ phase'[a] = "input" /\ batch'[a] = S
         /\ \A b \in Turns : phase[b] # "none" => phase'[b] = phase[b] /\ batch'[b] = batch[b]
         /\ \A b \in Turns : phase'[b] = "attached" => phase[b] = "attached"
BY DEF TypeOK, Begins, FreeTurn

LEMMA UserFate ==
  ASSUME FateInv, UserStep
  PROVE  NoCommandLost' /\ AttachedHandled'
<1>0. TypeOK /\ NoCommandLost /\ AttachedHandled
  BY DEF FateInv
<1>1. ASSUME NEW c \in Commands, SubmitRuns(c) PROVE NoCommandLost' /\ AttachedHandled'
  <2>1. PICK a \in Turns : Begins(a, {c})
    BY <1>1 DEF SubmitRuns
  <2>2. /\ phase'[a] = "input" /\ batch'[a] = {c}
        /\ \A b \in Turns : phase[b] # "none" => phase'[b] = phase[b] /\ batch'[b] = batch[b]
        /\ \A b \in Turns : phase'[b] = "attached" => phase[b] = "attached"
    BY <1>0, <2>1, BeginsKeeps
  <2>3. /\ Queued' = Queued /\ handled' = handled /\ dropped' = dropped
        /\ submitted' = submitted \cup {c} /\ drained' = drained
    BY <1>1, <2>1 DEF SubmitRuns, queue, Queued, Begins
  <2> QED
    BY <1>0, <2>2, <2>3 DEF NoCommandLost, AttachedHandled
<1>2. ASSUME NEW c \in Commands, SubmitWaits(c) \/ Notify(c)
      PROVE  NoCommandLost' /\ AttachedHandled'
  <2>1. Queued' = Queued \cup {c}
    BY <1>0, <1>2, EnqueueQueued DEF SubmitWaits, Notify
  <2>2. UNCHANGED <<phase, batch, drained, handled, dropped>> /\ submitted' = submitted \cup {c}
    BY <1>2 DEF SubmitWaits, Notify, turns
  <2> QED
    BY <1>0, <2>1, <2>2, KeepsInputs DEF AttachedHandled
<1>3. ASSUME NEW c \in Commands, Incoming(c) PROVE NoCommandLost' /\ AttachedHandled'
  <2>1. /\ \A b \in Turns : phase[b] = "input" => phase'[b] = "input" /\ batch'[b] = batch[b]
        /\ \A b \in Turns : phase'[b] = "attached" => phase[b] = "attached"
    BY <1>0, <1>3 DEF Incoming, FreeTurn, TypeOK
  <2>2. /\ submitted' = submitted \cup {c} /\ handled' = handled \cup {c}
        /\ dropped' = dropped /\ drained' = drained /\ Queued' = Queued
    BY <1>3 DEF Incoming, queue, Queued
  <2> QED
    BY <1>0, <2>1, <2>2, KeepsInputs DEF AttachedHandled
<1>4. CASE Cancel
  BY <1>0, <1>4, KeepsInputs DEF Cancel, queue, fate, Queued, AttachedHandled
<1>5. CASE Pop \/ KillAgents
  <2>1. PICK S \in SUBSET Queued : Remove(S) /\ dropped' = dropped \cup S
    BY <1>5 DEF Pop, KillAgents, Editable
  <2>2. Queued' = Queued \ S
    BY <1>0, <2>1, RemoveQueued DEF Queued
  <2>3. UNCHANGED <<phase, batch, drained, handled, submitted>>
    BY <1>5 DEF Pop, KillAgents, turns
  <2> QED
    BY <1>0, <2>1, <2>2, <2>3, KeepsInputs DEF AttachedHandled
<1> QED
  BY <1>1, <1>2, <1>3, <1>4, <1>5 DEF UserStep

LEMMA EffectFate ==
  ASSUME FateInv, QueueEffect
  PROVE  NoCommandLost' /\ AttachedHandled'
<1>0. TypeOK /\ NoCommandLost /\ AttachedHandled
  BY DEF FateInv
<1>1. PICK c \in Queued : (\E a \in Turns : Begins(a, Taken(c))) /\ Remove(Taken(c))
  BY DEF QueueEffect
<1>2. PICK a \in Turns : Begins(a, Taken(c))
  BY <1>1
<1>3. Queued' = Queued \ Taken(c)
  BY <1>0, <1>1, TakenTypes, RemoveQueued
<1>4. /\ phase'[a] = "input" /\ batch'[a] = Taken(c)
      /\ \A b \in Turns : phase[b] # "none" => phase'[b] = phase[b] /\ batch'[b] = batch[b]
      /\ \A b \in Turns : phase'[b] = "attached" => phase[b] = "attached"
  BY <1>0, <1>2, TakenTypes, BeginsKeeps
<1>5. UNCHANGED <<handled, dropped, submitted, drained>>
  BY <1>2 DEF QueueEffect, fate, Begins
<1> QED
  BY <1>0, <1>3, <1>4, <1>5 DEF NoCommandLost, AttachedHandled

LEMMA InputFate ==
  ASSUME FateInv, NEW a \in Turns, InputStep(a)
  PROVE  NoCommandLost' /\ AttachedHandled'
<1>0. TypeOK /\ NoCommandLost /\ AttachedHandled /\ batch[a] \in SUBSET Commands
  BY DEF FateInv, TypeOK
<1>1. /\ \A b \in Turns : b # a => phase'[b] = phase[b] /\ batch'[b] = batch[b]
      /\ phase'[a] # "attached" /\ drained' = drained /\ submitted' = submitted
  BY <1>0 DEF InputStep, InputQueries, InputSkips, InputRequeues, InputSilent, InputThrows, Frees, TypeOK, fate
<1>2. CASE InputRequeues(a)
  <2>1. Queued' = Queued \cup (batch[a] \ Hidden) /\ handled' = handled /\ dropped' = dropped
    BY <1>0, <1>2, EnqueueQueued DEF InputRequeues, fate
  <2> QED
    BY <1>0, <1>1, <2>1 DEF NoCommandLost, AttachedHandled
<1>3. CASE InputQueries(a) \/ InputSkips(a) \/ InputSilent(a) \/ InputThrows(a)
  <2>1. /\ Queued' = Queued /\ handled \subseteq handled' /\ dropped \subseteq dropped'
        /\ batch[a] \subseteq handled' \cup dropped'
    BY <1>3 DEF InputQueries, InputSkips, InputSilent, InputThrows, queue, Queued
  <2> QED
    BY <1>0, <1>1, <2>1 DEF NoCommandLost, AttachedHandled
<1> QED
  BY <1>2, <1>3 DEF InputStep

LEMMA QueryFate ==
  ASSUME FateInv, NEW a \in Turns, QueryStep(a)
  PROVE  NoCommandLost' /\ AttachedHandled'
<1>0. TypeOK /\ NoCommandLost /\ AttachedHandled /\ drained[a] \in SUBSET Commands
  BY DEF FateInv, TypeOK
<1>1. \A b \in Turns : b # a =>
        phase'[b] = phase[b] /\ batch'[b] = batch[b] /\ drained'[b] = drained[b]
  BY <1>0 DEF QueryStep, DrainBegins, DrainAttaches, DrainRemoves, QueryEnds, Returns, Frees, TypeOK
<1>2. phase[a] # "input" /\ dropped' = dropped /\ submitted' = submitted
  BY DEF QueryStep, DrainBegins, DrainAttaches, DrainRemoves, QueryEnds, fate, Querying
<1>3. CASE DrainAttaches(a)
  <2>1. Queued' = Queued /\ handled' = handled \cup drained[a] /\ drained' = drained
    BY <1>3 DEF DrainAttaches, queue, Queued
  <2> QED
    BY <1>0, <1>1, <1>2, <2>1, KeepsInputs DEF AttachedHandled
<1>4. CASE DrainRemoves(a)
  <2>1. Queued' = Queued \ drained[a] /\ handled' = handled /\ drained[a] \subseteq handled
    BY <1>0, <1>4, RemoveQueued DEF DrainRemoves, fate, AttachedHandled
  <2>2. phase'[a] # "attached"
    BY <1>0, <1>4 DEF DrainRemoves, TypeOK
  <2> QED
    BY <1>0, <1>1, <1>2, <2>1, <2>2, KeepsInputs DEF AttachedHandled
<1>5. CASE DrainBegins(a) \/ QueryEnds(a)
  <2>1. Queued' = Queued /\ handled' = handled
    BY <1>5 DEF DrainBegins, QueryEnds, queue, fate, Queued
  <2>2. phase'[a] # "attached"
    BY <1>0, <1>5 DEF DrainBegins, QueryEnds, Returns, Frees, TypeOK
  <2> QED
    BY <1>0, <1>1, <1>2, <2>1, <2>2, KeepsInputs DEF AttachedHandled
<1> QED
  BY <1>3, <1>4, <1>5 DEF QueryStep

LEMMA NextFateInv == FateInv /\ [Next]_vars => FateInv'
<1> SUFFICES ASSUME FateInv, [Next]_vars PROVE NoCommandLost' /\ AttachedHandled'
  BY NextTypeOK DEF FateInv
<1>0. TypeOK /\ NoCommandLost /\ AttachedHandled
  BY DEF FateInv
<1>1. ASSUME NEW a \in Turns, Finalizes(a) \/ Leaves(a) PROVE NoCommandLost' /\ AttachedHandled'
  <2>1. /\ \A b \in Turns : b # a => phase'[b] = phase[b] /\ batch'[b] = batch[b]
        /\ phase[a] # "input" /\ phase'[a] # "attached"
    BY <1>0, <1>1 DEF Finalizes, Leaves, Returns, Frees, TypeOK
  <2>2. Queued' = Queued /\ UNCHANGED <<handled, dropped, submitted, drained>>
    BY <1>1 DEF Finalizes, Leaves, queue, fate, Queued
  <2> QED
    BY <1>0, <2>1, <2>2, KeepsInputs DEF AttachedHandled
<1>2. CASE Quiet \/ UNCHANGED vars
  BY <1>0, <1>2, KeepsInputs DEF Quiet, vars, queue, fate, turns, Queued, AttachedHandled
<1> QED
  BY <1>1, <1>2, UserFate, EffectFate, InputFate, QueryFate DEF Next

\* handlePromptSubmit, onQuery and query.ts between them lose nothing: whatever is
\* requeued, drained or cancelled, a submitted command is somewhere.
THEOREM CommandsKept == Spec => []NoCommandLost
<1>1. Spec => []FateInv
  BY InitFateInv, NextFateInv, PTL DEF Spec
<1>2. FateInv => NoCommandLost
  BY DEF FateInv
<1> QED
  BY <1>1, <1>2, PTL

-------------------------------------------------------------------------------
(* The user first *)

\* Only executeUserInput puts a turn into processUserInput, and its batch is what
\* the user has just submitted or what the effect took from the queue.
LEMMA WhatBegins ==
  ASSUME TypeOK, Next, NEW a \in Turns, phase[a] = "none", phase'[a] = "input"
  PROVE  \/ \E c \in UserCommands : batch'[a] = {c}
         \/ \E c \in Queued : (\A d \in Queued : Before(c, d)) /\ batch'[a] = Taken(c)
<1>1. ASSUME NEW b \in Turns, NEW S, Begins(b, S) PROVE batch'[a] = S
  BY <1>1 DEF Begins, TypeOK
<1>2. CASE \E c \in Commands : SubmitRuns(c)
  BY <1>1, <1>2 DEF SubmitRuns
<1>3. CASE QueueEffect
  BY <1>1, <1>3 DEF QueueEffect
<1>4. ASSUME NEW c \in Commands, SubmitWaits(c) \/ Notify(c) \/ Incoming(c) PROVE FALSE
  BY <1>4 DEF SubmitWaits, Notify, Incoming, turns, TypeOK
<1>5. CASE Cancel \/ Pop \/ KillAgents \/ Quiet
  BY <1>5 DEF Cancel, Pop, KillAgents, Quiet, turns, vars
<1>6. ASSUME NEW b \in Turns, InputStep(b) \/ QueryStep(b) \/ Finalizes(b) \/ Leaves(b) PROVE FALSE
  <2>1. CASE InputStep(b)
    BY <2>1 DEF InputStep, InputQueries, InputSkips, InputRequeues, InputSilent, InputThrows, Frees, TypeOK
  <2>2. CASE QueryStep(b)
    BY <2>2 DEF QueryStep, DrainBegins, DrainAttaches, DrainRemoves, QueryEnds, Returns, Frees,
                Querying, TypeOK
  <2>3. CASE Finalizes(b) \/ Leaves(b)
    BY <2>3 DEF Finalizes, Leaves, Returns, Frees, TypeOK
  <2> QED
    BY <1>6, <2>1, <2>2, <2>3
<1> QED
  BY <1>2, <1>3, <1>4, <1>5, <1>6 DEF Next, UserStep

LEMMA NextUserFirst ==
  ASSUME TypeOK, Next, NEW a \in Turns, phase[a] = "none", phase'[a] = "input",
         \A d \in batch'[a] : IsLate(d), NEW c \in Queued
  PROVE  IsLate(c)
<1>1. \A e \in UserCommands : batch'[a] # {e}
  BY DEF IsLate, IsNote, UserCommands
<1>2. PICK e \in Queued : (\A f \in Queued : Before(e, f)) /\ batch'[a] = Taken(e)
  BY <1>1, WhatBegins
<1>3. e \in Taken(e)
  BY DEF Taken, SameMode
<1> QED
  BY <1>2, <1>3 DEF Before, SamePriority

\* processQueueIfReady: background notifications never make the user's queued input
\* wait for another turn.
THEOREM InputBeforeNotes == Spec => UserFirst
<1>1. TypeOK /\ [Next]_vars
        => [\A a \in Turns :
              phase[a] = "none" /\ phase'[a] = "input" /\ (\A d \in batch'[a] : IsLate(d))
              => \A c \in Queued : IsLate(c)]_vars
  BY NextUserFirst
<1>2. TypeOK /\ [Next]_vars => TypeOK'
  BY NextTypeOK
<1> QED
  BY <1>1, <1>2, InitTypeOK, PTL DEF Spec, UserFirst
================================================================================
