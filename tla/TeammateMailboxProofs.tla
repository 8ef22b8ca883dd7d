------------------------- MODULE TeammateMailboxProofs -------------------------
(* Proofs about TeammateMailbox, for any letters, readers and kinds of inbox. *)
EXTENDS TeammateMailbox, TLAPS

(* The inductive invariant *)

TornNow == lock # Nobody /\ step[lock] = "torn"
InLock(c) == step[c] \in {"locked", "holding", "torn", "written"}
Busy(c) == step[c] \in {"holding", "torn"}
Served(m) == m \in delivered \/ m \in inbox \/ \E r \in Readers : m \in found[r]

\* What the file says is a part of what was written, and all of it unless it was spoiled
\* or its writer is at it.
FileInv ==
  /\ file # "whole" => text = Empty
  /\ TornNow => text = Empty
  /\ In(text) \subseteq accepted /\ text.read \subseteq accepted
  /\ ~spoiled /\ ~TornNow => accepted \subseteq In(text)

\* Whoever is past lock() has the lock; what it carries has all that was written.
CallInv(c) ==
  /\ InLock(c) => lock = c
  /\ c \in accepted => step[c] \in {"written", "over", "dead"}
  /\ buffer[c].read \subseteq accepted /\ In(buffer[c]) \subseteq accepted \cup {c}
  /\ c \in Letters /\ Busy(c) => c \in Unread(buffer[c])
  /\ ~spoiled /\ Busy(c) => accepted \subseteq In(buffer[c])
Extending(c) ==
  ~spoiled /\ step[c] = "holding" =>
    \A i \in DOMAIN text.order : i \in DOMAIN buffer[c].order /\ buffer[c].order[i] = text.order[i]
Carries(c) ==
  ~spoiled /\ Busy(c) => \A m \in accepted \ overtaken : Served(m) \/ m \in Unread(buffer[c])

\* A reader that will mark more than one letter has seen to all of them that were not
\* written in between.
ReadInv(r) ==
  /\ step[r] \in Steps \ {"creating", "over", "dead"}
  /\ step[r] \in {"idle", "started"} => found[r] = {}
  /\ step[r] = "idle" => role[r] = "none"
  /\ step[r] = "started" => role[r] = "turn"
  /\ step[r] = "found" => role[r] = "poll"
  /\ found[r] # {} => (role[r] = "wait" \/ step[r] = "found")
  /\ role[r] = "turn" /\ step[r] # "started" => glimpsed[r] \subseteq delivered
Window(r) ==
  /\ ~spoiled /\ role[r] = "poll" /\ step[r] \in {"found", "locking", "locked"} =>
       \A m \in accepted \ overtaken : Served(m)
  /\ ~spoiled /\ role[r] = "turn" /\ step[r] \in {"locking", "locked"} =>
       \A m \in (accepted \ overtaken) \ Protocol : Served(m)
\* The letter a waiting loop has found is the one at the place it will mark.
Pinned(r) ==
  ~spoiled /\ role[r] = "wait" /\ step[r] \in {"locking", "locked", "holding", "torn", "written"} =>
    place[r] \in DOMAIN Settled.order /\ found[r] = {Settled.order[place[r]]}

LostInv ==
  ~spoiled => \A m \in accepted \ overtaken : Served(m) \/ m \in Unread(Settled)

IInv ==
  /\ TypeOK /\ FileInv /\ LostInv
  /\ \A c \in Callers : CallInv(c) /\ Extending(c) /\ Carries(c)
  /\ \A r \in Readers : ReadInv(r) /\ Window(r) /\ Pinned(r)

LEMMA EmptyText == Empty \in Texts /\ In(Empty) = {} /\ Unread(Empty) = {} /\ Empty.order = << >> /\ Empty.read = {}
  BY DEF Empty, Texts, In, Unread

LEMMA ReadsText == ASSUME FileInv PROVE Content = text /\ Settled = (IF TornNow THEN buffer[lock] ELSE text)
  BY DEF FileInv, Content, Settled, TornNow

LEMMA Start == Init => IInv
  <1> SUFFICES ASSUME Init PROVE IInv
    OBVIOUS
  <1>1. TypeOK
    BY EmptyText DEF Init, TypeOK, Steps
  <1>2. FileInv /\ LostInv
    BY EmptyText DEF Init, FileInv, LostInv, TornNow
  <1>3. ASSUME NEW c \in Callers PROVE CallInv(c) /\ Extending(c) /\ Carries(c)
    BY EmptyText DEF Init, CallInv, Extending, Carries, InLock, Busy
  <1>4. ASSUME NEW r \in Readers PROVE ReadInv(r) /\ Window(r) /\ Pinned(r)
    BY DEF Init, ReadInv, Window, Pinned, Steps, Callers
  <1> QED BY <1>1, <1>2, <1>3, <1>4 DEF IInv

(* Steps of the readers outside the lock *)

ServedStays == \A m \in Letters : Served(m) => Served(m)'
Aside(r, s) ==
  /\ UNCHANGED <<roles, file, text, lock, buffer, history>>
  /\ step' = [step EXCEPT ![r] = s]
  /\ ~InLock(r) /\ s \in {"idle", "started", "found", "locking"}
  /\ \A q \in Readers \ {r} :
       role'[q] = role[q] /\ found'[q] = found[q] /\ place'[q] = place[q] /\ glimpsed'[q] = glimpsed[q]
  /\ delivered \subseteq delivered'

LEMMA AsideKeeps ==
  ASSUME IInv, NEW r \in Readers, NEW s \in Steps, Aside(r, s), TypeOK', ServedStays,
         ReadInv(r)', Window(r)', Pinned(r)'
  PROVE  IInv'
  <1>0. TypeOK /\ FileInv /\ r \in Callers
    BY DEF IInv, Callers
  <1>1. \A c \in Callers \ {r} : step'[c] = step[c]
    BY <1>0 DEF Aside, TypeOK
  <1>2. step'[r] = s /\ s \notin {"locked", "holding", "torn", "written"}
    BY <1>0 DEF Aside, TypeOK
  <1>3. /\ UNCHANGED <<roles, file, text, lock, buffer, accepted, overtaken, failed, spoiled>>
        /\ step[r] \notin {"locked", "holding", "torn", "written"}
    BY DEF Aside, history, InLock
  <1>4. TornNow' = TornNow /\ Settled' = Settled
    <2>1. CASE lock = r
      BY <1>1, <1>2, <1>3, <2>1 DEF TornNow, Settled, Content
    <2>2. CASE lock # r
      <3>1. lock = Nobody \/ lock \in Callers \ {r}
        BY <1>0, <2>2 DEF TypeOK
      <3> QED BY <1>1, <1>3, <3>1 DEF TornNow, Settled, Content
    <2> QED BY <2>1, <2>2
  <1>5. FileInv'
    BY <1>0, <1>3, <1>4 DEF FileInv
  <1>6. LostInv'
    BY <1>0, <1>3, <1>4 DEF IInv, LostInv, ServedStays, TypeOK
  <1>7. ASSUME NEW c \in Callers PROVE CallInv(c)' /\ Extending(c)' /\ Carries(c)'
    <2>1. CASE c = r
      <3>1. CallInv(r) /\ r \notin Letters
        BY <1>0, CallersAssumption DEF IInv
      <3>2. r \notin accepted
        BY <1>0, <3>1 DEF TypeOK
      <3> QED BY <1>2, <1>3, <2>1, <3>1, <3>2 DEF CallInv, Extending, Carries, InLock, Busy
    <2>2. CASE c # r
      <3>1. CallInv(c) /\ Extending(c) /\ Carries(c) /\ step'[c] = step[c] /\ accepted \subseteq Letters
        BY <1>0, <1>1, <2>2 DEF IInv, TypeOK
      <3>2. CallInv(c)' /\ Extending(c)'
        BY <1>3, <3>1 DEF CallInv, Extending, InLock, Busy
      <3>3. Carries(c)'
        BY <1>3, <3>1 DEF Carries, Busy, ServedStays
      <3> QED BY <3>2, <3>3
    <2> QED BY <2>1, <2>2
  <1>8. ASSUME NEW q \in Readers \ {r} PROVE ReadInv(q)' /\ Window(q)' /\ Pinned(q)'
    <2>1. ReadInv(q) /\ Window(q) /\ Pinned(q) /\ step'[q] = step[q] /\ accepted \subseteq Letters
      BY <1>0, <1>1 DEF IInv, TypeOK, Callers
    <2>2. /\ role'[q] = role[q] /\ found'[q] = found[q] /\ place'[q] = place[q] /\ glimpsed'[q] = glimpsed[q]
          /\ delivered \subseteq delivered'
      BY DEF Aside
    <2>3. ReadInv(q)'
      BY <2>1, <2>2 DEF ReadInv
    <2>4. Window(q)'
      BY <1>3, <2>1, <2>2 DEF Window, ServedStays
    <2>5. Pinned(q)'
      BY <1>3, <1>4, <2>1, <2>2 DEF Pinned
    <2> QED BY <2>3, <2>4, <2>5
  <1> QED BY <1>5, <1>6, <1>7, <1>8 DEF IInv

LEMMA Looking ==
  ASSUME IInv, Unread(Content) # {}
  PROVE  /\ Settled = text /\ Content = text /\ ~TornNow
         /\ Unread(Content) \subseteq Letters
  BY ReadsText, EmptyText DEF IInv, TypeOK, FileInv, Unread, In, Texts

LEMMA PollsKeeps ==
  ASSUME IInv, NEW r \in Readers, Polls(r)
  PROVE  IInv'
  <1>0. TypeOK /\ ReadInv(r) /\ r \in Callers /\ Unread(Content) # {}
    BY DEF IInv, Callers, Polls
  <1>1. Settled = text /\ Content = text /\ Unread(Content) \subseteq Letters
    BY <1>0, Looking
  <1>2. /\ UNCHANGED <<roles, file, text, lock, buffer, place, glimpsed, session, history>>
        /\ role' = [role EXCEPT ![r] = "poll"] /\ found' = [found EXCEPT ![r] = Unread(Content)]
        /\ step' = [step EXCEPT ![r] = "found"] /\ step[r] = "idle"
    BY DEF Polls, Goes
  <1>3. TypeOK'
    BY <1>0, <1>1, <1>2 DEF TypeOK, Roles, session, history, Steps
  <1>4. role'[r] = "poll" /\ found'[r] = Unread(Content) /\ step'[r] = "found"
        /\ \A q \in Readers \ {r} : role'[q] = role[q] /\ found'[q] = found[q]
    BY <1>0, <1>2 DEF TypeOK
  <1>5. found[r] = {}
    BY <1>0, <1>2 DEF ReadInv
  <1>6. ServedStays
    BY <1>2, <1>4, <1>5 DEF ServedStays, Served, session
  <1>7. Aside(r, "found")
    BY <1>2, <1>4 DEF Aside, InLock, session
  <1>8. ReadInv(r)' /\ Pinned(r)'
    BY <1>4 DEF ReadInv, Pinned, Steps
  <1>9. Window(r)'
    <2>1. ASSUME ~spoiled, NEW m \in accepted \ overtaken PROVE Served(m)'
      <3>1. Served(m) \/ m \in Unread(text)
        BY <1>1, <2>1 DEF IInv, LostInv
      <3>2. m \in Letters
        BY <1>0 DEF TypeOK
      <3> QED BY <1>1, <1>4, <1>6, <3>1, <3>2 DEF ServedStays, Served
    <2> QED BY <1>2, <1>4, <2>1 DEF Window, history
  <1> QED BY <1>3, <1>6, <1>7, <1>8, <1>9, AsideKeeps DEF Steps

LEMMA RoutesKeeps ==
  ASSUME IInv, NEW r \in Readers, Routes(r)
  PROVE  IInv'
  <1>0. TypeOK /\ ReadInv(r) /\ Window(r) /\ r \in Callers
    BY DEF IInv, Callers
  <1>1. /\ UNCHANGED <<roles, file, text, lock, buffer, role, place, glimpsed, history>>
        /\ found' = [found EXCEPT ![r] = {}] /\ step' = [step EXCEPT ![r] = "locking"]
        /\ step[r] = "found" /\ role[r] = "poll"
    BY <1>0 DEF Routes, Goes, ReadInv
  <1>2. /\ delivered \subseteq delivered' /\ inbox \subseteq inbox'
        /\ found[r] \subseteq delivered' \cup inbox'
        /\ delivered' \subseteq Letters /\ inbox' \subseteq Letters /\ twice' \subseteq delivered'
    BY <1>0 DEF Routes, Delivers, TypeOK
  <1>3. TypeOK'
    BY <1>0, <1>1, <1>2 DEF TypeOK, history, Steps
  <1>4. found'[r] = {} /\ step'[r] = "locking" /\ \A q \in Readers \ {r} : found'[q] = found[q]
    BY <1>0, <1>1 DEF TypeOK
  <1>5. ServedStays
    BY <1>1, <1>2, <1>4 DEF ServedStays, Served
  <1>6. Aside(r, "locking")
    BY <1>1, <1>2, <1>4 DEF Aside, InLock
  <1>7. ReadInv(r)' /\ Pinned(r)'
    BY <1>1, <1>4 DEF ReadInv, Pinned, Steps
  <1>8. Window(r)'
    BY <1>0, <1>1, <1>4, <1>5 DEF Window, ServedStays, TypeOK, history
  <1> QED BY <1>3, <1>5, <1>6, <1>7, <1>8, AsideKeeps DEF Steps

LEMMA TurnStartsKeeps ==
  ASSUME IInv, NEW r \in Readers, TurnStarts(r)
  PROVE  IInv'
  <1>0. TypeOK /\ ReadInv(r) /\ r \in Callers
    BY DEF IInv, Callers
  <1>1. /\ UNCHANGED <<roles, file, text, lock, buffer, found, place, session, history>>
        /\ role' = [role EXCEPT ![r] = "turn"] /\ glimpsed' = [glimpsed EXCEPT ![r] = inbox]
        /\ step' = [step EXCEPT ![r] = "started"] /\ step[r] = "idle" /\ found[r] = {}
    BY <1>0 DEF TurnStarts, Goes, ReadInv
  <1>2. TypeOK'
    BY <1>0, <1>1 DEF TypeOK, session, history, Steps, Roles
  <1>3. /\ role'[r] = "turn" /\ step'[r] = "started"
        /\ \A q \in Readers \ {r} : role'[q] = role[q] /\ glimpsed'[q] = glimpsed[q]
    BY <1>0, <1>1 DEF TypeOK
  <1>4. ServedStays
    BY <1>1 DEF ServedStays, Served, session
  <1>5. Aside(r, "started")
    BY <1>1, <1>3 DEF Aside, InLock, session
  <1>6. ReadInv(r)' /\ Pinned(r)' /\ Window(r)'
    BY <1>1, <1>3 DEF ReadInv, Pinned, Window, Steps
  <1> QED BY <1>2, <1>4, <1>5, <1>6, AsideKeeps DEF Steps

LEMMA AttachesKeeps ==
  ASSUME IInv, NEW r \in Readers, Attaches(r)
  PROVE  IInv'
  <1> DEFINE plain == Unread(Content) \ Protocol
  <1>0. TypeOK /\ FileInv /\ ReadInv(r) /\ r \in Callers
    BY DEF IInv, Callers
  <1>1. /\ UNCHANGED <<roles, file, text, lock, buffer, history>> /\ Delivers(plain \cup glimpsed[r])
        /\ step[r] = "started" /\ role[r] = "turn" /\ found[r] = {}
    BY <1>0 DEF Attaches, ReadInv
  <1>2. plain \subseteq Letters /\ glimpsed[r] \subseteq Letters
    BY <1>0, ReadsText DEF TypeOK, Texts, Unread, In
  <1>3. /\ delivered \subseteq delivered' /\ delivered' \subseteq Letters /\ twice' \subseteq delivered'
        /\ plain \subseteq delivered' /\ glimpsed[r] \subseteq delivered'
    BY <1>0, <1>1, <1>2 DEF Delivers, TypeOK
  <1>4. CASE plain # {}
    <2>1. UNCHANGED <<reading, inbox>> /\ step' = [step EXCEPT ![r] = "locking"]
      BY <1>4 DEF Attaches, Goes
    <2>2. TypeOK'
      BY <1>0, <1>1, <1>3, <2>1 DEF TypeOK, history, reading, Steps
    <2>3. step'[r] = "locking"
      BY <1>0, <2>1 DEF TypeOK
    <2>4. ServedStays
      BY <1>3, <2>1 DEF ServedStays, Served, reading
    <2>5. Aside(r, "locking")
      BY <1>1, <1>3, <2>1 DEF Aside, InLock, reading
    <2>6. ReadInv(r)' /\ Pinned(r)'
      BY <1>1, <1>3, <2>1, <2>3 DEF ReadInv, Pinned, reading, Steps
    <2>7. Window(r)'
      <3>1. Settled = text /\ Content = text
        BY <1>4, Looking
      <3>2. ASSUME ~spoiled, NEW m \in (accepted \ overtaken) \ Protocol PROVE Served(m)'
        <4>1. Served(m) \/ m \in plain
          BY <3>1, <3>2 DEF IInv, LostInv
        <4>2. m \in Letters
          BY <1>0 DEF TypeOK
        <4> QED BY <1>3, <2>4, <4>1, <4>2 DEF ServedStays, Served
      <3> QED BY <1>1, <2>1, <3>2 DEF Window, reading, history
    <2> QED BY <2>2, <2>4, <2>5, <2>6, <2>7, AsideKeeps DEF Steps
  <1>5. CASE plain = {}
    <2>1. Rests(r) /\ inbox' = inbox \ glimpsed[r]
      BY <1>5 DEF Attaches
    <2>2. TypeOK'
      BY <1>0, <1>1, <1>3, <2>1 DEF TypeOK, history, Rests, Goes, Steps
    <2>3. /\ step'[r] = "idle" /\ role'[r] = "none" /\ found'[r] = {}
          /\ \A q \in Readers \ {r} :
               role'[q] = role[q] /\ found'[q] = found[q] /\ place'[q] = place[q] /\ glimpsed'[q] = glimpsed[q]
      BY <1>0, <2>1 DEF TypeOK, Rests, Goes
    <2>4. ServedStays
      BY <1>1, <1>3, <2>1, <2>3 DEF ServedStays, Served
    <2>5. Aside(r, "idle")
      BY <1>1, <1>3, <2>1, <2>3 DEF Aside, InLock, Rests, Goes
    <2>6. ReadInv(r)' /\ Pinned(r)' /\ Window(r)'
      BY <2>3 DEF ReadInv, Pinned, Window, Steps
    <2> QED BY <2>2, <2>4, <2>5, <2>6, AsideKeeps DEF Steps
  <1> QED BY <1>4, <1>5

LEMMA WaitsKeeps ==
  ASSUME IInv, NEW r \in Readers, Waits(r)
  PROVE  IInv'
  <1>0. TypeOK /\ FileInv /\ ReadInv(r) /\ r \in Callers
    BY DEF IInv, Callers
  <1>1. PICK i \in DOMAIN Content.order :
          /\ Chosen(Content, i) /\ place' = [place EXCEPT ![r] = i]
          /\ found' = [found EXCEPT ![r] = {Content.order[i]}]
    BY DEF Waits
  <1>2. /\ UNCHANGED <<roles, file, text, lock, buffer, glimpsed, session, history>>
        /\ role' = [role EXCEPT ![r] = "wait"] /\ step' = [step EXCEPT ![r] = "locking"]
        /\ step[r] = "idle" /\ found[r] = {}
    BY <1>0 DEF Waits, Goes, ReadInv
  <1>3. Content = text /\ text.order \in Seq(Letters)
    BY <1>0, ReadsText DEF TypeOK, Texts
  <1>4. i \in Nat /\ text.order[i] \in Letters /\ text # Empty
    BY <1>1, <1>3, EmptyText
  <1>5. ~TornNow /\ Settled = text
    BY <1>0, <1>4, ReadsText DEF FileInv
  <1>6. TypeOK'
    BY <1>0, <1>1, <1>2, <1>3, <1>4 DEF TypeOK, session, history, Steps, Roles
  <1>7. /\ role'[r] = "wait" /\ step'[r] = "locking" /\ place'[r] = i /\ found'[r] = {text.order[i]}
        /\ \A q \in Readers \ {r} : role'[q] = role[q] /\ place'[q] = place[q] /\ found'[q] = found[q]
    BY <1>0, <1>1, <1>2, <1>3 DEF TypeOK
  <1>8. ServedStays
    BY <1>2, <1>7 DEF ServedStays, Served, session
  <1>9. Aside(r, "locking")
    BY <1>2, <1>7 DEF Aside, InLock, session
  <1>10. ReadInv(r)' /\ Window(r)'
    BY <1>7 DEF ReadInv, Window, Steps
  <1>11. Settled' = text
    <2>1. lock # r => (lock = Nobody \/ lock \in Callers \ {r})
      BY <1>0 DEF TypeOK
    <2>2. lock # Nobody => step'[lock] # "torn"
      BY <1>0, <1>2, <1>5, <1>7, <2>1 DEF TornNow, TypeOK
    <2> QED BY <1>2, <1>3, <2>2 DEF Settled, Content
  <1>12. Pinned(r)'
    BY <1>1, <1>3, <1>7, <1>11 DEF Pinned
  <1> QED BY <1>6, <1>8, <1>9, <1>10, <1>12, AsideKeeps DEF Steps

LEMMA InboxServedKeeps == ASSUME IInv, InboxServed PROVE IInv'
  <1>0. TypeOK
    BY DEF IInv
  <1>1. /\ UNCHANGED <<roles, file, text, calls, reading, history>> /\ inbox' = {}
        /\ delivered' = delivered \cup inbox /\ twice' = twice \cup (inbox \cap delivered)
    BY DEF InboxServed, Delivers
  <1>2. TypeOK'
    BY <1>0, <1>1 DEF TypeOK, calls, reading, history
  <1>3. ServedStays
    BY <1>1 DEF ServedStays, Served, reading
  <1>4. TornNow' = TornNow /\ Settled' = Settled
    BY <1>1 DEF TornNow, Settled, Content, calls
  <1>5. FileInv' /\ LostInv'
    BY <1>0, <1>1, <1>3, <1>4 DEF IInv, FileInv, LostInv, ServedStays, history, TypeOK
  <1>6. ASSUME NEW c \in Callers PROVE CallInv(c)' /\ Extending(c)' /\ Carries(c)'
    <2>1. CallInv(c)' /\ Extending(c)'
      BY <1>1 DEF IInv, CallInv, Extending, InLock, Busy, calls, history
    <2>2. Carries(c)'
      BY <1>0, <1>1, <1>3 DEF IInv, Carries, Busy, calls, history, ServedStays, TypeOK
    <2> QED BY <2>1, <2>2
  <1>7. ASSUME NEW r \in Readers PROVE ReadInv(r)' /\ Window(r)' /\ Pinned(r)'
    <2>1. ReadInv(r) /\ Window(r) /\ Pinned(r)
      BY DEF IInv
    <2>2. ReadInv(r)' /\ Pinned(r)'
      BY <1>1, <1>4, <2>1 DEF ReadInv, Pinned, calls, reading, history
    <2>3. Window(r)'
      BY <1>0, <1>1, <1>3, <2>1 DEF Window, calls, reading, history, ServedStays, TypeOK
    <2> QED BY <2>2, <2>3
  <1> QED BY <1>2, <1>5, <1>6, <1>7 DEF IInv


(* Steps of a caller at the lock or the file *)

LEMMA Alone ==
  ASSUME IInv, NEW c \in Callers, NEW d \in Callers, InLock(c), InLock(d)
  PROVE  c = d
  BY DEF IInv, CallInv

NobodySweeps == \A r \in Readers : ~Sweeping(r)
Apart(c) ==
  /\ \A d \in Callers \ {c} : step'[d] = step[d] /\ buffer'[d] = buffer[d]
  /\ \A d \in Callers \ {c} : InLock(d) => lock' = lock
  /\ \A q \in Readers \ {c} :
       role'[q] = role[q] /\ found'[q] = found[q] /\ place'[q] = place[q] /\ glimpsed'[q] = glimpsed[q]
  /\ delivered \subseteq delivered' /\ (spoiled => spoiled')
  /\ accepted \subseteq accepted'
  /\ \A m \in accepted' : m \in accepted \/ (m = c /\ InLock(c))
  /\ \A m \in accepted' \ overtaken' :
       m \in accepted \ overtaken \/ (m = c /\ InLock(c) /\ NobodySweeps)
TextApart(c) == text' = text \/ text'.order = << >> \/ InLock(c)
Grows ==
  \A i \in DOMAIN Settled.order : i \in DOMAIN Settled'.order /\ Settled'.order[i] = Settled.order[i]

LEMMA OthersKeep ==
  ASSUME IInv, NEW c \in Callers, Apart(c), ~spoiled' => TextApart(c) /\ Grows, ServedStays
  PROVE  /\ \A d \in Callers \ {c} : CallInv(d)' /\ Extending(d)' /\ Carries(d)'
         /\ \A q \in Readers \ {c} : ReadInv(q)' /\ Window(q)' /\ Pinned(q)'
  <1>0. TypeOK /\ accepted \subseteq Letters
    BY DEF IInv, TypeOK
  <1>1. ASSUME NEW d \in Callers \ {c} PROVE CallInv(d)' /\ Extending(d)' /\ Carries(d)'
    <2>1. /\ CallInv(d) /\ Extending(d) /\ Carries(d)
          /\ step'[d] = step[d] /\ buffer'[d] = buffer[d] /\ (InLock(d) => lock' = lock)
          /\ spoiled => spoiled'
      BY DEF IInv, Apart
    <2>2. InLock(d) => ~InLock(c)
      BY Alone
    <2>3. InLock(d) => accepted' = accepted /\ \A m \in accepted' \ overtaken' : m \in accepted \ overtaken
      BY <2>2 DEF Apart
    <2>4. InLock(d)' = InLock(d) /\ Busy(d)' = Busy(d) /\ (Busy(d) => InLock(d))
      BY <2>1 DEF InLock, Busy
    <2>5. accepted \subseteq accepted' /\ (d \in accepted' => d \in accepted)
      BY DEF Apart
    <2>6. CallInv(d)'
      <3>1. InLock(d)' => lock' = d
        BY <2>1, <2>4 DEF CallInv
      <3>2. d \in accepted' => step'[d] \in {"written", "over", "dead"}
        BY <2>1, <2>5 DEF CallInv
      <3>3. buffer'[d].read \subseteq accepted' /\ In(buffer'[d]) \subseteq accepted' \cup {d}
        BY <2>1, <2>5 DEF CallInv
      <3>4. d \in Letters /\ Busy(d)' => d \in Unread(buffer'[d])
        BY <2>1, <2>4 DEF CallInv
      <3>5. ~spoiled' /\ Busy(d)' => accepted' \subseteq In(buffer'[d])
        BY <2>1, <2>3, <2>4 DEF CallInv
      <3> QED BY <3>1, <3>2, <3>3, <3>4, <3>5 DEF CallInv, Unread, In
    <2>7. Extending(d)'
      BY <2>1, <2>2, EmptyText DEF Extending, InLock, TextApart
    <2>8. Carries(d)'
      BY <1>0, <2>1, <2>3, <2>4 DEF Carries, ServedStays
    <2> QED BY <2>6, <2>7, <2>8
  <1>2. ASSUME NEW q \in Readers \ {c} PROVE ReadInv(q)' /\ Window(q)' /\ Pinned(q)'
    <2>1. /\ ReadInv(q) /\ Window(q) /\ Pinned(q) /\ step'[q] = step[q] /\ q \in Callers
          /\ spoiled => spoiled'
      BY DEF IInv, Callers, Apart
    <2>2. /\ role'[q] = role[q] /\ found'[q] = found[q] /\ place'[q] = place[q] /\ glimpsed'[q] = glimpsed[q]
          /\ delivered \subseteq delivered'
      BY DEF Apart
    <2>3. ReadInv(q)'
      BY <2>1, <2>2 DEF ReadInv
    <2>4. step[q] \in {"found", "locking", "locked"} /\ role[q] \in {"poll", "turn"} =>
            \A m \in accepted' \ overtaken' : m \in accepted \ overtaken
      <3>1. step[q] = "locked" => ~InLock(c)
        BY <2>1, Alone DEF InLock
      <3>2. step[q] \in {"found", "locking"} /\ role[q] \in {"poll", "turn"} => ~NobodySweeps
        BY DEF NobodySweeps, Sweeping
      <3> QED BY <3>1, <3>2 DEF Apart
    <2>5. Window(q)'
      BY <1>0, <2>1, <2>2, <2>4 DEF Window, ServedStays
    <2>6. Pinned(q)'
      BY <2>1, <2>2 DEF Pinned, Grows
    <2> QED BY <2>3, <2>5, <2>6
  <1> QED BY <1>1, <1>2

LEMMA WriterKeeps ==
  ASSUME IInv, NEW m \in Letters, NEW s \in {"creating", "locking", "over", "dead"}, TypeOK',
         UNCHANGED <<roles, lock, buffer, reading, session, accepted, overtaken>>,
         step' = [step EXCEPT ![m] = s], m \in accepted => s \in {"over", "dead"},
         file' # "whole" => text' = Empty, text' = text \/ (text' = Empty /\ spoiled'),
         spoiled => spoiled', step[m] = "torn" => spoiled'
  PROVE  IInv'
  <1>0. TypeOK /\ FileInv /\ m \in Callers /\ m \notin Readers
    BY CallersAssumption DEF IInv, Callers
  <1>1. step'[m] = s /\ \A d \in Callers \ {m} : step'[d] = step[d]
    BY <1>0 DEF TypeOK
  <1>2. lock \in Callers \cup {Nobody} /\ lock' = lock
    BY <1>0 DEF TypeOK
  <1>3. TornNow' => TornNow
    BY <1>1, <1>2 DEF TornNow
  <1>4. ~spoiled' => TornNow' = TornNow
    BY <1>1, <1>2 DEF TornNow
  <1>5. FileInv'
    <2>1. CASE text' = text
      BY <1>0, <1>3, <1>4, <2>1 DEF FileInv
    <2>2. CASE text' = Empty /\ spoiled'
      BY <2>2, EmptyText DEF FileInv
    <2> QED BY <2>1, <2>2
  <1>6. ~spoiled' => Settled' = Settled
    <2>1. Content' = text'
      BY <1>5 DEF FileInv, Content
    <2> QED BY <1>0, <1>4, <2>1, ReadsText DEF Settled, TornNow
  <1>7. ServedStays
    BY DEF ServedStays, Served, session, reading
  <1>8. LostInv'
    BY <1>0, <1>6, <1>7 DEF IInv, LostInv, ServedStays, TypeOK
  <1>9. CallInv(m)' /\ Extending(m)' /\ Carries(m)'
    BY <1>0, <1>1 DEF IInv, CallInv, Extending, Carries, InLock, Busy
  <1>10. Apart(m)
    BY <1>1 DEF Apart, reading, session
  <1>11. ~spoiled' => TextApart(m) /\ Grows
    BY <1>6 DEF TextApart, Grows
  <1>12. /\ \A d \in Callers \ {m} : CallInv(d)' /\ Extending(d)' /\ Carries(d)'
         /\ \A q \in Readers \ {m} : ReadInv(q)' /\ Window(q)' /\ Pinned(q)'
    BY <1>0, <1>7, <1>10, <1>11, OthersKeep
  <1> QED BY <1>0, <1>5, <1>8, <1>9, <1>12 DEF IInv


LEMMA CreatesKeeps == ASSUME IInv, NEW m \in Letters, Creates(m) PROVE IInv'
  <1>0. TypeOK /\ FileInv /\ m \in Callers /\ CallInv(m) /\ step[m] = "idle"
    BY DEF IInv, Callers, Creates
  <1>1. UNCHANGED <<roles, text, lock, buffer, reading, session, history>>
    BY DEF Creates
  <1>2. m \notin accepted
    BY <1>0 DEF CallInv
  <1>3. CASE file = "missing"
    <2>1. file' = "garbled" /\ step' = [step EXCEPT ![m] = "creating"]
      BY <1>3 DEF Creates, Goes
    <2>2. TypeOK'
      BY <1>0, <1>1, <2>1 DEF TypeOK, reading, session, history, Steps
    <2>3. text' = Empty
      BY <1>0, <1>1, <1>3 DEF FileInv
    <2> QED BY <1>0, <1>1, <1>2, <2>1, <2>2, <2>3, WriterKeeps DEF history
  <1>4. CASE file # "missing"
    <2>1. file' = file /\ step' = [step EXCEPT ![m] = "locking"]
      BY <1>4 DEF Creates, Goes
    <2>2. TypeOK'
      BY <1>0, <1>1, <2>1 DEF TypeOK, reading, session, history, Steps
    <2>3. file' # "whole" => text' = Empty
      BY <1>0, <1>1, <2>1 DEF FileInv
    <2> QED BY <1>0, <1>1, <1>2, <2>1, <2>2, <2>3, WriterKeeps DEF history
  <1> QED BY <1>3, <1>4

LEMMA CreateEndsKeeps == ASSUME IInv, NEW m \in Letters, CreateEnds(m) PROVE IInv'
  <1>0. TypeOK /\ FileInv /\ m \in Callers /\ CallInv(m) /\ step[m] = "creating"
    BY DEF IInv, Callers, CreateEnds
  <1>1. /\ UNCHANGED <<roles, lock, buffer, reading, session, accepted, overtaken, failed>>
        /\ step' = [step EXCEPT ![m] = "locking"] /\ text' = Empty
    BY DEF CreateEnds, Goes
  <1>2. m \notin accepted
    BY <1>0 DEF CallInv
  <1>3. /\ file' \in {"garbled", "whole"} /\ spoiled' \in BOOLEAN /\ (spoiled => spoiled')
        /\ text' = text \/ spoiled'
    BY <1>0, <1>1 DEF CreateEnds, FileInv, TypeOK
  <1>4. TypeOK'
    BY <1>0, <1>1, <1>3, EmptyText DEF TypeOK, reading, session, Steps
  <1> QED BY <1>0, <1>1, <1>2, <1>3, <1>4, WriterKeeps

LEMMA DiesKeeps == ASSUME IInv, NEW m \in Letters, Dies(m) PROVE IInv'
  <1>0. TypeOK /\ FileInv
    BY DEF IInv
  <1>1. /\ UNCHANGED <<roles, file, text, lock, buffer, reading, session, accepted, overtaken, failed>>
        /\ step' = [step EXCEPT ![m] = "dead"] /\ spoiled' = (spoiled \/ step[m] = "torn")
    BY DEF Dies, Goes
  <1>2. TypeOK'
    BY <1>0, <1>1 DEF TypeOK, reading, session, Steps
  <1>3. file' # "whole" => text' = Empty
    BY <1>0, <1>1 DEF FileInv
  <1> QED BY <1>1, <1>2, <1>3, WriterKeeps

LEMMA LockExpiresKeeps == ASSUME IInv, LockExpires PROVE IInv'
  <1>0. TypeOK /\ FileInv /\ lock \in Callers /\ step[lock] = "dead"
    BY DEF IInv, TypeOK, LockExpires
  <1>1. UNCHANGED <<roles, file, text, step, buffer, reading, session, history>> /\ lock' = Nobody
    BY DEF LockExpires
  <1>2. TypeOK'
    BY <1>0, <1>1 DEF TypeOK, reading, session, history
  <1>3. ~TornNow /\ ~TornNow' /\ Settled' = Settled
    BY <1>0, <1>1 DEF TornNow, Settled, Content
  <1>4. FileInv'
    BY <1>0, <1>1, <1>3 DEF FileInv, history
  <1>5. ServedStays
    BY <1>1 DEF ServedStays, Served, session, reading
  <1>6. LostInv'
    BY <1>0, <1>1, <1>3, <1>5 DEF IInv, LostInv, ServedStays, TypeOK, history
  <1>7. ASSUME NEW d \in Callers PROVE ~InLock(d)
    BY <1>0, <1>7 DEF IInv, CallInv, InLock
  <1>8. ASSUME NEW c \in Callers PROVE CallInv(c)' /\ Extending(c)' /\ Carries(c)'
    <2>1. CallInv(c) /\ ~InLock(c)
      BY <1>7 DEF IInv
    <2> QED BY <1>1, <2>1 DEF CallInv, Extending, Carries, Busy, InLock, history
  <1>9. ASSUME NEW r \in Readers PROVE ReadInv(r)' /\ Window(r)' /\ Pinned(r)'
    <2>1. ReadInv(r) /\ Window(r) /\ Pinned(r)
      BY DEF IInv
    <2>2. ReadInv(r)' /\ Pinned(r)'
      BY <1>1, <1>3, <2>1 DEF ReadInv, Pinned, session, reading, history
    <2>3. Window(r)'
      BY <1>0, <1>1, <1>5, <2>1 DEF Window, session, reading, history, ServedStays, TypeOK
    <2> QED BY <2>2, <2>3
  <1> QED BY <1>2, <1>4, <1>6, <1>8, <1>9 DEF IInv

LEMMA LocksKeeps == ASSUME IInv, NEW c \in Callers, Locks(c) PROVE IInv'
  <1>0. TypeOK /\ FileInv /\ CallInv(c) /\ lock = Nobody /\ step[c] = "locking"
    BY DEF IInv, Locks
  <1>1. /\ UNCHANGED <<roles, file, text, buffer, reading, session, history>> /\ lock' = c
        /\ step' = [step EXCEPT ![c] = "locked"]
    BY DEF Locks, Goes
  <1>2. TypeOK'
    BY <1>0, <1>1 DEF TypeOK, reading, session, history, Steps
  <1>3. step'[c] = "locked" /\ \A d \in Callers \ {c} : step'[d] = step[d]
    BY <1>0, <1>1 DEF TypeOK
  <1>4. ~TornNow /\ ~TornNow' /\ Settled' = Settled
    BY <1>0, <1>1, <1>3 DEF TornNow, Settled, Content
  <1>5. FileInv'
    BY <1>0, <1>1, <1>4 DEF FileInv, history
  <1>6. ServedStays
    BY <1>1 DEF ServedStays, Served, session, reading
  <1>7. LostInv'
    BY <1>0, <1>1, <1>4, <1>6 DEF IInv, LostInv, ServedStays, TypeOK, history
  <1>8. \A d \in Callers : ~InLock(d)
    BY <1>0, CallersAssumption DEF IInv, CallInv
  <1>9. Apart(c)
    BY <1>1, <1>3, <1>8 DEF Apart, reading, session, history
  <1>10. TextApart(c) /\ Grows
    BY <1>1, <1>4 DEF TextApart, Grows
  <1>11. CallInv(c)' /\ Extending(c)' /\ Carries(c)'
    <2>1. c \notin accepted
      BY <1>0 DEF CallInv
    <2> QED BY <1>0, <1>1, <1>3, <2>1 DEF CallInv, Extending, Carries, InLock, Busy, history
  <1>12. ASSUME c \in Readers PROVE ReadInv(c)' /\ Window(c)' /\ Pinned(c)'
    <2>1. ReadInv(c) /\ Window(c) /\ Pinned(c)
      BY <1>12 DEF IInv
    <2>2. ReadInv(c)' /\ Pinned(c)'
      BY <1>0, <1>1, <1>3, <1>4, <2>1 DEF ReadInv, Pinned, reading, session, history, Steps
    <2>3. Window(c)'
      BY <1>0, <1>1, <1>3, <1>6, <2>1 DEF Window, session, reading, history, ServedStays, TypeOK
    <2> QED BY <2>2, <2>3
  <1>13. /\ \A d \in Callers \ {c} : CallInv(d)' /\ Extending(d)' /\ Carries(d)'
         /\ \A q \in Readers \ {c} : ReadInv(q)' /\ Window(q)' /\ Pinned(q)'
    BY <1>6, <1>9, <1>10, OthersKeep
  <1> QED BY <1>2, <1>5, <1>7, <1>11, <1>12, <1>13 DEF IInv

(* What follows a mark *)

LEMMA EndsKeeps ==
  ASSUME IInv, NEW r \in Readers, Ends(r), step[r] \in {"locking", "written"}, failed' \in BOOLEAN,
         lock' = lock \/ (lock = r /\ lock' = Nobody),
         UNCHANGED <<roles, file, text, buffer, accepted, overtaken, spoiled>>
  PROVE  IInv'
  <1>0. TypeOK /\ FileInv /\ ReadInv(r) /\ CallInv(r) /\ r \in Callers /\ r \notin Letters
    BY CallersAssumption DEF IInv, Callers
  <1>1. Rests(r)
    BY DEF Ends
  <1>2. /\ delivered \subseteq delivered' /\ delivered' \subseteq Letters /\ twice' \subseteq delivered'
        /\ inbox' \subseteq inbox /\ inbox \subseteq inbox' \cup delivered' /\ found[r] \subseteq delivered'
    <2>1. CASE role[r] = "wait"
      BY <1>0, <2>1 DEF Ends, Delivers, TypeOK
    <2>2. CASE role[r] = "turn"
      <3>1. found[r] = {} /\ glimpsed[r] \subseteq delivered
        BY <1>0, <2>2 DEF ReadInv
      <3> QED BY <1>0, <2>2, <3>1 DEF Ends, TypeOK
    <2>3. CASE role[r] \notin {"wait", "turn"}
      <3>1. found[r] = {}
        BY <1>0, <2>3 DEF ReadInv
      <3>2. UNCHANGED session
        BY <2>3 DEF Ends
      <3> QED BY <1>0, <3>1, <3>2 DEF session, TypeOK
    <2> QED BY <2>1, <2>2, <2>3
  <1>3. TypeOK'
    BY <1>0, <1>1, <1>2 DEF TypeOK, Rests, Goes, Steps
  <1>4. /\ step'[r] = "idle" /\ role'[r] = "none" /\ found'[r] = {}
        /\ \A d \in Callers \ {r} : step'[d] = step[d]
        /\ \A q \in Readers \ {r} :
             role'[q] = role[q] /\ found'[q] = found[q] /\ place'[q] = place[q] /\ glimpsed'[q] = glimpsed[q]
    BY <1>0, <1>1 DEF TypeOK, Rests, Goes
  <1>5. ServedStays
    BY <1>2, <1>4 DEF ServedStays, Served
  <1>6. TornNow' = TornNow /\ Settled' = Settled
    <2>1. CASE lock = r
      BY <1>4, <2>1 DEF TornNow, Settled, Content
    <2>2. CASE lock # r
      BY <1>0, <1>4, <2>2 DEF TornNow, Settled, Content, TypeOK
    <2> QED BY <2>1, <2>2
  <1>7. FileInv' /\ LostInv'
    BY <1>0, <1>5, <1>6 DEF IInv, FileInv, LostInv, ServedStays, TypeOK
  <1>8. \A d \in Callers \ {r} : InLock(d) => lock' = lock
    BY DEF IInv, CallInv
  <1>9. Apart(r)
    BY <1>2, <1>4, <1>8 DEF Apart
  <1>10. TextApart(r) /\ Grows
    BY <1>6 DEF TextApart, Grows
  <1>11. CallInv(r)' /\ Extending(r)' /\ Carries(r)'
    BY <1>0, <1>4 DEF CallInv, Extending, Carries, InLock, Busy, TypeOK
  <1>12. ReadInv(r)' /\ Window(r)' /\ Pinned(r)'
    BY <1>4 DEF ReadInv, Window, Pinned, Steps
  <1>13. /\ \A d \in Callers \ {r} : CallInv(d)' /\ Extending(d)' /\ Carries(d)'
         /\ \A q \in Readers \ {r} : ReadInv(q)' /\ Window(q)' /\ Pinned(q)'
    BY <1>0, <1>5, <1>9, <1>10, OthersKeep
  <1> QED BY <1>3, <1>7, <1>11, <1>12, <1>13 DEF IInv


LEMMA LockFailsKeeps == ASSUME IInv, NEW c \in Callers, LockFails(c) PROVE IInv'
  <1>0. TypeOK /\ FileInv /\ CallInv(c) /\ step[c] = "locking"
    BY DEF IInv, LockFails
  <1>1. UNCHANGED <<roles, file, text, lock, buffer, accepted, overtaken, spoiled>>
    BY DEF LockFails
  <1>2. CASE c \in Letters
    <2>1. UNCHANGED <<reading, session, failed>> /\ step' = [step EXCEPT ![c] = "over"]
      BY <1>2 DEF LockFails, Goes
    <2>2. TypeOK'
      BY <1>0, <1>1, <2>1 DEF TypeOK, reading, session, Steps
    <2>3. file' # "whole" => text' = Empty
      BY <1>0, <1>1 DEF FileInv
    <2> QED BY <1>0, <1>1, <1>2, <2>1, <2>2, <2>3, WriterKeeps
  <1>3. CASE c \notin Letters
    <2>1. Ends(c) /\ failed' = TRUE /\ c \in Readers
      BY <1>3 DEF LockFails, Callers
    <2> QED BY <1>0, <1>1, <2>1, EndsKeeps
  <1> QED BY <1>2, <1>3

LEMMA ReleasesKeeps == ASSUME IInv, NEW c \in Callers, Releases(c) PROVE IInv'
  <1>0. TypeOK /\ FileInv /\ CallInv(c) /\ step[c] = "written" /\ lock = c /\ lock' = Nobody
    BY DEF IInv, Releases, CallInv, InLock
  <1>1. UNCHANGED <<roles, file, text, buffer, history>>
    BY DEF Releases
  <1>2. CASE c \notin Letters
    <2>1. Ends(c) /\ c \in Readers /\ failed' \in BOOLEAN
      BY <1>0, <1>1, <1>2 DEF Releases, Callers, history, TypeOK
    <2> QED BY <1>0, <1>1, <2>1, EndsKeeps DEF history
  <1>3. CASE c \in Letters
    <2>1. UNCHANGED <<reading, session>> /\ step' = [step EXCEPT ![c] = "over"] /\ c \notin Readers
      BY <1>3, CallersAssumption DEF Releases, Goes
    <2>2. TypeOK'
      BY <1>0, <1>1, <2>1 DEF TypeOK, reading, session, history, Steps
    <2>3. step'[c] = "over" /\ \A d \in Callers \ {c} : step'[d] = step[d]
      BY <1>0, <2>1 DEF TypeOK
    <2>4. ~TornNow /\ ~TornNow' /\ Settled' = Settled
      BY <1>0, <1>1 DEF TornNow, Settled, Content
    <2>5. ServedStays
      BY <2>1 DEF ServedStays, Served, session, reading
    <2>6. FileInv' /\ LostInv'
      BY <1>0, <1>1, <2>4, <2>5 DEF IInv, FileInv, LostInv, ServedStays, TypeOK, history
    <2>7. \A d \in Callers \ {c} : ~InLock(d)
      BY <1>0 DEF IInv, CallInv
    <2>8. Apart(c)
      BY <1>1, <2>1, <2>3, <2>7 DEF Apart, reading, session, history
    <2>9. TextApart(c) /\ Grows
      BY <1>1, <2>4 DEF TextApart, Grows
    <2>10. CallInv(c)' /\ Extending(c)' /\ Carries(c)'
      BY <1>0, <1>1, <2>3 DEF CallInv, Extending, Carries, InLock, Busy, history
    <2>11. /\ \A d \in Callers \ {c} : CallInv(d)' /\ Extending(d)' /\ Carries(d)'
           /\ \A q \in Readers \ {c} : ReadInv(q)' /\ Window(q)' /\ Pinned(q)'
      BY <2>5, <2>8, <2>9, OthersKeep
    <2> QED BY <2>1, <2>2, <2>6, <2>10, <2>11 DEF IInv
  <1> QED BY <1>2, <1>3

(* The read, the truncation and the write under the lock *)

LEMMA AppendText ==
  ASSUME NEW t \in Texts, NEW m \in Letters, NEW u, u = [order |-> Append(t.order, m), read |-> t.read]
  PROVE  /\ u \in Texts /\ In(u) = In(t) \cup {m}
         /\ \A i \in DOMAIN t.order : i \in DOMAIN u.order /\ u.order[i] = t.order[i]
  <1>1. t.order \in Seq(Letters) /\ t.read \subseteq Letters
    BY DEF Texts
  <1>2. u \in Texts
    BY <1>1 DEF Texts
  <1>3. /\ u.order \in Seq(Letters) /\ Len(u.order) = Len(t.order) + 1
        /\ u.order[Len(t.order) + 1] = m
        /\ \A i \in 1..Len(t.order) : u.order[i] = t.order[i]
    BY <1>1
  <1>4. DOMAIN u.order = 1..(Len(t.order) + 1) /\ DOMAIN t.order = 1..Len(t.order) /\ Len(t.order) \in Nat
    BY <1>1, <1>3
  <1>5. \A i \in DOMAIN u.order : i \in DOMAIN t.order \/ i = Len(t.order) + 1
    BY <1>4
  <1>6. \A i \in DOMAIN t.order : i \in DOMAIN u.order /\ u.order[i] = t.order[i]
    BY <1>3, <1>4
  <1>7. \A x : x \in In(u) <=> x \in In(t) \/ x = m
    BY <1>3, <1>4, <1>5, <1>6 DEF In
  <1> QED BY <1>2, <1>6, <1>7

LEMMA MarkedText ==
  ASSUME NEW r, NEW t \in Texts, r \in Readers, role[r] = "wait" => place[r] \in Nat
  PROVE  /\ Marked(r, t) \in Texts /\ Marked(r, t).order = t.order /\ In(Marked(r, t)) = In(t)
         /\ Marked(r, t).read \subseteq t.read \cup In(t)
  <1>1. t = [order |-> t.order, read |-> t.read] /\ t.order \in Seq(Letters) /\ t.read \subseteq Letters
    BY DEF Texts
  <1>2. In(t) \subseteq Letters
    BY <1>1 DEF In
  <1>3. \E S \in SUBSET In(t) : Marked(r, t) = [order |-> t.order, read |-> t.read \cup S]
                                \/ Marked(r, t) = [order |-> t.order, read |-> S]
    <2>1. CASE role[r] = "poll"
      BY <1>1, <2>1 DEF Marked, Texts
    <2>2. CASE role[r] = "turn"
      <3> DEFINE S == In(t) \ Protocol
      <3>1. Marked(r, t) = [order |-> t.order, read |-> t.read \cup S]
        BY <1>1, <2>2 DEF Marked, Texts
      <3> QED BY <3>1
    <2>3. CASE role[r] = "wait" /\ place[r] \in DOMAIN t.order
      <3>1. Marked(r, t) = [order |-> t.order, read |-> t.read \cup {t.order[place[r]]}]
        BY <1>1, <2>3 DEF Marked, Texts
      <3>2. {t.order[place[r]]} \subseteq In(t)
        BY <2>3 DEF In
      <3> QED BY <3>1, <3>2
    <2>4. CASE role[r] \notin {"poll", "turn"} /\ ~(role[r] = "wait" /\ place[r] \in DOMAIN t.order)
      <3>1. Marked(r, t) = t
        BY <2>4 DEF Marked
      <3>2. Marked(r, t) = [order |-> t.order, read |-> t.read \cup {}]
        BY <1>1, <3>1
      <3> QED BY <3>2
    <2> QED BY <2>1, <2>2, <2>3, <2>4
  <1> QED BY <1>1, <1>2, <1>3 DEF Texts, In


LEMMA HeldKeeps ==
  ASSUME IInv, NEW c \in Callers, step[c] = "locked",
         UNCHANGED <<roles, file, text, lock, reading, session, history>>,
         NEW b \in Texts, buffer' = [buffer EXCEPT ![c] = b],
         NEW s \in {"holding", "written"}, step' = [step EXCEPT ![c] = s],
         b.read \subseteq accepted, In(b) \subseteq accepted \cup {c},
         s = "holding" =>
           /\ c \in Letters => c \in Unread(b)
           /\ \A i \in DOMAIN text.order : i \in DOMAIN b.order /\ b.order[i] = text.order[i]
           /\ ~spoiled => \A m \in accepted \ overtaken : Served(m) \/ m \in Unread(b)
  PROVE  IInv'
  <1>0. TypeOK /\ FileInv /\ CallInv(c) /\ lock = c
    BY DEF IInv, CallInv, InLock
  <1>1. TypeOK'
    BY <1>0 DEF TypeOK, reading, session, history, Steps
  <1>2. /\ step'[c] = s /\ buffer'[c] = b
        /\ \A d \in Callers \ {c} : step'[d] = step[d] /\ buffer'[d] = buffer[d]
    BY <1>0 DEF TypeOK
  <1>3. ~TornNow /\ ~TornNow' /\ Settled' = Settled
    BY <1>0, <1>2 DEF TornNow, Settled, Content
  <1>4. ServedStays /\ \A m : Served(m)' = Served(m)
    BY DEF ServedStays, Served, session, reading
  <1>5. FileInv' /\ LostInv'
    BY <1>0, <1>3, <1>4 DEF IInv, FileInv, LostInv, history
  <1>6. Apart(c)
    BY <1>2 DEF Apart, reading, session, history
  <1>7. TextApart(c) /\ Grows
    BY <1>3 DEF TextApart, Grows
  <1>8. c \notin accepted
    BY <1>0 DEF CallInv
  <1>9. CallInv(c)'
    <2>1. InLock(c)' => lock' = c
      BY <1>0
    <2>2. c \notin accepted' /\ buffer'[c].read \subseteq accepted' /\ In(buffer'[c]) \subseteq accepted' \cup {c}
      BY <1>2, <1>8 DEF history
    <2>3. c \in Letters /\ Busy(c)' => c \in Unread(buffer'[c])
      BY <1>2 DEF Busy
    <2>4. ~spoiled' /\ Busy(c)' => accepted' \subseteq In(buffer'[c])
      <3>1. ASSUME ~spoiled, s = "holding", NEW m \in accepted PROVE m \in In(b)
        <4>1. m \in In(text)
          BY <1>0, <1>3, <3>1 DEF FileInv
        <4>2. PICK i \in DOMAIN text.order : text.order[i] = m
          BY <4>1 DEF In
        <4> QED BY <3>1, <4>2 DEF In
      <3> QED BY <1>2, <3>1 DEF Busy, history
    <2> QED BY <2>1, <2>2, <2>3, <2>4 DEF CallInv, Unread, In
  <1>10. Extending(c)' /\ Carries(c)'
    BY <1>2, <1>4 DEF Extending, Carries, Busy, history
  <1>11. ASSUME c \in Readers PROVE ReadInv(c)' /\ Window(c)' /\ Pinned(c)'
    <2>1. ReadInv(c) /\ Window(c) /\ Pinned(c)
      BY <1>11 DEF IInv
    <2> QED BY <1>2, <1>3, <2>1 DEF ReadInv, Window, Pinned, reading, session, history, Steps
  <1>12. /\ \A d \in Callers \ {c} : CallInv(d)' /\ Extending(d)' /\ Carries(d)'
         /\ \A q \in Readers \ {c} : ReadInv(q)' /\ Window(q)' /\ Pinned(q)'
    BY <1>4, <1>6, <1>7, OthersKeep
  <1> QED BY <1>1, <1>5, <1>9, <1>10, <1>11, <1>12 DEF IInv

LEMMA RereadsKeeps == ASSUME IInv, NEW c \in Callers, Rereads(c) PROVE IInv'
  <1>0. TypeOK /\ FileInv /\ CallInv(c) /\ step[c] = "locked" /\ lock = c
    BY DEF IInv, Rereads, CallInv, InLock
  <1>1. UNCHANGED <<roles, file, text, lock, reading, session, history>>
    BY DEF Rereads
  <1>2. Content = text /\ Settled = text /\ ~TornNow /\ text \in Texts /\ buffer[c] \in Texts
    BY <1>0, ReadsText DEF TornNow, TypeOK
  <1>3. CASE c \in Letters
    <2> DEFINE b == [order |-> Append(text.order, c), read |-> text.read]
    <2>1. buffer' = [buffer EXCEPT ![c] = b] /\ step' = [step EXCEPT ![c] = "holding"]
      BY <1>2, <1>3 DEF Rereads, Goes
    <2>2. /\ b \in Texts /\ In(b) = In(text) \cup {c} /\ b.read = text.read
          /\ \A i \in DOMAIN text.order : i \in DOMAIN b.order /\ b.order[i] = text.order[i]
      BY <1>2, <1>3, AppendText
    <2> HIDE DEF b
    <2>3. c \notin accepted /\ In(text) \subseteq accepted /\ text.read \subseteq accepted
      BY <1>0 DEF CallInv, FileInv
    <2>4. c \in Unread(b)
      BY <2>2, <2>3 DEF Unread
    <2>5. ~spoiled => \A m \in accepted \ overtaken : Served(m) \/ m \in Unread(b)
      BY <1>2, <2>2 DEF IInv, LostInv, Unread
    <2> QED BY <1>0, <1>1, <2>1, <2>2, <2>3, <2>4, <2>5, HeldKeeps
  <1>4. CASE c \notin Letters
    <2> DEFINE b == Marked(c, text)
    <2>0. c \in Readers /\ (role[c] = "wait" => place[c] \in Nat)
      BY <1>0, <1>4 DEF Callers, TypeOK
    <2>1. CASE NothingToMark(c, text)
      <3>1. buffer' = [buffer EXCEPT ![c] = buffer[c]] /\ step' = [step EXCEPT ![c] = "written"]
        BY <1>0, <1>2, <1>4, <2>1 DEF Rereads, Goes, TypeOK
      <3>2. buffer[c].read \subseteq accepted /\ In(buffer[c]) \subseteq accepted \cup {c}
        BY <1>0 DEF CallInv
      <3> QED BY <1>0, <1>1, <1>2, <3>1, <3>2, HeldKeeps
    <2>2. CASE ~NothingToMark(c, text)
      <3>1. buffer' = [buffer EXCEPT ![c] = b] /\ step' = [step EXCEPT ![c] = "holding"]
        BY <1>2, <1>4, <2>2 DEF Rereads, Goes
      <3>2. b \in Texts /\ b.order = text.order /\ In(b) = In(text) /\ b.read \subseteq text.read \cup In(text)
        BY <1>2, <2>0, MarkedText
      <3>3. b.read \subseteq accepted /\ In(b) \subseteq accepted \cup {c}
        BY <1>0, <3>2 DEF FileInv
      <3>4. ASSUME ~spoiled, NEW m \in accepted \ overtaken PROVE Served(m) \/ m \in Unread(b)
        <4>1. Served(m) \/ m \in Unread(text)
          BY <1>2, <3>4 DEF IInv, LostInv
        <4>2. CASE role[c] = "poll"
          BY <1>0, <2>0, <3>4, <4>2 DEF IInv, Window
        <4>3. CASE role[c] = "turn"
          <5>1. m \notin Protocol => Served(m)
            BY <1>0, <2>0, <3>4, <4>3 DEF IInv, Window
          <5>2. b.read = text.read \cup (In(text) \ Protocol)
            BY <1>2, <4>3 DEF Marked, Texts
          <5> QED BY <3>2, <4>1, <5>1, <5>2 DEF Unread
        <4>4. CASE role[c] = "wait"
          <5>1. place[c] \in DOMAIN text.order /\ found[c] = {text.order[place[c]]}
            BY <1>0, <1>2, <2>0, <3>4, <4>4 DEF IInv, Pinned
          <5>2. b.read = text.read \cup {text.order[place[c]]}
            BY <1>2, <4>4, <5>1 DEF Marked, Texts
          <5>3. m = text.order[place[c]] => Served(m)
            BY <2>0, <5>1 DEF Served
          <5> QED BY <3>2, <4>1, <5>2, <5>3 DEF Unread
        <4>5. CASE role[c] \notin {"poll", "turn", "wait"}
          <5>1. b = text
            BY <4>5 DEF Marked
          <5> QED BY <4>1, <5>1
        <4> QED BY <4>2, <4>3, <4>4, <4>5
      <3> HIDE DEF b
      <3>5. \A i \in DOMAIN text.order : i \in DOMAIN b.order /\ b.order[i] = text.order[i]
        BY <3>2
      <3> QED BY <1>0, <1>1, <1>4, <3>1, <3>2, <3>3, <3>4, <3>5, HeldKeeps
    <2> QED BY <2>1, <2>2
  <1> QED BY <1>3, <1>4

LEMMA TruncatesKeeps == ASSUME IInv, NEW c \in Callers, Truncates(c) PROVE IInv'
  <1>0. TypeOK /\ FileInv /\ CallInv(c) /\ Extending(c) /\ Carries(c) /\ step[c] = "holding" /\ lock = c
    BY DEF IInv, Truncates, CallInv, InLock
  <1>1. /\ UNCHANGED <<roles, lock, buffer, reading, session, history>>
        /\ file' = "garbled" /\ text' = Empty /\ step' = [step EXCEPT ![c] = "torn"]
    BY DEF Truncates, Goes
  <1>2. TypeOK'
    BY <1>0, <1>1, EmptyText DEF TypeOK, reading, session, history, Steps
  <1>3. step'[c] = "torn" /\ \A d \in Callers \ {c} : step'[d] = step[d]
    BY <1>0, <1>1 DEF TypeOK
  <1>4. lock # Nobody
    BY <1>0, CallersAssumption
  <1>5. ~TornNow /\ Settled = text /\ TornNow' /\ Settled' = buffer[c]
    BY <1>0, <1>1, <1>3, <1>4, ReadsText DEF TornNow, Settled
  <1>6. ServedStays /\ \A m : Served(m)' = Served(m)
    BY <1>1 DEF ServedStays, Served, session, reading
  <1>7. FileInv'
    BY <1>1, <1>5, EmptyText DEF FileInv
  <1>8. LostInv'
    BY <1>0, <1>1, <1>5, <1>6 DEF LostInv, Carries, Busy, history
  <1>9. Apart(c)
    BY <1>1, <1>3 DEF Apart, reading, session, history
  <1>10. ~spoiled' => TextApart(c) /\ Grows
    BY <1>0, <1>1, <1>5, EmptyText DEF TextApart, Grows, Extending, history
  <1>11. CallInv(c)' /\ Extending(c)' /\ Carries(c)'
    <2>1. c \notin accepted
      BY <1>0 DEF CallInv
    <2> QED BY <1>0, <1>1, <1>3, <1>6, <2>1 DEF CallInv, Extending, Carries, InLock, Busy, history
  <1>12. ASSUME c \in Readers PROVE ReadInv(c)' /\ Window(c)' /\ Pinned(c)'
    <2>1. ReadInv(c) /\ Window(c) /\ Pinned(c)
      BY <1>12 DEF IInv
    <2>2. ReadInv(c)' /\ Window(c)'
      BY <1>0, <1>1, <1>3, <2>1 DEF ReadInv, Window, reading, session, history, Steps
    <2>3. Pinned(c)'
      BY <1>0, <1>1, <1>3, <1>10, <2>1 DEF Pinned, Grows, reading, history
    <2> QED BY <2>2, <2>3
  <1>13. /\ \A d \in Callers \ {c} : CallInv(d)' /\ Extending(d)' /\ Carries(d)'
         /\ \A q \in Readers \ {c} : ReadInv(q)' /\ Window(q)' /\ Pinned(q)'
    BY <1>6, <1>9, <1>10, OthersKeep
  <1> QED BY <1>2, <1>7, <1>8, <1>11, <1>12, <1>13 DEF IInv

LEMMA WritesKeeps == ASSUME IInv, NEW c \in Callers, Writes(c) PROVE IInv'
  <1>0. TypeOK /\ FileInv /\ CallInv(c) /\ Carries(c) /\ step[c] = "torn" /\ lock = c
    BY DEF IInv, Writes, CallInv, InLock
  <1>1. /\ UNCHANGED <<roles, lock, reading, session, failed, spoiled>>
        /\ file' = "whole" /\ text' = buffer[c] /\ buffer' = [buffer EXCEPT ![c] = Empty]
        /\ step' = [step EXCEPT ![c] = "written"]
    BY DEF Writes, Goes
  <1>2. /\ accepted \subseteq accepted' /\ overtaken' \subseteq accepted' /\ accepted' \subseteq Letters
        /\ \A m \in accepted' : m \in accepted \/ (m = c /\ c \in Letters)
        /\ \A m \in accepted' \ overtaken' : m \in accepted \ overtaken \/ (m = c /\ c \in Letters /\ NobodySweeps)
        /\ c \in Letters => c \in accepted'
    <2>1. CASE c \notin Letters
      BY <1>0, <2>1 DEF Writes, TypeOK
    <2>2. CASE c \in Letters
      BY <1>0, <2>2 DEF Writes, TypeOK, NobodySweeps
    <2> QED BY <2>1, <2>2
  <1>3. TypeOK'
    BY <1>0, <1>1, <1>2, EmptyText DEF TypeOK, reading, session, Steps
  <1>4. /\ step'[c] = "written" /\ buffer'[c] = Empty
        /\ \A d \in Callers \ {c} : step'[d] = step[d] /\ buffer'[d] = buffer[d]
    BY <1>0, <1>1 DEF TypeOK
  <1>5. lock # Nobody
    BY <1>0, CallersAssumption
  <1>6. TornNow /\ Settled = buffer[c] /\ ~TornNow' /\ Settled' = buffer[c]
    BY <1>0, <1>1, <1>4, <1>5 DEF TornNow, Settled, Content
  <1>7. ServedStays /\ \A m : Served(m)' = Served(m)
    BY <1>1 DEF ServedStays, Served, session, reading
  <1>8. FileInv'
    <2>1. In(buffer[c]) \subseteq Letters
      BY <1>0 DEF In, TypeOK, Texts
    <2>2. In(text') \subseteq accepted' /\ text'.read \subseteq accepted'
      BY <1>0, <1>1, <1>2, <2>1 DEF CallInv
    <2>3. ~spoiled' => accepted' \subseteq In(text')
      BY <1>0, <1>1, <1>2 DEF CallInv, Busy, Unread
    <2> QED BY <1>1, <1>6, <2>2, <2>3 DEF FileInv
  <1>9. LostInv'
    <2>1. ASSUME ~spoiled, NEW m \in accepted' \ overtaken' PROVE Served(m)' \/ m \in Unread(buffer[c])
      <3>1. CASE m \in accepted \ overtaken
        BY <1>0, <1>7, <2>1, <3>1 DEF Carries, Busy
      <3>2. CASE m = c /\ c \in Letters
        BY <1>0, <3>2 DEF CallInv, Busy
      <3> QED BY <1>2, <3>1, <3>2
    <2> QED BY <1>1, <1>6, <2>1 DEF LostInv
  <1>10. Apart(c)
    BY <1>0, <1>1, <1>2, <1>4 DEF Apart, InLock, reading, session
  <1>11. TextApart(c) /\ Grows
    BY <1>0, <1>6 DEF TextApart, Grows, InLock
  <1>12. CallInv(c)' /\ Extending(c)' /\ Carries(c)'
    BY <1>0, <1>1, <1>4, EmptyText DEF CallInv, Extending, Carries, InLock, Busy
  <1>13. ASSUME c \in Readers PROVE ReadInv(c)' /\ Window(c)' /\ Pinned(c)'
    <2>1. ReadInv(c) /\ Window(c) /\ Pinned(c)
      BY <1>13 DEF IInv
    <2>2. ReadInv(c)' /\ Window(c)'
      BY <1>0, <1>1, <1>4, <2>1 DEF ReadInv, Window, reading, session, Steps
    <2>3. Pinned(c)'
      BY <1>0, <1>1, <1>4, <1>6, <2>1 DEF Pinned, reading
    <2> QED BY <2>2, <2>3
  <1>14. /\ \A d \in Callers \ {c} : CallInv(d)' /\ Extending(d)' /\ Carries(d)'
         /\ \A q \in Readers \ {c} : ReadInv(q)' /\ Window(q)' /\ Pinned(q)'
    BY <1>7, <1>10, <1>11, OthersKeep
  <1> QED BY <1>3, <1>8, <1>9, <1>12, <1>13, <1>14 DEF IInv

LEMMA StepKeeps == IInv /\ [Next]_vars => IInv'
  <1> SUFFICES ASSUME IInv, [Next]_vars PROVE IInv'
    OBVIOUS
  <1>0. DOMAIN roles \subseteq Readers /\ Letters \subseteq Callers /\ Readers \subseteq Callers
    BY DEF IInv, TypeOK, Readers, Callers
  <1>1. CASE InboxServed
    BY <1>1, InboxServedKeeps
  <1>2. CASE LockExpires
    BY <1>2, LockExpiresKeeps
  <1>3. ASSUME NEW m \in Letters, Sends(m) \/ Dies(m) PROVE IInv'
    BY <1>3, CreatesKeeps, CreateEndsKeeps, DiesKeeps DEF Sends
  <1>4. ASSUME NEW r \in DOMAIN roles, Looks(r) \/ TurnStarts(r) PROVE IInv'
    BY <1>0, <1>4, PollsKeeps, RoutesKeeps, AttachesKeeps, WaitsKeeps, TurnStartsKeeps DEF Looks
  <1>5. ASSUME NEW c \in Letters \cup DOMAIN roles, Locked(c) PROVE IInv'
    <2>1. c \in Callers
      BY <1>0, <1>5
    <2> QED BY <1>5, <2>1, LocksKeeps, LockFailsKeeps, RereadsKeeps, TruncatesKeeps, WritesKeeps, ReleasesKeeps
            DEF Locked
  <1>6. CASE UNCHANGED vars
    BY <1>6 DEF vars, calls, reading, session, history, IInv, TypeOK, FileInv, TornNow, LostInv, Served,
                Settled, Content, CallInv, Extending, Carries, InLock, Busy, ReadInv, Window, Pinned
  <1> QED BY <1>1, <1>2, <1>3, <1>4, <1>5, <1>6 DEF Next

LEMMA Invariance == Safety => []IInv
  BY Start, StepKeeps, PTL DEF Safety


(* What the files promise *)

\* The inbox, its callers and its readers keep their types.
THEOREM TypeCorrect == Safety => []TypeOK
  <1>1. IInv => TypeOK
    BY DEF IInv
  <1> QED BY <1>1, Invariance, PTL

\* However many agents write, mark and read, nothing that was written is missing once
\* the write that is under way is done, short of a file left in pieces (writeToMailbox).
THEOREM FileKeepsLetters == Safety => []KeptInFile
  <1>1. IInv => KeptInFile
    <2> SUFFICES ASSUME IInv, ~spoiled PROVE accepted \subseteq In(Settled)
      BY DEF KeptInFile
    <2>0. FileInv
      BY DEF IInv
    <2>1. CASE ~TornNow
      BY <2>0, <2>1, ReadsText DEF FileInv
    <2>2. CASE TornNow
      <3>1. lock \in Callers /\ step[lock] = "torn" /\ Settled = buffer[lock]
        BY <2>0, <2>2, ReadsText DEF IInv, TypeOK, TornNow
      <3> QED BY <3>1 DEF IInv, CallInv, Busy
    <2> QED BY <2>1, <2>2
  <1> QED BY <1>1, Invariance, PTL

\* A letter that is neither delivered nor on its way was written between the look of a
\* reader and its mark: no other interleaving loses one.
THEOREM OnlyOvertakenLost == Safety => []LostOnlyIfOvertaken
  <1>1. IInv => LostOnlyIfOvertaken
    BY DEF IInv, LostInv, LostOnlyIfOvertaken, Served, Waiting
  <1> QED BY <1>1, Invariance, PTL


(* A single reader *)

Got == delivered \cup inbox

\* What the reader w has got although it is unread: it marks it next.
Debt(w) ==
  IF step[w] \notin {"locking", "locked", "holding"} THEN {}
  ELSE IF role[w] = "poll" THEN Letters ELSE IF role[w] = "turn" THEN Letters \ Protocol ELSE {}

\* Whatever the only reader has got it has marked, or marks before it looks again.
OnceInv(w) ==
  /\ twice = {}
  /\ \A q \in Readers \ {w} : step[q] = "idle"
  /\ Got \cup found[w] \subseteq accepted
  /\ Got \cap found[w] = {}
  /\ Got \cap Unread(Settled) \subseteq Debt(w)
  /\ \A c \in Letters : Busy(c) => Got \cap Unread(buffer[c]) \subseteq Debt(w)
  /\ Busy(w) => (Got \cup found[w]) \cap Unread(buffer[w]) = {}
  /\ step[w] = "written" => (Got \cup found[w]) \cap Unread(Settled) = {}
  /\ role[w] = "turn" => glimpsed[w] = inbox
  /\ ~(role[w] = "turn" /\ step[w] # "started") => inbox \cap delivered = {}

Lone(w) == DOMAIN roles = {w} /\ ~failed /\ ~spoiled
LoneInv == \A w \in Readers : Lone(w) => OnceInv(w)

\* Away from the writes, the file says the same before and after a step.
LEMMA SettledStays ==
  ASSUME TypeOK, NEW c \in Callers, UNCHANGED <<file, text>>, step[c] # "torn", step'[c] # "torn",
         \A d \in Callers \ {c} : step'[d] = step[d] /\ buffer'[d] = buffer[d],
         lock' = lock \/ (lock \in {c, Nobody} /\ lock' \in {c, Nobody})
  PROVE  Settled' = Settled
  <1>1. lock \in Callers \cup {Nobody} /\ Nobody \notin Callers /\ Content' = Content
    BY CallersAssumption DEF TypeOK, Content
  <1>2. CASE lock \in Callers \ {c}
    BY <1>1, <1>2 DEF Settled
  <1>3. CASE lock \in {c, Nobody}
    BY <1>1, <1>3 DEF Settled
  <1> QED BY <1>1, <1>2, <1>3

\* The steps of writers, and the expiry of a lock.
LEMMA WriterOnce ==
  ASSUME NEW w \in Readers, OnceInv(w), UNCHANGED <<reading, session>>, accepted \subseteq accepted',
         \A q \in Readers : step'[q] = step[q], buffer'[w] = buffer[w],
         Got \cap Unread(Settled') \subseteq Debt(w), step[w] = "written" => Settled' = Settled,
         \A c \in Letters : Busy(c)' => Got \cap Unread(buffer'[c]) \subseteq Debt(w)
  PROVE  OnceInv(w)'
  <1>1. Got' = Got /\ Debt(w)' = Debt(w) /\ Busy(w)' = Busy(w)
    BY DEF Got, Debt, Busy, reading, session
  <1>2. /\ UNCHANGED <<role, found, glimpsed, inbox, delivered, twice>>
        /\ step'[w] = step[w]
    BY DEF reading, session
  <1>3. Unread(Settled)' = Unread(Settled') /\ \A c : Unread(buffer[c])' = Unread(buffer'[c])
    BY DEF Unread, In
  <1>4. \A c \in Letters : Busy(c)' => Got' \cap Unread(buffer[c])' \subseteq Debt(w)'
    BY <1>1, <1>3
  <1>5. Busy(w)' => (Got' \cup found'[w]) \cap Unread(buffer[w])' = {}
    BY <1>1, <1>2, <1>3 DEF OnceInv
  <1>6. step'[w] = "written" => (Got' \cup found'[w]) \cap Unread(Settled)' = {}
    BY <1>1, <1>2, <1>3 DEF OnceInv
  <1>7. Got' \cap Unread(Settled)' \subseteq Debt(w)'
    BY <1>1, <1>3
  <1>8. Got' \cup found'[w] \subseteq accepted' /\ Got' \cap found'[w] = {}
    BY <1>1, <1>2 DEF OnceInv
  <1> QED BY <1>1, <1>2, <1>4, <1>5, <1>6, <1>7, <1>8 DEF OnceInv

LEMMA LetterOnce ==
  ASSUME IInv, NEW w \in Readers, OnceInv(w), ~spoiled, ~spoiled', NEW m \in Letters,
         Sends(m) \/ Dies(m) \/ Locked(m)
  PROVE  OnceInv(w)'
  <1>0. TypeOK /\ FileInv /\ m \in Callers /\ m \notin Readers /\ CallInv(m)
    BY CallersAssumption DEF IInv, Callers
  <1>1. UNCHANGED <<reading, session>> /\ accepted \subseteq accepted'
    <2>1. Sends(m) \/ Dies(m) => UNCHANGED <<reading, session, accepted>>
      BY DEF Sends, Creates, CreateEnds, Dies, history
    <2>2. Locked(m) => UNCHANGED <<reading, session>> /\ accepted \subseteq accepted'
      BY DEF Locked, Locks, LockFails, Rereads, Truncates, Writes, Releases, history
    <2> QED BY <2>1, <2>2
  <1>2. \A d \in Callers \ {m} : step'[d] = step[d] /\ buffer'[d] = buffer[d]
    <2>1. \E s \in Steps : step' = [step EXCEPT ![m] = s]
      BY DEF Sends, Creates, CreateEnds, Dies, Locked, Locks, LockFails, Rereads, Truncates, Writes,
             Releases, Goes, Steps
    <2>2. \E b : buffer' = buffer \/ buffer' = [buffer EXCEPT ![m] = b]
      BY DEF Sends, Creates, CreateEnds, Dies, Locked, Locks, LockFails, Rereads, Truncates, Writes,
             Releases
    <2> QED BY <1>0, <2>1, <2>2 DEF TypeOK
  <1>3. \A q \in Readers : step'[q] = step[q] /\ buffer'[q] = buffer[q]
    BY <1>0, <1>2 DEF Callers
  <1>4. Got \cap Unread(Settled) \subseteq Debt(w)
    BY DEF OnceInv
  <1>5. \A c \in Letters \ {m} : Busy(c)' => Got \cap Unread(buffer'[c]) \subseteq Debt(w)
    BY <1>2 DEF OnceInv, Busy, Callers
  <1>6. ASSUME Settled' = Settled,
               Busy(m)' => (buffer'[m] = buffer[m] /\ Busy(m)) \/ Got \cap Unread(buffer'[m]) \subseteq Debt(w)
        PROVE  OnceInv(w)'
    <2>1. Busy(m)' => Got \cap Unread(buffer'[m]) \subseteq Debt(w)
      BY <1>6 DEF OnceInv
    <2> QED BY <1>1, <1>3, <1>4, <1>5, <1>6, <2>1, WriterOnce
  <1>7. CASE Creates(m)
    <2>1. step'[m] \in {"creating", "locking"} /\ UNCHANGED <<text, lock, buffer>> /\ step[m] = "idle"
      BY <1>0, <1>7 DEF Creates, Goes, TypeOK
    <2>2. file' = file \/ (file = "missing" /\ file' = "garbled")
      BY <1>7 DEF Creates
    <2>3. TornNow' = TornNow /\ Content' = Content
      BY <1>0, <1>2, <2>1, <2>2 DEF TornNow, Content, TypeOK
    <2>4. Settled' = Settled
      BY <2>1, <2>3 DEF Settled, TornNow
    <2> QED BY <1>6, <2>1, <2>4 DEF Busy
  <1>8. CASE CreateEnds(m)
    <2>1. /\ step'[m] = "locking" /\ UNCHANGED <<lock, buffer>> /\ step[m] = "creating"
          /\ text' = Empty /\ file' = "whole" /\ (file = "whole" => text = Empty)
      BY <1>0, <1>8 DEF CreateEnds, Goes, TypeOK
    <2>2. TornNow' = TornNow /\ Content' = Content
      BY <1>0, <1>2, <2>1 DEF TornNow, Content, TypeOK
    <2>3. Settled' = Settled
      BY <2>1, <2>2 DEF Settled, TornNow
    <2> QED BY <1>6, <2>1, <2>3 DEF Busy
  <1>9. CASE Dies(m) \/ LockFails(m) \/ Locks(m) \/ Releases(m)
    <2>1. /\ step'[m] \in {"dead", "over", "locked"} /\ UNCHANGED <<file, text, buffer>> /\ step[m] # "torn"
      BY <1>0, <1>9 DEF Dies, LockFails, Locks, Releases, Goes, TypeOK
    <2>2. lock' = lock \/ (lock \in {m, Nobody} /\ lock' \in {m, Nobody})
      BY <1>0, <1>9 DEF Dies, LockFails, Locks, Releases, CallInv, InLock
    <2>3. Settled' = Settled
      BY <1>0, <1>2, <2>1, <2>2, SettledStays
    <2> QED BY <1>6, <2>1, <2>3 DEF Busy
  <1>10. CASE Rereads(m)
    <2> DEFINE b == [order |-> Append(text.order, m), read |-> text.read]
    <2>0. lock = m /\ step[m] = "locked" /\ m \notin accepted
      BY <1>0, <1>10 DEF Rereads, CallInv, InLock
    <2>1. Content = text /\ Settled = text /\ text \in Texts
      BY <1>0, <2>0, ReadsText DEF TornNow, TypeOK
    <2>2. /\ step' = [step EXCEPT ![m] = "holding"] /\ UNCHANGED <<file, text, lock>>
          /\ buffer' = [buffer EXCEPT ![m] = b]
      BY <1>10, <2>1 DEF Rereads, Goes
    <2>3. step'[m] = "holding" /\ buffer'[m] = b
      BY <1>0, <2>2 DEF TypeOK
    <2>4. Settled' = Settled
      BY <1>0, <1>2, <2>0, <2>2, <2>3, SettledStays
    <2>5. In(b) = In(text) \cup {m} /\ b.read = text.read
      BY <2>1, AppendText
    <2> HIDE DEF b
    <2>6. Got \cap Unread(b) \subseteq Debt(w)
      BY <1>4, <2>0, <2>1, <2>5 DEF Unread, OnceInv
    <2> QED BY <1>6, <2>3, <2>4, <2>6
  <1>11. CASE Truncates(m)
    <2>1. /\ step'[m] = "torn" /\ UNCHANGED <<lock, buffer>> /\ step[m] = "holding" /\ lock = m
      BY <1>0, <1>11 DEF Truncates, Goes, TypeOK, CallInv, InLock
    <2>2. Settled' = buffer[m]
      BY <1>0, <2>1, CallersAssumption DEF Settled
    <2>3. Got \cap Unread(buffer[m]) \subseteq Debt(w)
      BY <2>1 DEF OnceInv, Busy
    <2>4. step[w] # "written"
      BY <1>0, <2>1, Alone DEF InLock, Callers
    <2> QED BY <1>1, <1>3, <1>5, <2>1, <2>2, <2>3, <2>4, WriterOnce
  <1>12. CASE Writes(m)
    <2>1. /\ step'[m] = "written" /\ step[m] = "torn" /\ lock = m /\ lock' = lock
          /\ file' = "whole" /\ text' = buffer[m]
      BY <1>0, <1>12 DEF Writes, Goes, TypeOK, CallInv, InLock
    <2>2. Settled' = buffer[m] /\ Settled = buffer[m]
      BY <1>0, <2>1, CallersAssumption DEF Settled, Content
    <2> QED BY <1>6, <2>1, <2>2 DEF Busy
  <1> QED BY <1>7, <1>8, <1>9, <1>10, <1>11, <1>12 DEF Sends, Locked

\* The steps of the reader away from the lock.
LEMMA LookOnce ==
  ASSUME TypeOK, NEW w \in Readers, OnceInv(w), NEW s \in {"idle", "started", "found", "locking"},
         step' = [step EXCEPT ![w] = s], UNCHANGED <<file, text, lock, buffer, accepted>>,
         step[w] # "torn", twice' = {},
         Got' \cup found'[w] \subseteq accepted, Got' \cap found'[w] = {},
         Got' \cap Unread(Settled) \subseteq Debt(w)',
         \A c \in Letters : Busy(c) => Got' \cap Unread(buffer[c]) \subseteq Debt(w)',
         role'[w] = "turn" => glimpsed'[w] = inbox',
         ~(role'[w] = "turn" /\ s # "started") => inbox' \cap delivered' = {}
  PROVE  OnceInv(w)'
  <1>1. w \in Callers /\ Letters \subseteq Callers \ {w} /\ Readers \subseteq Callers
    BY CallersAssumption DEF Callers
  <1>2. step'[w] = s /\ \A d \in Callers \ {w} : step'[d] = step[d]
    BY <1>1 DEF TypeOK
  <1>3. Settled' = Settled
    BY <1>1, <1>2, SettledStays
  <1>4. \A q \in Readers \ {w} : step'[q] = "idle"
    BY <1>1, <1>2 DEF OnceInv
  <1>5. Unread(Settled)' = Unread(Settled) /\ \A c : Unread(buffer[c])' = Unread(buffer[c])
    BY <1>3 DEF Unread, In
  <1>6. Got' \cap Unread(Settled)' \subseteq Debt(w)'
    BY <1>5
  <1>7. \A c \in Letters : Busy(c)' => Got' \cap Unread(buffer[c])' \subseteq Debt(w)'
    BY <1>1, <1>2, <1>5 DEF Busy
  <1>8. ~Busy(w)' /\ step'[w] # "written"
    BY <1>2 DEF Busy
  <1> QED BY <1>2, <1>4, <1>6, <1>7, <1>8 DEF OnceInv

LEMMA LooksOnce ==
  ASSUME IInv, NEW w \in Readers, OnceInv(w), ~spoiled, Looks(w) \/ TurnStarts(w)
  PROVE  OnceInv(w)'
  <1>0. TypeOK /\ FileInv /\ ReadInv(w) /\ w \in Callers
    BY DEF IInv, Callers
  <1>1. step[w] \in {"idle", "found", "started"} => /\ Debt(w) = {}
                                                    /\ inbox \cap delivered = {}
                                                    /\ Got \cap Unread(Settled) = {}
                                                    /\ \A c \in Letters : Busy(c) => Got \cap Unread(buffer[c]) = {}
    BY <1>0 DEF OnceInv, Debt, ReadInv
  <1>2. twice = {} /\ Got \cup found[w] \subseteq accepted /\ Got \cap found[w] = {}
    BY DEF OnceInv
  <1>3. \A t \in Texts : Unread(t) \subseteq Letters
    BY DEF Texts, Unread, In
  <1>4. Content = text /\ Unread(text) \subseteq accepted
    BY <1>0, ReadsText DEF FileInv, Unread
  <1>5. CASE Polls(w)
    <2>1. /\ UNCHANGED <<file, text, lock, buffer, glimpsed, session, history>> /\ step[w] = "idle"
          /\ role'[w] = "poll" /\ found'[w] = Unread(text) /\ step' = [step EXCEPT ![w] = "found"]
      BY <1>0, <1>4, <1>5 DEF Polls, Goes, TypeOK
    <2>2. Settled = text
      BY <1>5, Looking DEF Polls
    <2>3. Got' = Got /\ UNCHANGED <<inbox, delivered, twice, accepted>>
      BY <2>1 DEF Got, session, history
    <2>4. Got' \cup found'[w] \subseteq accepted /\ Got' \cap found'[w] = {}
      BY <1>1, <1>2, <1>4, <2>1, <2>2, <2>3
    <2> QED BY <1>0, <1>1, <1>2, <2>1, <2>3, <2>4, LookOnce
  <1>6. CASE Routes(w)
    <2>1. /\ UNCHANGED <<file, text, lock, buffer, role, glimpsed, history>> /\ step[w] = "found"
          /\ role[w] = "poll" /\ found'[w] = {} /\ step' = [step EXCEPT ![w] = "locking"]
      BY <1>0, <1>6 DEF Routes, Goes, TypeOK, ReadInv
    <2>2. \E S \in SUBSET found[w] :
            delivered' = delivered \cup S /\ inbox' = inbox \cup (found[w] \ S) /\ twice' = {}
      <3>1. CASE ~TurnRuns /\ Delivers(found[w]) /\ UNCHANGED inbox
        <4>1. delivered' = delivered \cup found[w] /\ twice' = {} /\ inbox' = inbox \cup (found[w] \ found[w])
          BY <1>2, <3>1 DEF Delivers, Got
        <4> QED BY <4>1
      <3>2. CASE /\ Delivers(found[w] \cap (Protocol \ Shutdowns))
                 /\ inbox' = inbox \cup (found[w] \ (Protocol \ Shutdowns))
        <4> DEFINE S == found[w] \cap (Protocol \ Shutdowns)
        <4>1. delivered' = delivered \cup S /\ twice' = twice \cup (S \cap delivered)
          BY <3>2 DEF Delivers
        <4>2. inbox' = inbox \cup (found[w] \ S)
          BY <3>2
        <4>3. S \in SUBSET found[w] /\ S \cap delivered = {}
          BY <1>2 DEF Got
        <4> QED BY <1>2, <4>1, <4>2, <4>3
      <3> QED BY <1>6, <3>1, <3>2 DEF Routes
    <2>3. Got' = Got \cup found[w] /\ inbox' \cap delivered' = {} /\ twice' = {}
      BY <1>1, <1>2, <2>1, <2>2 DEF Got
    <2>4. Debt(w)' = Letters
      BY <1>0, <2>1 DEF Debt, TypeOK
    <2>5. Settled \in Texts /\ \A c \in Letters : buffer[c] \in Texts
      BY <1>0, EmptyText DEF Settled, Content, TypeOK, Callers
    <2> QED BY <1>0, <1>2, <1>3, <2>1, <2>3, <2>4, <2>5, LookOnce DEF history
  <1>7. CASE TurnStarts(w)
    <2>1. /\ UNCHANGED <<file, text, lock, buffer, found, session, history>> /\ step[w] = "idle"
          /\ role'[w] = "turn" /\ glimpsed'[w] = inbox /\ step' = [step EXCEPT ![w] = "started"]
      BY <1>0, <1>7 DEF TurnStarts, Goes, TypeOK
    <2>2. Got' = Got /\ UNCHANGED <<inbox, delivered, twice, accepted>>
      BY <2>1 DEF Got, session, history
    <2> QED BY <1>0, <1>1, <1>2, <2>1, <2>2, LookOnce
  <1>8. CASE Attaches(w)
    <2> DEFINE plain == Unread(Content) \ Protocol
    <2>0. /\ UNCHANGED <<file, text, lock, buffer, history>> /\ step[w] = "started"
          /\ delivered' = delivered \cup (plain \cup glimpsed[w])
          /\ twice' = twice \cup ((plain \cup glimpsed[w]) \cap delivered)
          /\ role[w] = "turn" /\ glimpsed[w] = inbox /\ found[w] = {}
      BY <1>0, <1>8 DEF Attaches, Delivers, ReadInv, OnceInv
    <2>1. plain \cap Got = {} /\ plain \subseteq accepted
      <3>1. plain # {} => Settled = text
        BY Looking
      <3> QED BY <1>1, <1>4, <2>0, <3>1
    <2>2. twice' = {}
      BY <1>1, <1>2, <2>0, <2>1 DEF Got
    <2>3. CASE plain # {}
      <3>1. UNCHANGED <<reading, inbox>> /\ step' = [step EXCEPT ![w] = "locking"]
        BY <1>8, <2>3 DEF Attaches, Goes
      <3>2. Got' = Got \cup plain
        BY <2>0, <3>1 DEF Got
      <3>3. Debt(w)' = Letters \ Protocol
        BY <1>0, <2>0, <3>1 DEF Debt, TypeOK, reading
      <3>4. plain \subseteq Letters \ Protocol
        BY <1>0, <1>3, <1>4 DEF TypeOK
      <3> HIDE DEF plain
      <3>5. /\ Got' \cap Unread(Settled) \subseteq Debt(w)'
            /\ \A c \in Letters : Busy(c) => Got' \cap Unread(buffer[c]) \subseteq Debt(w)'
        BY <1>1, <2>0, <3>2, <3>3, <3>4
      <3> QED BY <1>0, <1>2, <2>0, <2>1, <2>2, <3>1, <3>2, <3>5, LookOnce DEF reading, history
    <2>4. CASE plain = {}
      <3>1. Rests(w) /\ inbox' = inbox \ glimpsed[w]
        BY <1>8, <2>4 DEF Attaches
      <3>2. role'[w] = "none" /\ found'[w] = {} /\ step' = [step EXCEPT ![w] = "idle"]
        BY <1>0, <3>1 DEF Rests, Goes, TypeOK
      <3>3. Got' = Got /\ inbox' = {}
        BY <2>0, <2>4, <3>1 DEF Got
      <3> QED BY <1>0, <1>1, <1>2, <2>0, <2>2, <3>2, <3>3, LookOnce DEF history
    <2> QED BY <2>3, <2>4
  <1>9. CASE Waits(w)
    <2>1. /\ UNCHANGED <<file, text, lock, buffer, glimpsed, session, history>> /\ step[w] = "idle"
          /\ role'[w] = "wait" /\ step' = [step EXCEPT ![w] = "locking"]
      BY <1>0, <1>9 DEF Waits, Goes, TypeOK
    <2>2. PICK i \in DOMAIN text.order : found'[w] = {text.order[i]} /\ text.order[i] \in Unread(text)
      <3>1. PICK i \in DOMAIN text.order : Chosen(text, i) /\ found' = [found EXCEPT ![w] = {text.order[i]}]
        BY <1>4, <1>9 DEF Waits
      <3>2. text.order[i] \in Unread(text)
        BY <3>1 DEF Chosen
      <3> QED BY <1>0, <3>1, <3>2 DEF TypeOK
    <2>3. Settled = text
      BY <1>4, <2>2, Looking
    <2>4. Got' = Got /\ UNCHANGED <<inbox, delivered, twice, accepted>>
      BY <2>1 DEF Got, session, history
    <2>5. Got' \cup found'[w] \subseteq accepted /\ Got' \cap found'[w] = {}
      BY <1>1, <1>2, <1>4, <2>1, <2>2, <2>3, <2>4
    <2> QED BY <1>0, <1>1, <1>2, <2>1, <2>4, <2>5, LookOnce
  <1> QED BY <1>5, <1>6, <1>7, <1>8, <1>9 DEF Looks

LEMMA InboxOnce ==
  ASSUME IInv, NEW w \in Readers, OnceInv(w), InboxServed
  PROVE  OnceInv(w)'
  <1>1. /\ UNCHANGED <<file, text, calls, reading, history>> /\ inbox' = {}
        /\ delivered' = delivered \cup inbox /\ twice' = twice \cup (inbox \cap delivered)
        /\ role[w] # "turn"
    BY DEF InboxServed, Delivers, TurnRuns
  <1>2. inbox \cap delivered = {} /\ twice' = {} /\ Got' = Got /\ Debt(w)' = Debt(w)
    BY <1>1 DEF OnceInv, Got, Debt, calls, reading
  <1>3. Settled' = Settled
    BY <1>1 DEF Settled, Content, calls
  <1>4. Unread(Settled)' = Unread(Settled) /\ \A c : Unread(buffer[c])' = Unread(buffer[c]) /\ Busy(c)' = Busy(c)
    BY <1>1, <1>3 DEF Unread, In, Busy, calls
  <1>5. UNCHANGED <<role, found, glimpsed, step, accepted>>
    BY <1>1 DEF calls, reading, history
  <1> QED BY <1>1, <1>2, <1>4, <1>5 DEF OnceInv

\* The steps of the reader at the lock and the file.
LEMMA MarkOnce ==
  ASSUME IInv, NEW w \in Readers, OnceInv(w), ~spoiled, ~failed', Locked(w)
  PROVE  OnceInv(w)'
  <1>0. /\ TypeOK /\ FileInv /\ ReadInv(w) /\ CallInv(w) /\ Pinned(w)
        /\ w \in Callers /\ w \notin Letters /\ Letters \subseteq Callers \ {w}
    BY CallersAssumption DEF IInv, Callers
  <1>1. /\ twice = {} /\ Got \cup found[w] \subseteq accepted /\ Got \cap found[w] = {}
        /\ Got \cap Unread(Settled) \subseteq Debt(w)
        /\ role[w] = "turn" => glimpsed[w] = inbox
        /\ ~(role[w] = "turn" /\ step[w] # "started") => inbox \cap delivered = {}
    BY DEF OnceInv
  <1>2. \A d \in Callers \ {w} : step'[d] = step[d] /\ buffer'[d] = buffer[d]
    <2>1. \E s \in Steps : step' = [step EXCEPT ![w] = s]
      BY DEF Locked, Locks, LockFails, Rereads, Truncates, Writes, Releases, Ends, Rests, Goes, Steps
    <2>2. \E b : buffer' = buffer \/ buffer' = [buffer EXCEPT ![w] = b]
      BY DEF Locked, Locks, LockFails, Rereads, Truncates, Writes, Releases
    <2> QED BY <1>0, <2>1, <2>2 DEF TypeOK
  <1>3. \A q \in Readers \ {w} : step'[q] = "idle"
    BY <1>0, <1>2 DEF OnceInv, Callers
  <1>4. InLock(w) => lock = w /\ \A c \in Letters : ~Busy(c)
    BY <1>0, Alone DEF CallInv, InLock, Busy
  <1>5. \A t \in Texts : Unread(t) \subseteq Letters
    BY DEF Texts, Unread, In
  <1>6. ASSUME UNCHANGED <<reading, session, accepted>>, step'[w] # "started",
               InLock(w), step[w] # "started",
               Got \cap Unread(Settled') \subseteq Debt(w)',
               Busy(w)' => (Got \cup found[w]) \cap Unread(buffer'[w]) = {},
               step'[w] = "written" => (Got \cup found[w]) \cap Unread(Settled') = {}
        PROVE  OnceInv(w)'
    <2>1. UNCHANGED <<role, found, glimpsed, inbox, delivered, twice>> /\ Got' = Got
      BY <1>6 DEF reading, session, Got
    <2>2. Unread(Settled)' = Unread(Settled') /\ \A c : Unread(buffer[c])' = Unread(buffer'[c])
      BY DEF Unread, In
    <2>3. \A c \in Letters : ~Busy(c)'
      BY <1>0, <1>2, <1>4, <1>6 DEF Busy
    <2>4. Got' \cap Unread(Settled)' \subseteq Debt(w)'
      BY <1>6, <2>1, <2>2
    <2>5. Busy(w)' => (Got' \cup found'[w]) \cap Unread(buffer[w])' = {}
      BY <1>6, <2>1, <2>2
    <2>6. step'[w] = "written" => (Got' \cup found'[w]) \cap Unread(Settled)' = {}
      BY <1>6, <2>1, <2>2
    <2>7. Got' \cup found'[w] \subseteq accepted' /\ Got' \cap found'[w] = {}
      BY <1>1, <1>6, <2>1
    <2> QED BY <1>1, <1>3, <1>6, <2>1, <2>3, <2>4, <2>5, <2>6, <2>7 DEF OnceInv
  <1>7. CASE Locks(w)
    <2>1. /\ UNCHANGED <<file, text, buffer, reading, session, history>> /\ lock = Nobody /\ lock' = w
          /\ step' = [step EXCEPT ![w] = "locked"] /\ step[w] = "locking"
      BY <1>7 DEF Locks, Goes
    <2>2. step'[w] = "locked"
      BY <1>0, <2>1 DEF TypeOK
    <2>3. Settled' = Settled
      BY <1>0, <1>2, <2>1, <2>2, SettledStays
    <2>4. UNCHANGED <<role, found, glimpsed, inbox, delivered, twice, accepted>> /\ Got' = Got
      BY <2>1 DEF reading, session, history, Got
    <2>5. Debt(w)' = Debt(w)
      BY <2>1, <2>2, <2>4 DEF Debt
    <2>6. Unread(Settled)' = Unread(Settled) /\ \A c : Unread(buffer[c])' = Unread(buffer[c])
      BY <2>1, <2>3 DEF Unread, In
    <2>7. \A c \in Letters : Busy(c)' => Got' \cap Unread(buffer[c])' \subseteq Debt(w)'
      BY <1>0, <1>2, <2>4, <2>5, <2>6 DEF OnceInv, Busy
    <2>8. ~Busy(w)' /\ step'[w] # "written"
      BY <2>2 DEF Busy
    <2> QED BY <1>1, <1>3, <2>1, <2>2, <2>4, <2>5, <2>6, <2>7, <2>8 DEF OnceInv
  <1>8. CASE LockFails(w)
    BY <1>0, <1>8 DEF LockFails
  <1>9. CASE Rereads(w)
    <2>1. lock = w /\ step[w] = "locked" /\ InLock(w)
      BY <1>0, <1>9 DEF Rereads, CallInv, InLock
    <2>2. Content = text /\ Settled = text /\ text \in Texts
      BY <1>0, <2>1, ReadsText DEF TornNow, TypeOK
    <2>3. UNCHANGED <<file, text, lock, reading, session, history>> /\ step'[w] \in {"written", "holding"}
      BY <1>0, <1>9 DEF Rereads, Goes, TypeOK
    <2>4. Settled' = text
      BY <1>0, <1>2, <2>1, <2>2, <2>3, SettledStays
    <2>5. (Got \cup found[w]) \cap Unread(Marked(w, text)) = {}
      <3>1. In(Marked(w, text)) = In(text)
        BY <1>0, <2>2, MarkedText DEF TypeOK
      <3>2. CASE role[w] = "poll"
        <4>1. Marked(w, text).read = In(text)
          BY <2>2, <3>2 DEF Marked, Texts
        <4> QED BY <3>1, <4>1 DEF Unread
      <3>3. CASE role[w] = "turn"
        <4>1. Marked(w, text).read = text.read \cup (In(text) \ Protocol)
          BY <2>2, <3>3 DEF Marked, Texts
        <4>2. found[w] = {} /\ Debt(w) = Letters \ Protocol
          BY <1>0, <2>1, <3>3 DEF ReadInv, Debt
        <4> QED BY <1>1, <2>2, <3>1, <4>1, <4>2 DEF Unread
      <3>4. CASE role[w] = "wait"
        <4>1. place[w] \in DOMAIN text.order /\ found[w] = {text.order[place[w]]}
          BY <1>0, <2>1, <2>2, <3>4 DEF Pinned
        <4>2. Marked(w, text).read = text.read \cup {text.order[place[w]]}
          BY <2>2, <3>4, <4>1 DEF Marked, Texts
        <4>3. Debt(w) = {}
          BY <3>4 DEF Debt
        <4> QED BY <1>1, <2>2, <3>1, <4>1, <4>2, <4>3 DEF Unread
      <3>5. CASE role[w] \notin {"poll", "turn", "wait"}
        <4>1. Marked(w, text) = text /\ Debt(w) = {} /\ found[w] = {}
          BY <1>0, <2>1, <3>5 DEF Marked, Debt, ReadInv
        <4> QED BY <1>1, <2>2, <4>1
      <3> QED BY <3>2, <3>3, <3>4, <3>5
    <2>6. CASE NothingToMark(w, text)
      <3>1. step'[w] = "written"
        BY <1>0, <1>9, <2>2, <2>6 DEF Rereads, Goes, TypeOK
      <3>2. (Got \cup found[w]) \cap Unread(text) = {}
        <4>1. CASE role[w] = "wait"
          BY <2>5, <2>6, <4>1 DEF NothingToMark
        <4>2. CASE role[w] # "wait"
          BY <2>6, <4>2 DEF NothingToMark, Unread, In
        <4> QED BY <4>1, <4>2
      <3>3. Debt(w)' = {}
        BY <3>1 DEF Debt
      <3> QED BY <1>6, <2>1, <2>3, <2>4, <3>1, <3>2, <3>3 DEF Busy, history
    <2>7. CASE ~NothingToMark(w, text)
      <3>1. step'[w] = "holding" /\ buffer'[w] = Marked(w, text)
        BY <1>0, <1>9, <2>2, <2>7 DEF Rereads, Goes, TypeOK
      <3>2. Debt(w)' = Debt(w)
        BY <2>1, <2>3, <3>1 DEF Debt, reading
      <3> QED BY <1>1, <1>6, <2>1, <2>2, <2>3, <2>4, <2>5, <3>1, <3>2 DEF history
    <2> QED BY <2>6, <2>7
  <1>10. CASE Truncates(w)
    <2>1. /\ step'[w] = "torn" /\ UNCHANGED <<lock, buffer, reading, session, history>>
          /\ step[w] = "holding" /\ lock = w
      BY <1>0, <1>10 DEF Truncates, Goes, TypeOK, CallInv, InLock
    <2>2. Settled' = buffer[w]
      BY <1>0, <2>1, CallersAssumption DEF Settled
    <2>3. (Got \cup found[w]) \cap Unread(buffer[w]) = {}
      BY <2>1 DEF OnceInv, Busy
    <2> QED BY <1>6, <2>1, <2>2, <2>3 DEF InLock, history
  <1>11. CASE Writes(w)
    <2>1. /\ step'[w] = "written" /\ step[w] = "torn" /\ lock = w /\ lock' = lock
          /\ file' = "whole" /\ text' = buffer[w] /\ UNCHANGED <<reading, session, accepted>>
      BY <1>0, <1>11 DEF Writes, Goes, TypeOK, CallInv, InLock
    <2>2. Settled' = buffer[w]
      BY <1>0, <2>1, CallersAssumption DEF Settled, Content
    <2>3. (Got \cup found[w]) \cap Unread(buffer[w]) = {}
      BY <2>1 DEF OnceInv, Busy
    <2> QED BY <1>6, <2>1, <2>2, <2>3 DEF InLock, Busy
  <1>12. CASE Releases(w)
    <2>1. /\ UNCHANGED <<file, text, buffer, accepted>> /\ step[w] = "written" /\ lock = w /\ lock' = Nobody
          /\ Ends(w) /\ Rests(w)
      BY <1>0, <1>12 DEF Releases, CallInv, InLock, Ends, history
    <2>2. /\ role'[w] = "none" /\ found'[w] = {} /\ step'[w] = "idle"
      BY <1>0, <2>1 DEF Rests, Goes, TypeOK
    <2>3. Settled' = Settled
      BY <1>0, <1>2, <2>1, <2>2, SettledStays
    <2>4. (Got \cup found[w]) \cap Unread(Settled) = {}
      BY <2>1 DEF OnceInv
    <2>5. Got' \subseteq Got \cup found[w] /\ twice' = {} /\ inbox' \cap delivered' = {}
      <3>1. CASE role[w] = "wait"
        BY <1>1, <2>1, <3>1 DEF Ends, Delivers, Got
      <3>2. CASE role[w] = "turn"
        BY <1>1, <2>1, <3>2 DEF Ends, Got
      <3>3. CASE role[w] \notin {"wait", "turn"}
        <4>1. UNCHANGED session
          BY <2>1, <3>3 DEF Ends
        <4> QED BY <1>1, <3>3, <4>1 DEF session, Got
      <3> QED BY <3>1, <3>2, <3>3
    <2>6. Unread(Settled)' = Unread(Settled)
      BY <2>3 DEF Unread, In
    <2>7. Got' \cap Unread(Settled)' = {}
      BY <2>4, <2>5, <2>6
    <2>8. \A c \in Letters : ~Busy(c)'
      BY <1>0, <1>2, <1>4, <2>1 DEF Busy, InLock
    <2>9. ~Busy(w)'
      BY <2>2 DEF Busy
    <2>10. Got' \cup found'[w] \subseteq accepted' /\ Got' \cap found'[w] = {}
      BY <1>1, <2>1, <2>2, <2>5
    <2> QED BY <1>3, <2>2, <2>5, <2>7, <2>8, <2>9, <2>10 DEF OnceInv
  <1> QED BY <1>7, <1>8, <1>9, <1>10, <1>11, <1>12 DEF Locked

LEMMA StepOnce == IInv /\ LoneInv /\ [Next]_vars => LoneInv'
  <1> SUFFICES ASSUME IInv, LoneInv, [Next]_vars, NEW w \in Readers, Lone(w)' PROVE OnceInv(w)'
    BY DEF LoneInv
  <1>1. roles' = roles /\ (failed => failed') /\ (spoiled => spoiled')
    <2>1. InboxServed \/ LockExpires \/ UNCHANGED vars => UNCHANGED <<roles, failed, spoiled>>
      BY DEF InboxServed, LockExpires, vars, history
    <2>2. ASSUME NEW m \in Letters, Sends(m) \/ Dies(m)
          PROVE  UNCHANGED <<roles, failed>> /\ (spoiled => spoiled')
      <3>1. CASE Creates(m)
        BY <3>1 DEF Creates, history
      <3>2. CASE CreateEnds(m)
        <4>1. UNCHANGED <<roles, failed>>
          BY <3>2 DEF CreateEnds
        <4>2. spoiled' = TRUE \/ spoiled' = spoiled
          BY <3>2 DEF CreateEnds
        <4> QED BY <4>1, <4>2
      <3>3. CASE Dies(m)
        <4>1. UNCHANGED <<roles, failed>>
          BY <3>3 DEF Dies
        <4>2. spoiled' = (spoiled \/ step[m] = "torn")
          BY <3>3 DEF Dies
        <4> QED BY <4>1, <4>2
      <3> QED BY <2>2, <3>1, <3>2, <3>3 DEF Sends
    <2>3. \A r : Looks(r) \/ TurnStarts(r) => UNCHANGED <<roles, failed, spoiled>>
      BY DEF Looks, Polls, Routes, Attaches, Waits, TurnStarts, history
    <2>4. \A c : Locks(c) \/ Rereads(c) \/ Truncates(c) \/ Writes(c) \/ Releases(c)
                => UNCHANGED <<roles, failed, spoiled>>
      BY DEF Locks, Rereads, Truncates, Writes, Releases, history
    <2>5. \A c : LockFails(c) => UNCHANGED <<roles, spoiled>> /\ (failed => failed')
      BY DEF LockFails
    <2> QED BY <2>1, <2>2, <2>3, <2>4, <2>5 DEF Next, Locked
  <1>2. DOMAIN roles = {w} /\ OnceInv(w) /\ ~spoiled /\ ~spoiled' /\ ~failed'
    BY <1>1 DEF Lone, LoneInv
  <1>3. CASE InboxServed
    BY <1>2, <1>3, InboxOnce
  <1>4. CASE LockExpires
    <2>1. /\ UNCHANGED <<file, text, step, buffer, reading, session, history>>
          /\ lock' = Nobody /\ lock \in Callers /\ step[lock] = "dead"
      BY <1>4 DEF LockExpires, IInv, TypeOK
    <2>2. Settled' = Settled
      BY <2>1 DEF Settled, Content
    <2> QED BY <1>2, <2>1, <2>2, WriterOnce DEF OnceInv, history, Busy
  <1>5. ASSUME NEW m \in Letters, Sends(m) \/ Dies(m) \/ Locked(m) PROVE OnceInv(w)'
    BY <1>2, <1>5, LetterOnce
  <1>6. CASE Looks(w) \/ TurnStarts(w)
    BY <1>2, <1>6, LooksOnce
  <1>7. CASE Locked(w)
    BY <1>2, <1>7, MarkOnce
  <1>8. CASE UNCHANGED vars
    <2>1. UNCHANGED <<file, text, lock, step, buffer, reading, session, history>>
      BY <1>8 DEF vars, calls
    <2>2. Settled' = Settled
      BY <2>1 DEF Settled, Content
    <2> QED BY <1>2, <2>1, <2>2, WriterOnce DEF OnceInv, history, Busy
  <1> QED BY <1>2, <1>3, <1>4, <1>5, <1>6, <1>7, <1>8 DEF Next

\* The only reader of an inbox, as a teammate in process is, gets no letter twice, however
\* its loop and its turns alternate and whoever writes meanwhile, unless a mark failed.
THEOREM RunnerGetsOnce == Safety => []RunnerOnce
  <1>1. IInv /\ LoneInv => RunnerOnce
    BY DEF RunnerOnce, InProcess, LoneInv, Lone, OnceInv
  <1>2. Init => LoneInv
    <2> SUFFICES ASSUME Init, NEW w \in Readers PROVE OnceInv(w)
      BY DEF LoneInv
    <2>1. step = [c \in Callers |-> "idle"] /\ Readers \subseteq Callers /\ Letters \subseteq Callers
      BY DEF Init, Callers
    <2> QED BY <2>1 DEF Init, OnceInv, Got, Busy
  <1> QED BY <1>1, <1>2, StepOnce, Invariance, PTL DEF Safety
================================================================================
