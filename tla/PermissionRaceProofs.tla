-------------------------- MODULE PermissionRaceProofs -------------------------
(* Proofs about PermissionRace, for any requests and any helpers. *)
EXTENDS PermissionRace, TLAPS

(* The inductive invariant, request by request *)

\* Nothing has happened to a request that has not come to its dialog, or was answered
\* before.
Unopened(r) ==
  stage[r] # "dialog" =>
    /\ pending[r] = {} /\ verdict[r] = "none"
    /\ r \notin prompts /\ r \notin queued /\ r # shown
Undecided(r) ==
  stage[r] \notin {"dialog", "over"} => winner[r] = "none" /\ saved[r] = {}

\* Between the claim and the answer there is only the user's onAllow.
AnswerDue(r) ==
  /\ answer[r] # "none" => winner[r] # "none"
  /\ winner[r] # "none" /\ answer[r] = "none" => r \in Mains /\ winner[r] = "user"
  /\ "save" \in pending[r] => winner[r] = "user" /\ answer[r] = "none"

\* The dialog on the screen, if it is still in the queue, is its head.
ShownFirst(r) == shown = r /\ r \in queued => ahead[r] = {}

RemoteDismissed(r) == winner[r] # "none" => r \notin prompts /\ "channel" \notin pending[r]
Gone(r) == r \in queued /\ winner[r] # "none" => "checkmark" \in pending[r]
WinnerSaves(r) ==
  \A v \in {"user", "bridge"} : v \in saved[r] => winner[r] = v /\ answer[r] # "reject"
KilledHas(r) == r \in killed /\ stage[r] = "dialog" => answer[r] # "none"

\* A teammate's request has no racers but the rechecks, and no prompt on the web.
OnlyRechecked(r) == r \in Teammates => pending[r] \subseteq {"recheck"} /\ r \notin prompts

RaceInv(r) ==
  /\ Unopened(r) /\ Undecided(r) /\ AnswerDue(r) /\ ShownFirst(r)
  /\ RemoteDismissed(r) /\ Gone(r) /\ WinnerSaves(r) /\ KilledHas(r)
  /\ OnlyRechecked(r)
IInv == TypeOK /\ \A r \in Requests : RaceInv(r)

(* What the shared parts of the actions do *)

LEMMA LeavesDo ==
  ASSUME TypeOK, NEW p \in [Requests -> SUBSET Callbacks], NEW gone \in SUBSET Requests,
         NEW stop \in BOOLEAN, Leaves(p, gone, stop)
  PROVE  /\ stopped' \in BOOLEAN /\ pending' \in [Requests -> SUBSET Callbacks]
         /\ queued' \subseteq queued \ gone /\ ahead' \in [Requests -> SUBSET Requests]
         /\ \A q \in Requests : pending'[q] \subseteq p[q] /\ ahead'[q] \subseteq ahead[q]
         /\ \A q \in Requests :
              q \in queued' /\ "checkmark" \in p[q] /\ "checkmark" \in pending[q]
                => "checkmark" \in pending'[q]
         /\ killed' = killed
  <1> DEFINE fires == stop /\ ~stopped
             out == IF fires THEN gone \cup Checkmarks ELSE gone
  <1>1. pending' = IF fires THEN Cut(p) ELSE p
    BY DEF Leaves
  <1>2. queued' = queued \ out /\ ahead' = [r \in Requests |-> ahead[r] \ out]
    BY DEF Leaves, Removes
  <1>3. stopped' \in BOOLEAN /\ killed' = killed
    BY DEF Leaves, TypeOK
  <1>4. Cut(p) \in [Requests -> SUBSET Callbacks]
        /\ \A q \in Requests : Cut(p)[q] \subseteq p[q] /\ (q \notin Mains => Cut(p)[q] = p[q])
    BY DEF Cut
  <1>5. \A q \in Requests :
          q \in queued' /\ "checkmark" \in p[q] /\ "checkmark" \in pending[q]
            => "checkmark" \in pending'[q]
    BY <1>1, <1>2, <1>4 DEF Checkmarks, TypeOK
  <1> QED BY <1>1, <1>2, <1>3, <1>4, <1>5 DEF TypeOK

LEMMA Callback ==
  ASSUME TypeOK, NEW r \in Requests, NEW c \in Callbacks
  PROVE  /\ Spent(r, c) \in [Requests -> SUBSET Callbacks]
         /\ Unsubscribed(r, c) \in [Requests -> SUBSET Callbacks]
         /\ \A q \in Requests \ {r} : Spent(r, c)[q] = pending[q] /\ Unsubscribed(r, c)[q] = pending[q]
         /\ Spent(r, c)[r] = pending[r] \ {c}
         /\ Unsubscribed(r, c)[r] = pending[r] \ {c, "channel"}
  BY DEF TypeOK, Spent, Unsubscribed

LEMMA SpentKeeps ==
  ASSUME TypeOK, NEW r \in Requests, NEW c \in Callbacks, c # "checkmark", NEW q \in Requests
  PROVE  /\ Spent(r, c)[q] \subseteq pending[q]
         /\ "checkmark" \in pending[q] => "checkmark" \in Spent(r, c)[q]
  <1>1. CASE q = r
    BY <1>1, Callback
  <1>2. CASE q # r
    BY <1>2, Callback
  <1> QED BY <1>1, <1>2

LEMMA Start == Init => IInv
  <1> SUFFICES ASSUME Init PROVE IInv
    OBVIOUS
  <1>1. TypeOK
    BY DEF Init, TypeOK
  <1>2. ASSUME NEW r \in Requests PROVE RaceInv(r)
    BY RequestsAssumption DEF Init, RaceInv, Unopened, Undecided, AnswerDue, ShownFirst,
       RemoteDismissed, Gone, WinnerSaves, KilledHas, OnlyRechecked
  <1> QED BY <1>1, <1>2 DEF IInv

(* A step of one request, as another one sees it *)

Bystands(q) ==
  /\ stage'[q] = stage[q] /\ winner'[q] = winner[q] /\ answer'[q] = answer[q]
  /\ verdict'[q] = verdict[q] /\ saved'[q] = saved[q]
  /\ q \in prompts' => q \in prompts
  /\ q \in queued' => q \in queued
  /\ ahead'[q] \subseteq ahead[q] /\ shown' = shown
  /\ q \in killed' => q \in killed
  /\ pending'[q] \subseteq pending[q]
  /\ q \in queued' /\ "checkmark" \in pending[q] => "checkmark" \in pending'[q]

LEMMA Bystander == ASSUME IInv, NEW q \in Requests, Bystands(q) PROVE RaceInv(q)'
  BY DEF IInv, Bystands, RaceInv, Unopened, Undecided, AnswerDue, ShownFirst,
         RemoteDismissed, Gone, WinnerSaves, KilledHas, OnlyRechecked

(* Each action keeps the invariant *)

LEMMA GivesUpKeeps ==
  ASSUME IInv, NEW r \in Requests, stage[r] \in {"rules", "awaited", "checks"}, GivesUp(r)
  PROVE  IInv'
  <1>0. TypeOK /\ Unopened(r) /\ Undecided(r) /\ AnswerDue(r)
    BY DEF IInv, RaceInv
  <1>1. /\ stopped' \in BOOLEAN /\ pending' \in [Requests -> SUBSET Callbacks]
        /\ queued' \subseteq queued /\ ahead' \in [Requests -> SUBSET Requests]
        /\ \A q \in Requests : pending'[q] \subseteq pending[q] /\ ahead'[q] \subseteq ahead[q]
        /\ \A q \in Requests :
             q \in queued' /\ "checkmark" \in pending[q] => "checkmark" \in pending'[q]
        /\ killed' = killed
    <2>1. CASE r \in Mains
      BY <1>0, <2>1, LeavesDo DEF GivesUp, TypeOK
    <2>2. CASE r \notin Mains
      BY <1>0, <2>2 DEF GivesUp, TypeOK
    <2> QED BY <2>1, <2>2
  <1>2. /\ winner' = [winner EXCEPT ![r] = "abort"] /\ answer' = [answer EXCEPT ![r] = "reject"]
        /\ stage' = [stage EXCEPT ![r] = "over"]
        /\ UNCHANGED <<verdict, saved, touched, prompts, shown, live>>
    BY DEF GivesUp, Claims, Moves
  <1>3. TypeOK'
    BY <1>0, <1>1, <1>2 DEF TypeOK, Voices
  <1>4. ASSUME NEW q \in Requests PROVE RaceInv(q)'
    <2>1. CASE q # r
      BY <1>0, <1>1, <1>2, <2>1, Bystander DEF Bystands, TypeOK
    <2>2. CASE q = r
      BY <1>0, <1>1, <1>2, <2>2 DEF TypeOK, RaceInv, Unopened, Undecided, AnswerDue, ShownFirst,
         RemoteDismissed, Gone, WinnerSaves, KilledHas, OnlyRechecked
    <2> QED BY <2>1, <2>2
  <1> QED BY <1>3, <1>4 DEF IInv

LEMMA BeforeDialogKeeps ==
  ASSUME IInv, NEW r \in Requests, BeforeDialog(r)
  PROVE  IInv'
  <1>0. TypeOK /\ Unopened(r) /\ Undecided(r) /\ AnswerDue(r)
    BY DEF IInv, RaceInv
  <1>1. stage[r] \in {"rules", "awaited", "checks"}
    BY DEF BeforeDialog, RulesAnswer, RulesAsk, Throws, HookAnswersFirst, ClassifierAnswersFirst, Opens
  <1>2. ASSUME GivesUp(r) PROVE IInv'
    BY <1>1, <1>2, GivesUpKeeps
  <1>3. ASSUME NEW v \in {"config", "classifier"}, NEW a \in {"allow", "reject"},
               Claims(r, v, a), Moves(r, "over"), UNCHANGED <<racing, screen, control>>
        PROVE  IInv'
    <2>1. TypeOK'
      BY <1>0, <1>3 DEF TypeOK, Claims, Moves, racing, screen, control, Voices, Helpers
    <2>2. ASSUME NEW q \in Requests PROVE RaceInv(q)'
      <3>1. CASE q # r
        BY <1>0, <1>3, <3>1, Bystander DEF Bystands, TypeOK, Claims, Moves, racing, screen, control
      <3>2. CASE q = r
        BY <1>0, <1>1, <1>3, <3>2 DEF TypeOK, Claims, Moves, racing, screen, control, RaceInv,
           Unopened, Undecided, AnswerDue, ShownFirst, RemoteDismissed, Gone, WinnerSaves, KilledHas, OnlyRechecked
      <3> QED BY <3>1, <3>2
    <2> QED BY <2>1, <2>2 DEF IInv
  <1>4. CASE RulesAnswer(r)
    BY <1>2, <1>3, <1>4 DEF RulesAnswer
  <1>5. CASE RulesAsk(r)
    <2>1. CASE GivesUp(r)
      BY <1>2, <2>1
    <2>2. CASE ~GivesUp(r)
      <3>1. PICK place \in {"checks", "awaited"} : stage' = [stage EXCEPT ![r] = place]
        BY <1>5, <2>2 DEF RulesAsk, Moves
      <3>2. UNCHANGED <<claims, racing, screen, control>>
        BY <1>5, <2>2 DEF RulesAsk
      <3>3. TypeOK'
        BY <1>0, <3>1, <3>2 DEF TypeOK, claims, racing, screen, control
      <3>4. ASSUME NEW q \in Requests PROVE RaceInv(q)'
        BY <1>0, <1>1, <3>1, <3>2, RequestsAssumption DEF IInv, TypeOK, claims, racing, screen, control,
           RaceInv, Unopened, Undecided, AnswerDue, ShownFirst, RemoteDismissed, Gone,
           WinnerSaves, KilledHas, OnlyRechecked
      <3> QED BY <3>3, <3>4 DEF IInv
    <2> QED BY <2>1, <2>2
  <1>6. CASE Throws(r)
    BY <1>2, <1>6 DEF Throws
  <1>7. CASE HookAnswersFirst(r)
    <2>1. PICK a \in {"allow", "reject"} : Claims(r, "hook", a)
      BY <1>7 DEF HookAnswersFirst
    <2>2. /\ saved' \in [Requests -> SUBSET Voices]
          /\ \A q \in Requests \ {r} : saved'[q] = saved[q]
          /\ \A v \in saved'[r] : v \in saved[r] \/ v = "hook"
      BY <1>0, <1>7 DEF HookAnswersFirst, Saves, TypeOK, Voices, Helpers
    <2>3. /\ stopped' \in BOOLEAN /\ pending' \in [Requests -> SUBSET Callbacks]
          /\ queued' \subseteq queued /\ ahead' \in [Requests -> SUBSET Requests]
          /\ \A q \in Requests : pending'[q] \subseteq pending[q] /\ ahead'[q] \subseteq ahead[q]
          /\ \A q \in Requests :
             q \in queued' /\ "checkmark" \in pending[q] => "checkmark" \in pending'[q]
          /\ killed' = killed
      <3>1. CASE \E interrupt \in BOOLEAN : Leaves(pending, {}, interrupt)
        <4>1. PICK interrupt \in BOOLEAN : Leaves(pending, {}, interrupt)
          BY <3>1
        <4>2. pending \in [Requests -> SUBSET Callbacks] /\ {} \in SUBSET Requests
          BY <1>0 DEF TypeOK
        <4>3. CASE Leaves(pending, {}, TRUE)
          BY <1>0, <4>2, <4>3, LeavesDo
        <4>4. CASE Leaves(pending, {}, FALSE)
          BY <1>0, <4>2, <4>4, LeavesDo
        <4> QED BY <4>1, <4>3, <4>4
      <3>2. CASE UNCHANGED <<pending, queued, ahead, stopped, killed>>
        BY <1>0, <3>2 DEF TypeOK
      <3> QED BY <1>7, <3>1, <3>2 DEF HookAnswersFirst
    <2>4. stage' = [stage EXCEPT ![r] = "over"] /\ UNCHANGED <<verdict, touched, prompts, shown, live>>
      BY <1>7 DEF HookAnswersFirst, Moves
    <2>5. TypeOK'
      BY <1>0, <2>1, <2>2, <2>3, <2>4 DEF TypeOK, Claims, Voices, Helpers
    <2>6. ASSUME NEW q \in Requests PROVE RaceInv(q)'
      <3>1. CASE q # r
        BY <1>0, <2>1, <2>2, <2>3, <2>4, <3>1, Bystander DEF Bystands, TypeOK, Claims
      <3>2. CASE q = r
        <4>1. /\ winner'[r] = "hook" /\ answer'[r] = a /\ stage'[r] = "over"
              /\ pending'[r] = {} /\ verdict'[r] = "none" 
              /\ \A v \in saved'[r] : v = "hook"
              /\ r \notin prompts' /\ r \notin queued' /\ r # shown'
          <5>1. /\ pending[r] = {} /\ verdict[r] = "none" /\ saved[r] = {}
                /\ r \notin prompts /\ r \notin queued /\ r # shown
            BY <1>0, <1>1 DEF Unopened, Undecided
          <5>2. winner'[r] = "hook" /\ answer'[r] = a /\ stage'[r] = "over"
            BY <1>0, <2>1, <2>4 DEF TypeOK, Claims
          <5>3. pending'[r] = {} /\ r \notin queued'
            BY <2>3, <5>1
          <5>4. \A v \in saved'[r] : v = "hook"
            BY <2>2, <5>1
          <5> QED BY <2>4, <5>1, <5>2, <5>3, <5>4
        <4> QED BY <3>2, <4>1 DEF RaceInv, Unopened, Undecided, AnswerDue, ShownFirst,
                   RemoteDismissed, Gone, WinnerSaves, KilledHas, OnlyRechecked
      <3> QED BY <3>1, <3>2
    <2> QED BY <2>5, <2>6 DEF IInv
  <1>8. CASE ClassifierAnswersFirst(r)
    BY <1>3, <1>8 DEF ClassifierAnswersFirst
  <1>9. CASE Opens(r) /\ ~Stopped(r)
    <2>1. /\ stage' = [stage EXCEPT ![r] = "dialog"]
          /\ queued' = queued \cup {r} /\ ahead' = [ahead EXCEPT ![r] = queued]
          /\ UNCHANGED <<claims, verdict, saved, touched, shown, control>>
          /\ prompts' \in {prompts, prompts \cup {r}}
          /\ r \notin Mains => prompts' = prompts
      BY <1>9 DEF Opens, Moves, Pushes
    <2>2. /\ pending' \in [Requests -> SUBSET Callbacks]
          /\ \A q \in Requests \ {r} : pending'[q] = pending[q]
          /\ pending'[r] \subseteq Helpers /\ (r \in Teammates => pending'[r] = {})
      <3> DEFINE asked == IF r \in Teammates THEN {}
                          ELSE IF stage[r] = "awaited" THEN Listens[r] \cap {"bridge", "channel"}
                          ELSE Listens[r]
      <3>1. asked \subseteq Helpers /\ (r \in Teammates => asked = {})
        BY ListensAssumption
      <3>2. pending' = [pending EXCEPT ![r] = asked]
        BY <1>9 DEF Opens
      <3> HIDE DEF asked
      <3> QED BY <1>0, <3>1, <3>2 DEF TypeOK, Callbacks
    <2>3. r \notin killed
      BY <1>0, <1>9, RequestsAssumption DEF Stopped, TypeOK
    <2>4. TypeOK'
      BY <1>0, <2>1, <2>2 DEF TypeOK, claims, control
    <2>5. ASSUME NEW q \in Requests PROVE RaceInv(q)'
      <3>1. CASE q # r
        BY <1>0, <2>1, <2>2, <3>1, Bystander DEF Bystands, TypeOK, claims, control
      <3>2. CASE q = r
        BY <1>0, <1>1, <2>1, <2>2, <2>3, <3>2, RequestsAssumption DEF TypeOK, claims, control, RaceInv, Helpers,
           Unopened, Undecided, AnswerDue, ShownFirst, RemoteDismissed, Gone, WinnerSaves, KilledHas, OnlyRechecked
      <3> QED BY <3>1, <3>2
    <2> QED BY <2>4, <2>5 DEF IInv
  <1>10. CASE Opens(r) /\ Stopped(r)
    BY <1>2, <1>10 DEF Opens
  <1> QED BY <1>4, <1>5, <1>6, <1>7, <1>8, <1>9, <1>10 DEF BeforeDialog

\* An open request is claimed and answered at once, and leaves the queue.
Wins(r, v, a) ==
  /\ Open(r) /\ Claims(r, v, a) /\ Dismisses(r)
  /\ verdict' \in [Requests -> {"none", "allow", "reject"}]
  /\ \A q \in Requests \ {r} : verdict'[q] = verdict[q]
  /\ saved' # saved => a = "allow" /\ saved' = [saved EXCEPT ![r] = @ \cup {v}]
  /\ UNCHANGED <<stage, touched, shown>> /\ live' \in BOOLEAN

\* What Leaves and Removes do to the callbacks and the queue at such a claim.
Settles(r) ==
  /\ stopped' \in BOOLEAN /\ pending' \in [Requests -> SUBSET Callbacks]
  /\ queued' \subseteq queued /\ r \notin queued'
  /\ ahead' \in [Requests -> SUBSET Requests]
  /\ \A q \in Requests : pending'[q] \subseteq pending[q] /\ ahead'[q] \subseteq ahead[q]
  /\ \A q \in Requests \ {r} :
       q \in queued' /\ "checkmark" \in pending[q] => "checkmark" \in pending'[q]
  /\ "channel" \notin pending'[r]
  /\ killed' = killed

LEMMA WinsKeep ==
  ASSUME IInv, NEW r \in Requests, NEW v \in Voices, NEW a \in {"allow", "reject"},
         Wins(r, v, a), Settles(r)
  PROVE  IInv'
  <1>0. TypeOK /\ RaceInv(r)
    BY DEF IInv
  <1>1. saved' \in [Requests -> SUBSET Voices] /\ \A q \in Requests \ {r} : saved'[q] = saved[q]
    BY <1>0 DEF Wins, TypeOK
  <1>2. TypeOK'
    BY <1>0, <1>1 DEF TypeOK, Wins, Settles, Claims, Dismisses
  <1>3. ASSUME NEW q \in Requests \ {r} PROVE RaceInv(q)'
    <2>1. Bystands(q)
      BY <1>0, <1>1 DEF Bystands, Wins, Settles, Claims, Dismisses, TypeOK
    <2> QED BY <2>1, Bystander
  <1>4. RaceInv(r)'
    <2>1. winner'[r] = v /\ v # "none" /\ answer'[r] = a /\ stage'[r] = "dialog"
          /\ r \notin prompts' /\ r \notin queued' /\ "channel" \notin pending'[r]
      BY <1>0 DEF Wins, Settles, Claims, Dismisses, TypeOK, Voices, Helpers, Open
    <2>2. "save" \notin pending'[r]
      BY <1>0 DEF RaceInv, AnswerDue, Wins, Settles, Open
    <2>3. WinnerSaves(r)'
      <3>1. "user" \notin saved[r] /\ "bridge" \notin saved[r]
        BY <1>0 DEF RaceInv, WinnerSaves, Wins, Open
      <3>2. CASE saved' = saved
        BY <3>1, <3>2 DEF WinnerSaves
      <3>3. CASE a = "allow" /\ saved' = [saved EXCEPT ![r] = @ \cup {v}]
        <4>1. saved'[r] = saved[r] \cup {v}
          BY <1>0, <3>3 DEF TypeOK
        <4> QED BY <2>1, <3>1, <3>3, <4>1 DEF WinnerSaves
      <3> QED BY <3>2, <3>3 DEF Wins
    <2>4. OnlyRechecked(r)'
      BY <1>0, <2>1 DEF RaceInv, OnlyRechecked, Settles
    <2> QED BY <2>1, <2>2, <2>3, <2>4 DEF RaceInv, Unopened, Undecided, AnswerDue, ShownFirst,
               RemoteDismissed, Gone, KilledHas
  <1> QED BY <1>2, <1>3, <1>4 DEF IInv

LEMMA LeavesSettle ==
  ASSUME TypeOK, NEW r \in Requests, NEW c \in Callbacks, NEW gone \in SUBSET Requests,
         NEW stop \in BOOLEAN, Leaves(Unsubscribed(r, c), gone, stop),
         r \notin queued \/ r \in gone
  PROVE  Settles(r)
  <1> DEFINE p == Unsubscribed(r, c)
  <1>1. /\ p \in [Requests -> SUBSET Callbacks]
        /\ \A q \in Requests \ {r} : p[q] = pending[q]
        /\ p[r] = pending[r] \ {c, "channel"}
    BY Callback
  <1>2. Leaves(p, gone, stop)
    OBVIOUS
  <1> HIDE DEF p
  <1>3. /\ stopped' \in BOOLEAN /\ pending' \in [Requests -> SUBSET Callbacks]
        /\ queued' \subseteq queued \ gone /\ ahead' \in [Requests -> SUBSET Requests]
        /\ \A q \in Requests : pending'[q] \subseteq p[q] /\ ahead'[q] \subseteq ahead[q]
        /\ \A q \in Requests :
             q \in queued' /\ "checkmark" \in p[q] /\ "checkmark" \in pending[q]
               => "checkmark" \in pending'[q]
        /\ killed' = killed
    BY <1>1, <1>2, LeavesDo
  <1>4. \A q \in Requests : p[q] \subseteq pending[q]
    BY <1>1
  <1> QED BY <1>1, <1>3, <1>4 DEF Settles

LEMMA RemovesSettle ==
  ASSUME IInv, NEW r \in Teammates, NEW gone \in SUBSET Requests, Removes(gone),
         r \notin queued \/ r \in gone, UNCHANGED <<pending, stopped, killed>>
  PROVE  Settles(r)
  <1>1. "channel" \notin pending[r]
    BY DEF IInv, RaceInv, OnlyRechecked, Requests
  <1> QED BY <1>1 DEF IInv, TypeOK, Settles, Removes

LEMMA UserAllowsKeeps ==
  ASSUME IInv, NEW r \in Requests, UserAllows(r)
  PROVE  IInv'
  <1>0. TypeOK /\ RaceInv(r) /\ shown = r /\ r \in Mains \cup Teammates
    BY DEF IInv, UserAllows, Requests
  <1>1. Heads \in SUBSET Requests /\ (r \notin queued \/ r \in Heads) /\ stage[r] = "dialog"
    BY <1>0 DEF Heads, RaceInv, ShownFirst, Unopened, TypeOK
  <1>2. CASE winner[r] # "none"
    <2>1. /\ queued' \subseteq queued /\ ahead' \in [Requests -> SUBSET Requests]
          /\ \A q \in Requests : ahead'[q] \subseteq ahead[q]
      BY <1>0, <1>2 DEF UserAllows, Removes, TypeOK
    <2>2. UNCHANGED <<stage, claims, racing, shown, control>>
      BY <1>2 DEF UserAllows, racing, control
    <2>3. ASSUME NEW q \in Requests PROVE RaceInv(q)'
      BY <2>1, <2>2, Bystander DEF Bystands, claims, racing, control
    <2>4. TypeOK'
      BY <1>0, <2>1, <2>2 DEF TypeOK, claims, racing, control
    <2> QED BY <2>3, <2>4 DEF IInv
  <1>3. CASE winner[r] = "none" /\ r \in Teammates /\ r \notin Mains
    <2>1. Claims(r, "user", "allow") /\ Removes(Heads) /\ UNCHANGED <<pending, stopped, killed>>
      BY <1>3 DEF UserAllows
    <2>2. Settles(r)
      BY <1>1, <1>3, <2>1, RemovesSettle
    <2>3. Wins(r, "user", "allow")
      <3>1. PICK updates \in BOOLEAN : Saves(r, "user", updates)
        BY <1>3 DEF UserAllows
      <3>2. saved' = saved \/ saved' = [saved EXCEPT ![r] = @ \cup {"user"}]
        BY <3>1 DEF Saves
      <3>3. Dismisses(r) /\ UNCHANGED <<stage, verdict, touched, shown, live>>
        BY <1>3 DEF UserAllows
      <3>4. /\ verdict' \in [Requests -> {"none", "allow", "reject"}] /\ live' \in BOOLEAN
            /\ \A q \in Requests \ {r} : verdict'[q] = verdict[q]
        BY <1>0, <3>3 DEF TypeOK
      <3>5. Open(r)
        BY <1>1, <1>3 DEF Open
      <3> QED BY <2>1, <3>2, <3>3, <3>4, <3>5 DEF Wins
    <2> QED BY <2>2, <2>3, WinsKeep DEF Voices
  <1>4. CASE winner[r] = "none" /\ r \in Mains
    <2> DEFINE p == [Unsubscribed(r, "channel") EXCEPT ![r] = @ \cup {"save"}]
    <2>1. /\ p \in [Requests -> SUBSET Callbacks]
          /\ p[r] = (pending[r] \ {"channel"}) \cup {"save"}
          /\ \A q \in Requests \ {r} : p[q] = pending[q]
      BY <1>0, Callback DEF Callbacks, Helpers
    <2>2. /\ Leaves(p, Heads, FALSE) /\ Claims(r, "user", "none") /\ Dismisses(r)
          /\ UNCHANGED <<stage, verdict, touched, shown, live>>
      BY <1>4 DEF UserAllows
    <2> HIDE DEF p
    <2>3. /\ stopped' \in BOOLEAN /\ pending' \in [Requests -> SUBSET Callbacks]
          /\ queued' \subseteq queued \ Heads /\ ahead' \in [Requests -> SUBSET Requests]
          /\ \A q \in Requests : pending'[q] \subseteq p[q] /\ ahead'[q] \subseteq ahead[q]
          /\ \A q \in Requests :
               q \in queued' /\ "checkmark" \in p[q] /\ "checkmark" \in pending[q]
                 => "checkmark" \in pending'[q]
          /\ killed' = killed
      BY <1>0, <1>1, <2>1, <2>2, LeavesDo
    <2>4. /\ saved' \in [Requests -> SUBSET Voices]
          /\ \A q \in Requests \ {r} : saved'[q] = saved[q]
          /\ \A v \in saved'[r] : v \in saved[r] \/ v = "user"
      <3>1. PICK updates \in BOOLEAN : Saves(r, "user", updates)
        BY <1>4 DEF UserAllows
      <3> QED BY <1>0, <3>1 DEF Saves, TypeOK, Voices
    <2>5. TypeOK'
      BY <1>0, <2>2, <2>3, <2>4 DEF TypeOK, Claims, Dismisses, Voices
    <2>6. ASSUME NEW q \in Requests \ {r} PROVE RaceInv(q)'
      <3>1. Bystands(q)
        BY <1>0, <2>1, <2>2, <2>3, <2>4 DEF Bystands, Claims, Dismisses, TypeOK
      <3> QED BY <3>1, Bystander
    <2>7. RaceInv(r)'
      <3>1. /\ winner'[r] = "user" /\ answer'[r] = "none" /\ stage'[r] = "dialog"
            /\ r \notin prompts' /\ r \notin queued' /\ "channel" \notin pending'[r]
        BY <1>0, <1>1, <2>1, <2>2, <2>3 DEF Claims, Dismisses, TypeOK
      <3>2. WinnerSaves(r)'
        BY <1>0, <1>4, <2>4, <3>1 DEF RaceInv, WinnerSaves
      <3>3. KilledHas(r)' /\ OnlyRechecked(r)'
        BY <1>0, <1>4, <2>3, RequestsAssumption DEF KilledHas, OnlyRechecked, TypeOK
      <3> QED BY <1>4, <3>1, <3>2, <3>3 DEF RaceInv, Unopened, Undecided, AnswerDue, ShownFirst,
                 RemoteDismissed, Gone
    <2> QED BY <2>5, <2>6, <2>7 DEF IInv
  <1> QED BY <1>0, <1>2, <1>3, <1>4

LEMMA UserRejectsKeeps ==
  ASSUME IInv, NEW r \in Requests, UserRejects(r)
  PROVE  IInv'
  <1>0. TypeOK /\ RaceInv(r) /\ shown = r /\ r \in Mains \cup Teammates
    BY DEF IInv, UserRejects, Requests
  <1>1. Heads \in SUBSET Requests /\ (r \notin queued \/ r \in Heads) /\ stage[r] = "dialog"
    BY <1>0 DEF Heads, RaceInv, ShownFirst, Unopened, TypeOK
  <1>2. CASE winner[r] # "none"
    <2>1. /\ queued' \subseteq queued /\ ahead' \in [Requests -> SUBSET Requests]
          /\ \A q \in Requests : ahead'[q] \subseteq ahead[q]
      BY <1>0, <1>2 DEF UserRejects, Removes, TypeOK
    <2>2. UNCHANGED <<stage, claims, racing, shown, control>>
      BY <1>2 DEF UserRejects, racing, control
    <2>3. ASSUME NEW q \in Requests PROVE RaceInv(q)'
      BY <2>1, <2>2, Bystander DEF Bystands, claims, racing, control
    <2>4. TypeOK'
      BY <1>0, <2>1, <2>2 DEF TypeOK, claims, racing, control
    <2> QED BY <2>3, <2>4 DEF IInv
  <1>3. CASE winner[r] = "none"
    <2>1. Wins(r, "user", "reject")
      <3>1. /\ Claims(r, "user", "reject") /\ Dismisses(r)
            /\ UNCHANGED <<stage, verdict, saved, touched, shown, live>>
        BY <1>3 DEF UserRejects
      <3>2. /\ verdict' \in [Requests -> {"none", "allow", "reject"}] /\ live' \in BOOLEAN
            /\ \A q \in Requests \ {r} : verdict'[q] = verdict[q]
        BY <1>0, <3>1 DEF TypeOK
      <3>3. Open(r)
        BY <1>1, <1>3 DEF Open
      <3> QED BY <3>1, <3>2, <3>3 DEF Wins
    <2>2. Settles(r)
      <3>1. CASE r \in Mains
        <4>1. PICK feedback \in BOOLEAN : Leaves(Unsubscribed(r, "channel"), Heads, ~feedback)
          BY <1>3, <3>1 DEF UserRejects
        <4> QED BY <1>0, <1>1, <4>1, LeavesSettle DEF Callbacks, Helpers
      <3>2. CASE r \in Teammates /\ r \notin Mains
        BY <1>1, <1>3, <3>2, RemovesSettle DEF UserRejects
      <3> QED BY <1>0, <3>1, <3>2
    <2> QED BY <2>1, <2>2, WinsKeep DEF Voices
  <1> QED BY <1>2, <1>3

LEMMA CancelKeyKeeps == ASSUME IInv, CancelKey PROVE IInv'
  <1>0. TypeOK
    BY DEF IInv
  <1>1. CASE shown # NoOne /\ winner[shown] = "none"
    <2>1. shown \in Requests /\ shown \in Mains \cup Teammates /\ RaceInv(shown)
      BY <1>0, <1>1 DEF IInv, TypeOK, Requests
    <2>2. Wins(shown, "abort", "reject")
      <3>1. /\ Claims(shown, "abort", "reject") /\ Dismisses(shown) /\ live' = FALSE
            /\ UNCHANGED <<stage, verdict, saved, touched, shown>>
        BY <1>1 DEF CancelKey
      <3>2. /\ verdict' \in [Requests -> {"none", "allow", "reject"}] /\ live' \in BOOLEAN
            /\ \A q \in Requests \ {shown} : verdict'[q] = verdict[q]
        BY <1>0, <3>1 DEF TypeOK
      <3>3. Open(shown)
        BY <1>1, <2>1 DEF Open, RaceInv, Unopened
      <3> QED BY <3>1, <3>2, <3>3 DEF Wins
    <2>3. queued \in SUBSET Requests
      BY <1>0 DEF TypeOK
    <2>4. Settles(shown)
      <3>1. CASE shown \in Mains
        <4>1. Leaves(Unsubscribed(shown, "channel"), queued, TRUE)
          BY <1>1, <3>1 DEF CancelKey
        <4> QED BY <1>0, <2>1, <2>3, <4>1, LeavesSettle DEF Callbacks, Helpers
      <3>2. CASE shown \in Teammates /\ shown \notin Mains
        BY <1>1, <2>3, <3>2, RemovesSettle DEF CancelKey
      <3> QED BY <2>1, <3>1, <3>2
    <2> QED BY <2>1, <2>2, <2>4, WinsKeep DEF Voices
  <1>2. CASE ~(shown # NoOne /\ winner[shown] = "none")
    <2>1. Leaves(pending, queued, shown = NoOne) /\ (shown = NoOne) \in BOOLEAN
      BY <1>2 DEF CancelKey
    <2>2. UNCHANGED <<stage, claims, verdict, saved, touched, prompts, shown>> /\ live' = FALSE
      BY <1>2 DEF CancelKey
    <2>3. pending \in [Requests -> SUBSET Callbacks] /\ queued \in SUBSET Requests
      BY <1>0 DEF TypeOK
    <2>4. /\ stopped' \in BOOLEAN /\ pending' \in [Requests -> SUBSET Callbacks]
          /\ queued' \subseteq queued \ queued /\ ahead' \in [Requests -> SUBSET Requests]
          /\ \A q \in Requests : pending'[q] \subseteq pending[q] /\ ahead'[q] \subseteq ahead[q]
          /\ killed' = killed
      BY <1>0, <2>1, <2>3, LeavesDo
    <2>5. TypeOK'
      BY <1>0, <2>2, <2>4 DEF TypeOK, claims
    <2>6. ASSUME NEW q \in Requests PROVE RaceInv(q)'
      BY <2>2, <2>4, Bystander DEF Bystands, claims
    <2> QED BY <2>5, <2>6 DEF IInv
  <1> QED BY <1>1, <1>2

\* The steps in which the callbacks of one request shrink and nothing else is decided.
LEMMA QuietKeeps ==
  ASSUME IInv, UNCHANGED <<stage, claims, touched, prompts, shown>>,
         live' \in BOOLEAN, stopped' \in BOOLEAN, killed' = killed,
         pending' \in [Requests -> SUBSET Callbacks], queued' \subseteq queued,
         ahead' \in [Requests -> SUBSET Requests],
         \A q \in Requests : pending'[q] \subseteq pending[q] /\ ahead'[q] \subseteq ahead[q],
         \A q \in Requests :
           q \in queued' /\ "checkmark" \in pending[q] => "checkmark" \in pending'[q],
         verdict' \in [Requests -> {"none", "allow", "reject"}],
         \A q \in Requests : stage[q] # "dialog" => verdict'[q] = "none",
         saved' \in [Requests -> SUBSET Voices],
         \A q \in Requests :
           /\ saved'[q] # {} => saved[q] # {} \/ stage[q] = "dialog"
           /\ \A v \in saved'[q] : v \in saved[q] \/ v = "hook"
  PROVE  IInv'
  <1>0. TypeOK
    BY DEF IInv
  <1>1. TypeOK'
    BY <1>0 DEF TypeOK, claims
  <1>2. ASSUME NEW q \in Requests PROVE RaceInv(q)'
    <2>1. RaceInv(q)
      BY DEF IInv
    <2>2. WinnerSaves(q)'
      BY <2>1 DEF RaceInv, WinnerSaves, claims
    <2>3. Undecided(q)'
      BY <2>1 DEF RaceInv, Undecided, claims
    <2> QED BY <2>1, <2>2, <2>3 DEF RaceInv, Unopened, AnswerDue, ShownFirst,
               RemoteDismissed, Gone, KilledHas, OnlyRechecked, claims
  <1> QED BY <1>1, <1>2 DEF IInv

LEMMA HookReturnsKeeps ==
  ASSUME IInv, NEW r \in Requests, HookReturns(r)
  PROVE  IInv'
  <1>0. TypeOK /\ RaceInv(r)
    BY DEF IInv
  <1>1. stage[r] = "dialog"
    BY <1>0 DEF HookReturns, RaceInv, Unopened
  <1>2. UNCHANGED <<stage, claims, touched, prompts, shown, live>>
    BY DEF HookReturns
  <1>3. /\ Spent(r, "hook") \in [Requests -> SUBSET Callbacks]
        /\ \A q \in Requests : Spent(r, "hook")[q] \subseteq pending[q]
        /\ \A q \in Requests : "checkmark" \in pending[q] => "checkmark" \in Spent(r, "hook")[q]
    BY <1>0, Callback, SpentKeeps DEF Callbacks, Helpers
  <1>4. Leaves(Spent(r, "hook"), {}, TRUE) \/ Leaves(Spent(r, "hook"), {}, FALSE)
    <2>1. \E stop \in BOOLEAN : Leaves(Spent(r, "hook"), {}, stop)
      BY DEF HookReturns
    <2> QED BY <2>1
  <1>5. /\ stopped' \in BOOLEAN /\ pending' \in [Requests -> SUBSET Callbacks]
        /\ queued' \subseteq queued /\ ahead' \in [Requests -> SUBSET Requests]
        /\ \A q \in Requests : pending'[q] \subseteq Spent(r, "hook")[q] /\ ahead'[q] \subseteq ahead[q]
        /\ \A q \in Requests :
             q \in queued' /\ "checkmark" \in Spent(r, "hook")[q] /\ "checkmark" \in pending[q]
               => "checkmark" \in pending'[q]
        /\ killed' = killed
    <2>1. CASE Leaves(Spent(r, "hook"), {}, TRUE)
      BY <1>0, <1>3, <2>1, LeavesDo
    <2>2. CASE Leaves(Spent(r, "hook"), {}, FALSE)
      BY <1>0, <1>3, <2>2, LeavesDo
    <2> QED BY <1>4, <2>1, <2>2
  <1>6. /\ verdict' \in [Requests -> {"none", "allow", "reject"}]
        /\ \A q \in Requests \ {r} : verdict'[q] = verdict[q]
    <2>1. \/ verdict' = verdict \/ verdict' = [verdict EXCEPT ![r] = "allow"]
          \/ verdict' = [verdict EXCEPT ![r] = "reject"]
      BY DEF HookReturns
    <2> QED BY <1>0, <2>1 DEF TypeOK
  <1>7. saved' = saved \/ saved' = [saved EXCEPT ![r] = @ \cup {"hook"}]
    BY DEF HookReturns, Saves
  <1>8. /\ saved' \in [Requests -> SUBSET Voices]
        /\ \A q \in Requests \ {r} : saved'[q] = saved[q]
        /\ \A v \in saved'[r] : v \in saved[r] \/ v = "hook"
    BY <1>0, <1>7 DEF TypeOK, Voices, Helpers
  <1>9. /\ \A q \in Requests : stage[q] # "dialog" => verdict'[q] = "none"
        /\ \A q \in Requests :
             /\ saved'[q] # {} => saved[q] # {} \/ stage[q] = "dialog"
             /\ \A v \in saved'[q] : v \in saved[q] \/ v = "hook"
    BY <1>1, <1>6, <1>8 DEF IInv, RaceInv, Unopened
  <1>10. \A q \in Requests : pending'[q] \subseteq pending[q]
    BY <1>3, <1>5
  <1>11. live' \in BOOLEAN
    BY <1>0, <1>2 DEF TypeOK
  <1> QED BY <1>2, <1>3, <1>5, <1>6, <1>8, <1>9, <1>10, <1>11, QuietKeeps

LEMMA TurnAbortsKeeps == ASSUME IInv, TurnAborts PROVE IInv'
  <1>0. TypeOK /\ pending \in [Requests -> SUBSET Callbacks] /\ {} \in SUBSET Requests
    BY DEF IInv, TypeOK
  <1>1. /\ stopped' \in BOOLEAN /\ pending' \in [Requests -> SUBSET Callbacks]
        /\ queued' \subseteq queued /\ ahead' \in [Requests -> SUBSET Requests]
        /\ \A q \in Requests : pending'[q] \subseteq pending[q] /\ ahead'[q] \subseteq ahead[q]
        /\ \A q \in Requests :
             q \in queued' /\ "checkmark" \in pending[q] => "checkmark" \in pending'[q]
        /\ killed' = killed
    BY <1>0, LeavesDo DEF TurnAborts
  <1>2. UNCHANGED <<stage, claims, verdict, saved, touched, prompts, shown, live>>
    BY DEF TurnAborts
  <1>3. TypeOK'
    BY <1>0, <1>1, <1>2 DEF TypeOK, claims
  <1>4. ASSUME NEW q \in Requests PROVE RaceInv(q)'
    BY <1>1, <1>2, Bystander DEF Bystands, claims
  <1> QED BY <1>3, <1>4 DEF IInv

LEMMA HookClaimsKeeps ==
  ASSUME IInv, NEW r \in Requests, HookClaims(r)
  PROVE  IInv'
  <1>0. TypeOK /\ RaceInv(r)
    BY DEF IInv
  <1>1. /\ verdict[r] \in {"allow", "reject"} /\ stage[r] = "dialog"
        /\ verdict' = [verdict EXCEPT ![r] = "none"]
        /\ UNCHANGED <<stage, saved, touched, shown, live>>
    BY <1>0 DEF HookClaims, TypeOK, RaceInv, Unopened
  <1>2. /\ verdict' \in [Requests -> {"none", "allow", "reject"}] /\ live' \in BOOLEAN
        /\ \A q \in Requests \ {r} : verdict'[q] = verdict[q]
    BY <1>0, <1>1 DEF TypeOK
  <1>3. CASE winner[r] # "none"
    <2>1. UNCHANGED <<claims, pending, prompts, queued, ahead, stopped, killed>>
      BY <1>3 DEF HookClaims
    <2>2. \A q \in Requests : stage[q] # "dialog" => verdict'[q] = "none"
      BY <1>1, <1>2 DEF IInv, RaceInv, Unopened
    <2>3. TypeOK'
      BY <1>0, <1>1, <1>2, <2>1 DEF TypeOK, claims
    <2>4. ASSUME NEW q \in Requests PROVE RaceInv(q)'
      BY <1>1, <1>2, <2>1, <2>2 DEF IInv, RaceInv, Unopened, Undecided, AnswerDue, ShownFirst,
         RemoteDismissed, Gone, WinnerSaves, KilledHas, OnlyRechecked, claims
    <2> QED BY <2>3, <2>4 DEF IInv
  <1>4. CASE winner[r] = "none"
    <2>1. /\ Claims(r, "hook", verdict[r]) /\ Dismisses(r)
          /\ Leaves(Unsubscribed(r, "channel"), {r}, FALSE)
      BY <1>4 DEF HookClaims
    <2>2. Settles(r)
      BY <1>0, <2>1, LeavesSettle DEF Callbacks, Helpers
    <2>3. Wins(r, "hook", verdict[r])
      BY <1>1, <1>2, <1>4, <2>1 DEF Wins, Open
    <2> QED BY <1>1, <2>2, <2>3, WinsKeep DEF Voices, Helpers
  <1> QED BY <1>3, <1>4

LEMMA ClassifierReturnsKeeps ==
  ASSUME IInv, NEW r \in Requests, ClassifierReturns(r)
  PROVE  IInv'
  <1>0. TypeOK /\ RaceInv(r)
    BY DEF IInv
  <1>1. /\ UNCHANGED <<stage, verdict, saved, touched, screen, control>>
        /\ stage[r] = "dialog" /\ r \notin Teammates
    BY <1>0, RequestsAssumption DEF ClassifierReturns, RaceInv, Unopened, OnlyRechecked
  <1>2. CASE pending' = Spent(r, "classifier") /\ UNCHANGED <<claims, prompts>>
    <2>1. /\ pending' \in [Requests -> SUBSET Callbacks]
          /\ \A q \in Requests : pending'[q] \subseteq pending[q]
          /\ \A q \in Requests : "checkmark" \in pending[q] => "checkmark" \in pending'[q]
      BY <1>0, <1>2, Callback, SpentKeeps DEF Callbacks, Helpers
    <2>2. TypeOK'
      BY <1>0, <1>1, <1>2, <2>1 DEF TypeOK, claims, screen, control
    <2>3. ASSUME NEW q \in Requests PROVE RaceInv(q)'
      BY <1>1, <1>2, <2>1, Bystander DEF Bystands, claims, screen, control
    <2> QED BY <2>2, <2>3 DEF IInv
  <1>3. CASE ~(pending' = Spent(r, "classifier") /\ UNCHANGED <<claims, prompts>>)
    <2>1. /\ winner[r] = "none" /\ Claims(r, "classifier", "allow") /\ Dismisses(r)
          /\ pending' = [Unsubscribed(r, "classifier") EXCEPT ![r] = @ \cup {"checkmark"}]
      BY <1>3 DEF ClassifierReturns
    <2>2. /\ pending' \in [Requests -> SUBSET Callbacks]
          /\ \A q \in Requests \ {r} : pending'[q] = pending[q]
          /\ pending'[r] = (pending[r] \ {"classifier", "channel"}) \cup {"checkmark"}
      BY <1>0, <2>1, Callback DEF Callbacks, Helpers
    <2>3. TypeOK'
      BY <1>0, <1>1, <2>1, <2>2 DEF TypeOK, Claims, Dismisses, screen, control, Voices, Helpers
    <2>4. ASSUME NEW q \in Requests \ {r} PROVE RaceInv(q)'
      <3>1. Bystands(q)
        BY <1>0, <1>1, <2>1, <2>2 DEF Bystands, Claims, Dismisses, TypeOK, screen, control
      <3> QED BY <3>1, Bystander
    <2>5. RaceInv(r)'
      <3>1. /\ winner'[r] = "classifier" /\ answer'[r] = "allow" /\ r \notin prompts'
            /\ "channel" \notin pending'[r] /\ "checkmark" \in pending'[r]
            /\ "save" \notin pending'[r]
        BY <1>0, <2>1, <2>2 DEF Claims, Dismisses, TypeOK, RaceInv, AnswerDue
      <3>2. WinnerSaves(r)'
        BY <1>0, <1>1, <2>1 DEF RaceInv, WinnerSaves
      <3> QED BY <1>0, <1>1, <3>1, <3>2 DEF RaceInv, Unopened, Undecided, AnswerDue, ShownFirst,
                 RemoteDismissed, Gone, KilledHas, OnlyRechecked, screen, control
    <2> QED BY <2>3, <2>4, <2>5 DEF IInv
  <1> QED BY <1>2, <1>3

LEMMA CheckmarkEndsKeeps ==
  ASSUME IInv, NEW r \in Requests, CheckmarkEnds(r)
  PROVE  IInv'
  <1>0. TypeOK
    BY DEF IInv
  <1>1. /\ UNCHANGED <<stage, claims, verdict, saved, touched, prompts, shown, control>>
        /\ pending' = Spent(r, "checkmark") /\ Removes({r})
    BY DEF CheckmarkEnds
  <1>2. /\ pending' \in [Requests -> SUBSET Callbacks]
        /\ \A q \in Requests : pending'[q] \subseteq pending[q]
        /\ \A q \in Requests \ {r} : pending'[q] = pending[q]
    BY <1>0, <1>1, Callback DEF Callbacks
  <1>3. /\ queued' = queued \ {r} /\ ahead' \in [Requests -> SUBSET Requests]
        /\ \A q \in Requests : ahead'[q] \subseteq ahead[q]
    BY <1>0, <1>1 DEF Removes, TypeOK
  <1>4. TypeOK'
    BY <1>0, <1>1, <1>2, <1>3 DEF TypeOK, claims, control
  <1>5. ASSUME NEW q \in Requests PROVE RaceInv(q)'
    BY <1>1, <1>2, <1>3, Bystander DEF Bystands, claims, control
  <1> QED BY <1>4, <1>5 DEF IInv

\* A helper's callback that is spent without a claim.
LEMMA SpentQuietly ==
  ASSUME IInv, NEW r \in Requests, NEW c \in Callbacks \ {"checkmark"},
         pending' = Spent(r, c),
         UNCHANGED <<stage, claims, verdict, saved, touched, shown, queued, ahead, control>>,
         prompts' = prompts \/ prompts' = prompts \ {r}
  PROVE  IInv'
  <1>0. TypeOK
    BY DEF IInv
  <1>1. pending' \in [Requests -> SUBSET Callbacks]
    BY <1>0, Callback
  <1>2. TypeOK'
    BY <1>0, <1>1 DEF TypeOK, claims, control
  <1>3. ASSUME NEW q \in Requests PROVE RaceInv(q)'
    <2>1. Bystands(q)
      BY <1>0, SpentKeeps DEF Bystands, claims, control
    <2> QED BY <2>1, Bystander
  <1> QED BY <1>2, <1>3 DEF IInv

LEMMA BridgeRespondsKeeps ==
  ASSUME IInv, NEW r \in Requests, BridgeResponds(r)
  PROVE  IInv'
  <1>0. TypeOK /\ RaceInv(r) /\ stage[r] = "dialog"
    BY DEF IInv, BridgeResponds, RaceInv, Unopened
  <1>1. /\ UNCHANGED <<stage, verdict, touched, shown, live>> /\ Dismisses(r)
        /\ verdict \in [Requests -> {"none", "allow", "reject"}] /\ live \in BOOLEAN
    BY <1>0 DEF BridgeResponds, TypeOK
  <1>2. CASE UNCHANGED <<claims, saved>> /\ Leaves(Spent(r, "bridge"), {}, FALSE)
    <2>1. /\ Spent(r, "bridge") \in [Requests -> SUBSET Callbacks]
          /\ queued \subseteq Requests /\ ahead \in [Requests -> SUBSET Requests]
      BY <1>0, Callback DEF Callbacks, Helpers, TypeOK
    <2>2. /\ pending' = Spent(r, "bridge") /\ UNCHANGED <<queued, ahead, control>>
      <3>1. /\ stopped' = stopped /\ killed' = killed /\ pending' = Spent(r, "bridge")
            /\ queued' = queued \ {} /\ ahead' = [q \in Requests |-> ahead[q] \ {}]
        BY <1>0, <1>2 DEF Leaves, Removes, TypeOK
      <3>2. queued' = queued /\ ahead' = ahead
        BY <2>1, <3>1
      <3> QED BY <1>1, <3>1, <3>2 DEF control
    <2> QED BY <1>1, <1>2, <2>2, SpentQuietly DEF Dismisses, Callbacks, Helpers
  <1>3. CASE winner[r] = "none" /\ ~(UNCHANGED <<claims, saved>> /\ Leaves(Spent(r, "bridge"), {}, FALSE))
    <2>1. PICK a \in {"allow", "reject"}, stop \in {TRUE, FALSE} :
            /\ Claims(r, "bridge", a) /\ Leaves(Unsubscribed(r, "bridge"), {r}, stop)
            /\ saved' # saved => a = "allow" /\ saved' = [saved EXCEPT ![r] = @ \cup {"bridge"}]
      BY <1>3 DEF BridgeResponds, Saves
    <2>2. Settles(r)
      BY <1>0, <2>1, LeavesSettle DEF Callbacks, Helpers
    <2>3. Wins(r, "bridge", a)
      BY <1>0, <1>1, <1>3, <2>1 DEF Wins, Open
    <2> QED BY <2>2, <2>3, WinsKeep DEF Voices, Helpers
  <1> QED BY <1>2, <1>3 DEF BridgeResponds

LEMMA ChannelRespondsKeeps ==
  ASSUME IInv, NEW r \in Requests, ChannelResponds(r)
  PROVE  IInv'
  <1>0. TypeOK /\ RaceInv(r) /\ stage[r] = "dialog"
    BY DEF IInv, ChannelResponds, RaceInv, Unopened
  <1>1. /\ UNCHANGED <<stage, verdict, saved, touched, shown, live>>
        /\ verdict \in [Requests -> {"none", "allow", "reject"}] /\ live \in BOOLEAN
    BY <1>0 DEF ChannelResponds, TypeOK
  <1>2. CASE winner[r] # "none"
    BY <1>1, <1>2, SpentQuietly DEF ChannelResponds, Callbacks, Helpers, control
  <1>3. CASE winner[r] = "none"
    <2>1. PICK a \in {"allow", "reject"} : Claims(r, "channel", a)
      BY <1>3 DEF ChannelResponds
    <2>2. Leaves(Unsubscribed(r, "channel"), {r}, FALSE) /\ Dismisses(r)
      BY <1>3 DEF ChannelResponds
    <2>3. Settles(r)
      BY <1>0, <2>2, LeavesSettle DEF Callbacks, Helpers
    <2>4. Wins(r, "channel", a)
      BY <1>0, <1>1, <1>3, <2>1, <2>2 DEF Wins, Open
    <2> QED BY <2>3, <2>4, WinsKeep DEF Voices, Helpers
  <1> QED BY <1>2, <1>3

LEMMA RecheckReturnsKeeps ==
  ASSUME IInv, NEW r \in Requests, RecheckReturns(r)
  PROVE  IInv'
  <1>0. TypeOK /\ RaceInv(r) /\ stage[r] = "dialog"
    BY DEF IInv, RecheckReturns, RaceInv, Unopened
  <1>1. /\ UNCHANGED <<stage, verdict, saved, touched, shown, live>>
        /\ verdict \in [Requests -> {"none", "allow", "reject"}] /\ live \in BOOLEAN
    BY <1>0 DEF RecheckReturns, TypeOK
  <1>2. CASE pending' = Spent(r, "recheck")
             /\ UNCHANGED <<claims, prompts, queued, ahead, stopped, killed>>
    BY <1>1, <1>2, SpentQuietly DEF Callbacks, control
  <1>3. CASE /\ winner[r] = "none" /\ Claims(r, "config", "allow")
             /\ Dismisses(r) /\ Leaves(Unsubscribed(r, "recheck"), {r}, FALSE)
    <2>1. Settles(r)
      BY <1>0, <1>3, LeavesSettle DEF Callbacks
    <2>2. Wins(r, "config", "allow")
      BY <1>0, <1>1, <1>3 DEF Wins, Open
    <2> QED BY <2>1, <2>2, WinsKeep DEF Voices
  <1> QED BY <1>2, <1>3 DEF RecheckReturns

LEMMA SaveEndsKeeps ==
  ASSUME IInv, NEW r \in Requests, SaveEnds(r)
  PROVE  IInv'
  <1>0. TypeOK /\ RaceInv(r) /\ stage[r] = "dialog"
    BY DEF IInv, SaveEnds, RaceInv, Unopened
  <1>1. /\ UNCHANGED <<stage, winner, verdict, saved, touched, prompts, screen, control>>
        /\ pending' = Spent(r, "save") /\ answer' = [answer EXCEPT ![r] = "allow"]
    BY DEF SaveEnds
  <1>2. /\ pending' \in [Requests -> SUBSET Callbacks] /\ pending'[r] = pending[r] \ {"save"}
        /\ \A q \in Requests : pending'[q] \subseteq pending[q]
        /\ \A q \in Requests : "checkmark" \in pending[q] => "checkmark" \in pending'[q]
    BY <1>0, <1>1, Callback, SpentKeeps DEF Callbacks
  <1>3. TypeOK'
    BY <1>0, <1>1, <1>2 DEF TypeOK, screen, control
  <1>4. ASSUME NEW q \in Requests \ {r} PROVE RaceInv(q)'
    <2>1. Bystands(q)
      BY <1>0, <1>1, <1>2 DEF Bystands, TypeOK, screen, control
    <2> QED BY <2>1, Bystander
  <1>5. RaceInv(r)'
    <2>1. answer'[r] = "allow" /\ winner[r] = "user"
      BY <1>0, <1>1 DEF TypeOK, RaceInv, AnswerDue, SaveEnds
    <2>2. WinnerSaves(r)'
      BY <1>0, <1>1, <2>1 DEF RaceInv, WinnerSaves
    <2> QED BY <1>0, <1>1, <1>2, <2>1, <2>2 DEF RaceInv, Unopened, Undecided, AnswerDue, ShownFirst,
               RemoteDismissed, Gone, KilledHas, OnlyRechecked, screen, control
  <1> QED BY <1>3, <1>4, <1>5 DEF IInv

LEMMA ContextChangesKeeps == ASSUME IInv, ContextChanges PROVE IInv'
  <1>0. TypeOK
    BY DEF IInv
  <1> DEFINE again == {r \in queued : winner[r] = "none" /\ "recheck" \notin pending[r]}
  <1>1. /\ UNCHANGED <<stage, claims, verdict, saved, touched, prompts, screen, control>>
        /\ pending' = [r \in Requests |-> IF r \in again THEN pending[r] \cup {"recheck"} ELSE pending[r]]
    BY DEF ContextChanges
  <1>2. again \subseteq queued
    OBVIOUS
  <1> HIDE DEF again
  <1>3. /\ pending' \in [Requests -> SUBSET Callbacks]
        /\ \A q \in Requests : pending'[q] \subseteq pending[q] \cup {"recheck"}
        /\ \A q \in Requests : pending[q] \subseteq pending'[q]
        /\ \A q \in Requests : q \notin queued => pending'[q] = pending[q]
    BY <1>0, <1>1, <1>2 DEF TypeOK, Callbacks
  <1>4. TypeOK'
    BY <1>0, <1>1, <1>3 DEF TypeOK, claims, screen, control
  <1>5. ASSUME NEW q \in Requests PROVE RaceInv(q)'
    <2>1. RaceInv(q)
      BY DEF IInv
    <2>2. /\ pending'[q] \subseteq pending[q] \cup {"recheck"} /\ pending[q] \subseteq pending'[q]
          /\ q \notin queued => pending'[q] = pending[q]
      BY <1>3
    <2> QED BY <1>1, <2>1, <2>2 DEF RaceInv, Unopened, Undecided, AnswerDue, ShownFirst,
               RemoteDismissed, Gone, WinnerSaves, KilledHas, OnlyRechecked, claims, screen, control
  <1> QED BY <1>4, <1>5 DEF IInv

LEMMA TeammateAbortsKeeps ==
  ASSUME IInv, NEW r \in Requests, TeammateAborts(r)
  PROVE  IInv'
  <1>0. TypeOK /\ RaceInv(r) /\ r \in Teammates /\ r \notin Mains
    BY RequestsAssumption DEF IInv, TeammateAborts
  <1>1. UNCHANGED <<stage, racing, shown, stopped, live>> /\ killed' = killed \cup {r}
    BY DEF TeammateAborts
  <1>2. /\ queued' \subseteq queued /\ ahead' \in [Requests -> SUBSET Requests]
        /\ \A q \in Requests : ahead'[q] \subseteq ahead[q]
    BY <1>0 DEF TeammateAborts, Removes, TypeOK
  <1>3. /\ winner' \in [Requests -> Voices \cup {"none"}] /\ answer' \in [Requests -> {"none", "allow", "reject"}]
        /\ \A q \in Requests \ {r} : winner'[q] = winner[q] /\ answer'[q] = answer[q]
    BY <1>0 DEF TeammateAborts, Claims, claims, TypeOK, Voices
  <1>4. TypeOK'
    BY <1>0, <1>1, <1>2, <1>3 DEF TypeOK, racing
  <1>5. ASSUME NEW q \in Requests \ {r} PROVE RaceInv(q)'
    <2>1. Bystands(q)
      BY <1>1, <1>2, <1>3 DEF Bystands, racing
    <2> QED BY <2>1, Bystander
  <1>6. RaceInv(r)'
    <2>1. CASE Open(r)
      <3>1. winner'[r] = "abort" /\ answer'[r] = "reject" /\ r \notin queued'
        BY <1>0, <2>1 DEF TeammateAborts, Claims, Removes, TypeOK
      <3>2. r \notin prompts'
        BY <1>0, <1>1 DEF RaceInv, OnlyRechecked, racing
      <3> QED BY <1>0, <1>1, <2>1, <3>1, <3>2 DEF RaceInv, Open, Unopened, Undecided, AnswerDue,
                 ShownFirst, RemoteDismissed, Gone, WinnerSaves, KilledHas, OnlyRechecked, racing
    <2>2. CASE ~Open(r)
      <3>1. UNCHANGED <<claims, queued, ahead>>
        BY <2>2 DEF TeammateAborts
      <3> QED BY <1>0, <1>1, <2>2, <3>1 DEF RaceInv, Open, Unopened, Undecided, AnswerDue,
                 ShownFirst, RemoteDismissed, Gone, WinnerSaves, KilledHas, OnlyRechecked, racing, claims
    <2> QED BY <2>1, <2>2
  <1> QED BY <1>4, <1>5, <1>6 DEF IInv

LEMMA StillKeeps ==
  ASSUME IInv,
         UNCHANGED <<stage, claims, pending, verdict, saved, prompts, queued, ahead, control>>,
         touched' \in SUBSET Requests,
         shown' \in {shown, NoOne} \cup Heads
  PROVE  IInv'
  <1>0. TypeOK
    BY DEF IInv
  <1>1. shown' \in Requests \cup {NoOne}
    BY <1>0 DEF TypeOK, Heads
  <1>2. TypeOK'
    BY <1>0, <1>1 DEF TypeOK, claims, control
  <1>3. ASSUME NEW q \in Requests PROVE RaceInv(q)'
    <2>1. RaceInv(q)
      BY DEF IInv
    <2>2. q = shown' => (q = shown \/ (q \in queued /\ ahead[q] = {}))
      BY RequestsAssumption DEF Heads
    <2> QED BY <2>1, <2>2 DEF RaceInv, Unopened, Undecided, AnswerDue, ShownFirst,
               RemoteDismissed, Gone, WinnerSaves, KilledHas, OnlyRechecked, claims, control
  <1> QED BY <1>2, <1>3 DEF IInv

LEMMA ScreenKeeps ==
  ASSUME IInv, Render \/ Hide \/ (\E r \in Requests : UserTouches(r)) \/ UNCHANGED vars
  PROVE  IInv'
  <1>0. touched \in SUBSET Requests
    BY DEF IInv, TypeOK
  <1>1. CASE Render
    <2>1. shown' \in {NoOne} \cup Heads
      BY <1>1 DEF Render
    <2> QED BY <1>0, <1>1, <2>1, StillKeeps DEF Render, racing
  <1>2. CASE Hide
    BY <1>0, <1>2, StillKeeps DEF Hide, racing
  <1>3. CASE \E r \in Requests : UserTouches(r)
    <2>1. PICK r \in Requests : UserTouches(r)
      BY <1>3
    <2>2. touched' \in SUBSET Requests
      BY <1>0, <2>1 DEF UserTouches
    <2> QED BY <2>1, <2>2, StillKeeps DEF UserTouches, screen
  <1>4. CASE UNCHANGED vars
    BY <1>0, <1>4, StillKeeps DEF vars, racing, screen
  <1> QED BY <1>1, <1>2, <1>3, <1>4

LEMMA StepKeeps == IInv /\ [Next]_vars => IInv'
  <1> SUFFICES ASSUME IInv, [Next]_vars PROVE IInv'
    OBVIOUS
  <1>1. CASE Render \/ Hide \/ UNCHANGED vars
    BY <1>1, ScreenKeeps
  <1>2. CASE CancelKey
    BY <1>2, CancelKeyKeeps
  <1>3. CASE ContextChanges
    BY <1>3, ContextChangesKeeps
  <1>4. CASE TurnAborts
    BY <1>4, TurnAbortsKeeps
  <1>5. ASSUME NEW r \in Requests, BeforeDialog(r) PROVE IInv'
    BY <1>5, BeforeDialogKeeps
  <1>6. ASSUME NEW r \in Requests, User(r) PROVE IInv'
    BY <1>6, ScreenKeeps, UserAllowsKeeps, UserRejectsKeeps DEF User
  <1>7. ASSUME NEW r \in Requests, SaveEnds(r) PROVE IInv'
    BY <1>7, SaveEndsKeeps
  <1>8. ASSUME NEW r \in Requests, Helped(r) PROVE IInv'
    BY <1>8, HookReturnsKeeps, HookClaimsKeeps, ClassifierReturnsKeeps, CheckmarkEndsKeeps,
       BridgeRespondsKeeps, ChannelRespondsKeeps, RecheckReturnsKeeps DEF Helped
  <1>9. ASSUME NEW r \in Requests, TeammateAborts(r) PROVE IInv'
    BY <1>9, TeammateAbortsKeeps
  <1> QED BY <1>1, <1>2, <1>3, <1>4, <1>5, <1>6, <1>7, <1>8, <1>9 DEF Next

LEMMA Invariance == Safety => []IInv
  <1>1. Init => IInv
    BY Start
  <1>2. IInv /\ [Next]_vars => IInv'
    BY StepKeeps
  <1> QED BY <1>1, <1>2, PTL DEF Safety

(* The theorems *)

\* canUseTool's state keeps its types: stages, voices and answers are the ones the code
\* has, whatever is called back.
THEOREM TypeCorrect == Safety => []TypeOK
  <1>1. IInv => TypeOK
    BY DEF IInv
  <1> QED BY <1>1, Invariance, PTL

\* Whoever wins, the web and the channel are told: no prompt is left behind for a
\* request that has been claimed (interactiveHandler's claims each dismiss both).
THEOREM NoRemoteLeft == Safety => []RemotesDismissed
  <1>1. IInv => RemotesDismissed
    BY DEF IInv, RaceInv, RemoteDismissed, RemotesDismissed
  <1> QED BY <1>1, Invariance, PTL

\* A claimed request has left the confirm queue, but for the checkmark on its way out.
THEOREM AnsweredDialogGone == Safety => []DialogGone
  <1>1. IInv => DialogGone
    BY DEF IInv, TypeOK, RaceInv, Gone, DialogGone
  <1> QED BY <1>1, Invariance, PTL

\* Only the updates of the answer that won, an allow, are saved: claim() comes before
\* handleUserAllow and persistPermissions.
THEOREM OnlyWinnerSaves == Safety => []SavedByWinner
  <1>1. IInv => SavedByWinner
    BY DEF IInv, RaceInv, WinnerSaves, SavedByWinner
  <1> QED BY <1>1, Invariance, PTL

\* A killed teammate's request has its answer in the step of the kill, or had it.
THEOREM KilledTeammateAnswered == Safety => []KilledAnswered
  <1>1. IInv => KilledAnswered
    BY DEF IInv, TypeOK, RaceInv, KilledHas, KilledAnswered, Requests
  <1> QED BY <1>1, Invariance, PTL

(* Every step is one of the promise's, or leaves it alone *)

\* A request that nobody has claimed is claimed, and answered as its winner can.
Decided(r) ==
  /\ winner[r] = "none"
  /\ \E v \in Voices : \E a \in Promise!Says(v) : Claims(r, v, a)

LEMMA DecidedIsDecides ==
  ASSUME NEW r \in Requests, Decided(r)
  PROVE  Promise!Next
  <1>1. PICK v \in Voices : \E a \in Promise!Says(v) : Claims(r, v, a)
    BY DEF Decided
  <1>2. Promise!Decides(r, v)
    BY <1>1 DEF Decided, Claims, Promise!Decides
  <1> QED BY <1>2 DEF Promise!Next

LEMMA Sayings ==
  /\ Voices = {"hook", "classifier", "bridge", "channel", "user", "config", "abort"}
  /\ \A v \in Voices \ {"classifier", "abort"} : Promise!Says(v) = {"allow", "reject"}
  /\ Promise!Says("classifier") = {"allow"} /\ Promise!Says("abort") = {"reject"}
  BY DEF Voices, Helpers, Promise!Says

LEMMA BeforeDialogDecides ==
  ASSUME IInv, NEW r \in Requests, BeforeDialog(r)
  PROVE  Decided(r) \/ UNCHANGED claims
  <1>1. stage[r] \in {"rules", "awaited", "checks"}
    BY DEF BeforeDialog, RulesAnswer, RulesAsk, Throws, HookAnswersFirst, ClassifierAnswersFirst, Opens
  <1>2. winner[r] = "none"
    BY <1>1 DEF IInv, RaceInv, Undecided
  <1>3. GivesUp(r) => Decided(r)
    BY <1>2, Sayings DEF GivesUp, Decided
  <1>4. RulesAnswer(r) => Decided(r)
    BY <1>2, <1>3, Sayings DEF RulesAnswer, Decided
  <1>5. RulesAsk(r) => Decided(r) \/ UNCHANGED claims
    BY <1>3 DEF RulesAsk
  <1>6. Throws(r) => Decided(r)
    BY <1>3 DEF Throws
  <1>7. HookAnswersFirst(r) => Decided(r)
    BY <1>2, Sayings DEF HookAnswersFirst, Decided
  <1>8. ClassifierAnswersFirst(r) => Decided(r)
    BY <1>2, Sayings DEF ClassifierAnswersFirst, Decided
  <1>9. Opens(r) => Decided(r) \/ UNCHANGED claims
    BY <1>3 DEF Opens
  <1> QED BY <1>4, <1>5, <1>6, <1>7, <1>8, <1>9 DEF BeforeDialog

\* onAllow claims a main request before its updates are written, and answers a
\* teammate's at once.
LEMMA UserDecides ==
  ASSUME IInv, NEW r \in Requests, User(r)
  PROVE  Decided(r) \/ Promise!Claims(r, "user") \/ UNCHANGED claims
  <1>1. UserTouches(r) => UNCHANGED claims
    BY DEF UserTouches
  <1>2. UserAllows(r) => Decided(r) \/ Promise!Claims(r, "user") \/ UNCHANGED claims
    <2> SUFFICES ASSUME UserAllows(r) PROVE Decided(r) \/ Promise!Claims(r, "user") \/ UNCHANGED claims
      OBVIOUS
    <2>1. CASE winner[r] # "none"
      BY <2>1 DEF UserAllows
    <2>2. CASE winner[r] = "none" /\ r \in Mains
      <3>1. Claims(r, "user", "none")
        BY <2>2 DEF UserAllows
      <3>2. answer[r] = "none" /\ answer \in [Requests -> {"none", "allow", "reject"}]
        BY <2>2 DEF IInv, TypeOK, RaceInv, AnswerDue
      <3>3. answer' = answer
        BY <3>1, <3>2 DEF Claims
      <3> QED BY <2>2, <3>1, <3>3 DEF Claims, Promise!Claims
    <2>3. CASE winner[r] = "none" /\ r \notin Mains
      BY <2>3, Sayings DEF UserAllows, Decided
    <2> QED BY <2>1, <2>2, <2>3
  <1>3. UserRejects(r) => Decided(r) \/ UNCHANGED claims
    BY Sayings DEF UserRejects, Decided
  <1> QED BY <1>1, <1>2, <1>3 DEF User

LEMMA HelpedDecides ==
  ASSUME IInv, NEW r \in Requests, Helped(r)
  PROVE  Decided(r) \/ UNCHANGED claims
  <1>1. HookReturns(r) \/ CheckmarkEnds(r) => UNCHANGED claims
    BY DEF HookReturns, CheckmarkEnds
  <1>2. HookClaims(r) => Decided(r) \/ UNCHANGED claims
    <2>1. verdict[r] \in {"none", "allow", "reject"}
      BY DEF IInv, TypeOK
    <2> QED BY <2>1, Sayings DEF HookClaims, Decided
  <1>3. ClassifierReturns(r) => Decided(r) \/ UNCHANGED claims
    BY Sayings DEF ClassifierReturns, Decided
  <1>4. BridgeResponds(r) => Decided(r) \/ UNCHANGED claims
    BY Sayings DEF BridgeResponds, Decided
  <1>5. ChannelResponds(r) => Decided(r) \/ UNCHANGED claims
    BY Sayings DEF ChannelResponds, Decided
  <1>6. RecheckReturns(r) => Decided(r) \/ UNCHANGED claims
    BY Sayings DEF RecheckReturns, Decided
  <1> QED BY <1>1, <1>2, <1>3, <1>4, <1>5, <1>6 DEF Helped

LEMMA SaveDelivers ==
  ASSUME IInv, NEW r \in Requests, SaveEnds(r)
  PROVE  Promise!Delivers(r)
  <1>1. winner[r] = "user" /\ answer[r] = "none"
    BY DEF IInv, RaceInv, AnswerDue, SaveEnds
  <1> QED BY <1>1, Sayings DEF SaveEnds, Promise!Delivers

LEMMA StepImplements == IInv /\ [Next]_vars => [Promise!Next]_(Promise!vars)
  <1> SUFFICES ASSUME IInv, [Next]_vars PROVE Promise!Next \/ UNCHANGED claims
    BY DEF claims, Promise!vars
  <1>1. CASE Render \/ Hide \/ ContextChanges \/ TurnAborts \/ UNCHANGED vars
    BY <1>1 DEF Render, Hide, ContextChanges, TurnAborts, vars
  <1>2. CASE CancelKey
    <2>1. CASE shown # NoOne /\ winner[shown] = "none"
      <3>1. Claims(shown, "abort", "reject") /\ shown \in Requests
        BY <1>2, <2>1 DEF CancelKey, IInv, TypeOK
      <3>2. Decided(shown)
        BY <2>1, <3>1, Sayings DEF Decided
      <3> QED BY <3>1, <3>2, DecidedIsDecides
    <2>2. CASE ~(shown # NoOne /\ winner[shown] = "none")
      BY <1>2, <2>2 DEF CancelKey
    <2> QED BY <2>1, <2>2
  <1>3. ASSUME NEW r \in Requests, BeforeDialog(r) PROVE Promise!Next \/ UNCHANGED claims
    BY <1>3, BeforeDialogDecides, DecidedIsDecides
  <1>4. ASSUME NEW r \in Requests, User(r) PROVE Promise!Next \/ UNCHANGED claims
    <2>1. Promise!Claims(r, "user") => Promise!Next
      BY Sayings DEF Promise!Next
    <2> QED BY <1>4, <2>1, UserDecides, DecidedIsDecides
  <1>5. ASSUME NEW r \in Requests, SaveEnds(r) PROVE Promise!Next \/ UNCHANGED claims
    BY <1>5, SaveDelivers DEF Promise!Next
  <1>6. ASSUME NEW r \in Requests, Helped(r) PROVE Promise!Next \/ UNCHANGED claims
    BY <1>6, HelpedDecides, DecidedIsDecides
  <1>7. ASSUME NEW r \in Requests, TeammateAborts(r) PROVE Promise!Next \/ UNCHANGED claims
    <2>1. Open(r) => Decided(r)
      BY <1>7, Sayings DEF TeammateAborts, Open, Decided
    <2>2. ~Open(r) => UNCHANGED claims
      BY <1>7 DEF TeammateAborts
    <2> QED BY <2>1, <2>2, DecidedIsDecides
  <1> QED BY <1>1, <1>2, <1>3, <1>4, <1>5, <1>6, <1>7 DEF Next

\* The race implements createResolveOnce's promise: for any number of requests and any
\* helpers, exactly one voice wins each request and its caller gets one answer.  (That
\* the answer comes is checked by TLC, under fairness.)
THEOREM AnsweredOnce == Safety => Promise!Safety
  <1>1. Init => Promise!Init
    BY DEF Init, Promise!Init
  <1>2. IInv /\ [Next]_vars => [Promise!Next]_(Promise!vars)
    BY StepImplements
  <1> QED BY <1>1, <1>2, Invariance, PTL DEF Safety, Promise!Safety
================================================================================
