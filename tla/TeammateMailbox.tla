----------------------------- MODULE TeammateMailbox ---------------------------
(* utils/teammateMailbox.ts and those who read inboxes: one inbox file of a    *)
(* swarm, the agents that write to it, and its readers: useInboxPoller.ts and  *)
(* the attachments of turns (utils/attachments.ts) in the session of a leader  *)
(* or a pane, the waiting loop of utils/swarm/inProcessRunner.ts and again     *)
(* attachments for a teammate in process.                                      *)
(*                                                                             *)
(* writeToMailbox and the mark functions read, truncate and write the file     *)
(* under its lock; nobody who only reads takes the lock, and a file that does  *)
(* not parse reads as empty.  A call that does not get the lock in ten tries   *)
(* gives up and tells nobody.  An action is one callback up to its next await. *)
EXTENDS Naturals, Sequences

CONSTANTS
  Letters,      \* one call of writeToMailbox each
  Leaders,      \* those from the team lead
  Protocol,     \* structured messages
  Shutdowns,    \* those of them that request a shutdown
  Mortal,       \* those whose sender's process may die
  Nobody,       \* no caller
  Setups        \* the kinds of inbox: for each, its readers and the roles they have

\* A poll of useInboxPoller, the attachments of a turn, the waiting loop of a runner.
Roles == {"poll", "turn", "wait"}
Readers == UNION {DOMAIN s : s \in Setups}
Callers == Letters \cup Readers

ASSUME LettersAssumption ==
  /\ Leaders \subseteq Letters /\ Protocol \subseteq Letters
  /\ Shutdowns \subseteq Protocol /\ Mortal \subseteq Letters
ASSUME SetupsAssumption == \A s \in Setups : s \in [DOMAIN s -> SUBSET Roles]
ASSUME CallersAssumption == Letters \cap Readers = {} /\ Nobody \notin Callers

VARIABLES
  roles,      \* the setup of this inbox
  file,       \* "missing", "garbled" (does not parse) or "whole"
  text,       \* what it says then: its letters in order, and those marked as read
  lock,       \* who has the lock, or Nobody
  step,       \* step[c]: where c's call is
  buffer,     \* buffer[c]: what c is about to write
  role,       \* role[r]: the role in which r is at work
  found,      \* found[r]: the letters it has found and not yet delivered
  place,      \* place[r]: the index a waiting loop has chosen
  glimpsed,   \* glimpsed[r]: what its turn has seen in AppState.inbox
  inbox,      \* the letters pending in AppState.inbox
  delivered,  \* the letters the model has got or whose handler has run
  twice,      \* those for which this has happened again
  accepted,   \* history: the letters that were written
  overtaken,  \* history: written while a reader was about to mark more than it had seen
  failed,     \* history: a reader could not mark what it had found
  spoiled     \* history: the file was left in pieces

calls == <<lock, step, buffer>>
reading == <<role, found, place, glimpsed>>
session == <<inbox, delivered, twice>>
history == <<accepted, overtaken, failed, spoiled>>
vars == <<roles, file, text, calls, reading, session, history>>

Empty == [order |-> << >>, read |-> {}]
In(t) == {t.order[i] : i \in DOMAIN t.order}
Unread(t) == In(t) \ t.read
\* readMailbox: without the lock, and empty if the file does not parse.
Content == IF file = "whole" THEN text ELSE Empty

Init ==
  /\ roles \in Setups
  /\ file \in {"missing", "whole"} /\ text = Empty
  /\ lock = Nobody
  /\ step = [c \in Callers |-> "idle"] /\ buffer = [c \in Callers |-> Empty]
  /\ role = [r \in Readers |-> "none"] /\ found = [r \in Readers |-> {}]
  /\ place = [r \in Readers |-> 0] /\ glimpsed = [r \in Readers |-> {}]
  /\ inbox = {} /\ delivered = {} /\ twice = {}
  /\ accepted = {} /\ overtaken = {} /\ failed = FALSE /\ spoiled = FALSE

Goes(c, where) == step' = [step EXCEPT ![c] = where]
\* Seeded bugs (the Bug* operators here and below): forms of a definition that a
\* plausible mistake in the code would give it.  No specification uses them.
BugDeliversAfresh(S) == delivered' = S /\ twice' = twice \cup (S \cap delivered)
Delivers(S) == delivered' = delivered \cup S /\ twice' = twice \cup (S \cap delivered)

-------------------------------------------------------------------------------
(* Writers *)

\* writeFile with flag "wx": the file is there, and empty, before "[]" is in it.
Creates(m) ==
  /\ step[m] = "idle"
  /\ IF file = "missing" THEN file' = "garbled" /\ Goes(m, "creating")
     ELSE Goes(m, "locking") /\ UNCHANGED file
  /\ UNCHANGED <<roles, text, lock, buffer, reading, session, history>>

\* "[]" is written over the beginning of whatever is in the file by now.
CreateEnds(m) ==
  /\ step[m] = "creating" /\ Goes(m, "locking") /\ text' = Empty
  /\ IF file = "whole" /\ text # Empty THEN file' = "garbled" /\ spoiled' = TRUE
     ELSE file' = "whole" /\ UNCHANGED spoiled
  /\ UNCHANGED <<roles, lock, buffer, reading, session, accepted, overtaken, failed>>

\* The sender's process dies.
Dies(m) ==
  /\ m \in Mortal /\ step[m] \notin {"idle", "over", "dead"} /\ Goes(m, "dead")
  /\ spoiled' = (spoiled \/ step[m] = "torn")
  /\ UNCHANGED <<roles, file, text, lock, buffer, reading, session, accepted, overtaken, failed>>

\* A lock that nobody refreshes is stale after ten seconds.
LockExpires ==
  /\ lock # Nobody /\ step[lock] = "dead" /\ lock' = Nobody
  /\ UNCHANGED <<roles, file, text, step, buffer, reading, session, history>>

-------------------------------------------------------------------------------
(* Readers *)

TurnRuns == \E r \in Readers : role[r] = "turn"
\* A shutdown request, else what the leader wrote, else anything unread: the first of it.
Chosen(t, i) ==
  LET urgent == Unread(t) \cap Shutdowns
      leading == Unread(t) \cap Leaders
      best == IF urgent # {} THEN urgent ELSE IF leading # {} THEN leading ELSE Unread(t)
  IN t.order[i] \in best /\ \A j \in 1..(i - 1) : t.order[j] \notin best

\* The poll of a session: whatever is unread.
Polls(r) ==
  /\ "poll" \in roles[r] /\ step[r] = "idle" /\ Unread(Content) # {}
  /\ role' = [role EXCEPT ![r] = "poll"] /\ found' = [found EXCEPT ![r] = Unread(Content)]
  /\ Goes(r, "found")
  /\ UNCHANGED <<roles, file, text, lock, buffer, place, glimpsed, session, history>>

BugQueuesNothing(r) ==
  /\ step[r] = "found"
  /\ \/ ~TurnRuns /\ Delivers(found[r])
     \/ Delivers(found[r] \cap (Protocol \ Shutdowns))
  /\ found' = [found EXCEPT ![r] = {}] /\ Goes(r, "locking")
  /\ UNCHANGED <<roles, file, text, lock, buffer, role, place, glimpsed, inbox, history>>

\* Structured messages go to their handlers, the others are submitted as a turn, or
\* queued in AppState while one runs or a dialog is open; then markRead().
Routes(r) ==
  /\ step[r] = "found"
  /\ \/ ~TurnRuns /\ Delivers(found[r]) /\ UNCHANGED inbox
     \/ /\ Delivers(found[r] \cap (Protocol \ Shutdowns))
        /\ inbox' = inbox \cup (found[r] \ (Protocol \ Shutdowns))
  /\ found' = [found EXCEPT ![r] = {}] /\ Goes(r, "locking")
  /\ UNCHANGED <<roles, file, text, lock, buffer, role, place, glimpsed, history>>

\* The session is idle: what is pending is submitted.
InboxServed ==
  /\ inbox # {} /\ ~TurnRuns
  /\ Delivers(inbox) /\ inbox' = {}
  /\ UNCHANGED <<roles, file, text, calls, reading, history>>

\* getTeammateMailboxAttachments takes AppState before it reads the file.
TurnStarts(r) ==
  /\ "turn" \in roles[r] /\ step[r] = "idle" /\ Goes(r, "started")
  /\ role' = [role EXCEPT ![r] = "turn"] /\ glimpsed' = [glimpsed EXCEPT ![r] = inbox]
  /\ UNCHANGED <<roles, file, text, lock, buffer, found, place, session, history>>

\* Nothing of r's work is left.
Rests(r) ==
  /\ Goes(r, "idle") /\ role' = [role EXCEPT ![r] = "none"] /\ found' = [found EXCEPT ![r] = {}]
  /\ place' = [place EXCEPT ![r] = 0] /\ glimpsed' = [glimpsed EXCEPT ![r] = {}]

\* ... and attaches what is plain in it, with what was pending.
Attaches(r) ==
  LET plain == Unread(Content) \ Protocol IN
  /\ step[r] = "started" /\ Delivers(plain \cup glimpsed[r])
  /\ IF plain # {} THEN Goes(r, "locking") /\ UNCHANGED <<reading, inbox>>
     ELSE Rests(r) /\ inbox' = inbox \ glimpsed[r]
  /\ UNCHANGED <<roles, file, text, lock, buffer, history>>

\* waitForNextPromptOrShutdown.
Waits(r) ==
  /\ "wait" \in roles[r] /\ step[r] = "idle" /\ Goes(r, "locking")
  /\ role' = [role EXCEPT ![r] = "wait"]
  /\ \E i \in DOMAIN Content.order :
       /\ Chosen(Content, i) /\ place' = [place EXCEPT ![r] = i]
       /\ found' = [found EXCEPT ![r] = {Content.order[i]}]
  /\ UNCHANGED <<roles, file, text, lock, buffer, glimpsed, session, history>>

\* What follows the mark, made or not: the waiting loop returns its letter, the turn
\* takes what it attached out of AppState.inbox.
Ends(r) ==
  /\ Rests(r)
  /\ CASE role[r] = "wait" -> Delivers(found[r]) /\ UNCHANGED inbox
       [] role[r] = "turn" -> inbox' = inbox \ glimpsed[r] /\ UNCHANGED <<delivered, twice>>
       [] OTHER -> UNCHANGED session

\* What r writes after it has read t under the lock: by poll markMessagesAsRead, by turn
\* markMessagesAsReadByPredicate, by wait markMessageAsReadByIndex.
BugMarksNext(r, t) ==
  CASE role[r] = "poll" -> [t EXCEPT !.read = In(t)]
    [] role[r] = "turn" -> [t EXCEPT !.read = @ \cup (In(t) \ Protocol)]
    [] role[r] = "wait" /\ place[r] + 1 \in DOMAIN t.order -> [t EXCEPT !.read = @ \cup {t.order[place[r] + 1]}]
    [] OTHER -> t
BugMarkForgotten(r, t) == IF role[r] = "wait" /\ place[r] = 1 THEN t ELSE [t EXCEPT !.read = In(t)]
Marked(r, t) ==
  CASE role[r] = "poll" -> [t EXCEPT !.read = In(t)]
    [] role[r] = "turn" -> [t EXCEPT !.read = @ \cup (In(t) \ Protocol)]
    [] role[r] = "wait" /\ place[r] \in DOMAIN t.order -> [t EXCEPT !.read = @ \cup {t.order[place[r]]}]
    [] OTHER -> t
\* markMessageAsReadByIndex writes nothing if there is nothing to mark, the others if
\* the file has no letters.
NothingToMark(r, t) == IF role[r] = "wait" THEN Marked(r, t) = t ELSE t.order = << >>

-------------------------------------------------------------------------------
(* The file, under its lock *)

BugLocksAnyway(c) ==
  /\ step[c] = "locking" /\ lock' = c /\ Goes(c, "locked")
  /\ UNCHANGED <<roles, file, text, buffer, reading, session, history>>
Locks(c) ==
  /\ step[c] = "locking" /\ lock = Nobody /\ lock' = c /\ Goes(c, "locked")
  /\ UNCHANGED <<roles, file, text, buffer, reading, session, history>>

\* Ten tries, about half a second: the error is logged and dropped.
LockFails(c) ==
  /\ step[c] = "locking" /\ lock # Nobody
  /\ IF c \in Letters
       THEN Goes(c, "over") /\ UNCHANGED <<reading, session, failed>>
       ELSE Ends(c) /\ failed' = TRUE
  /\ UNCHANGED <<roles, file, text, lock, buffer, accepted, overtaken, spoiled>>

Rereads(c) ==
  /\ step[c] = "locked"
  /\ IF c \in Letters
       THEN /\ buffer' = [buffer EXCEPT ![c] = [order |-> Append(Content.order, c), read |-> Content.read]]
            /\ Goes(c, "holding")
       ELSE IF NothingToMark(c, Content) THEN Goes(c, "written") /\ UNCHANGED buffer
       ELSE buffer' = [buffer EXCEPT ![c] = Marked(c, Content)] /\ Goes(c, "holding")
  /\ UNCHANGED <<roles, file, text, lock, reading, session, history>>

\* writeFile opens the file, which truncates it, and then writes.
Truncates(c) ==
  /\ step[c] = "holding" /\ Goes(c, "torn")
  /\ file' = "garbled" /\ text' = Empty
  /\ UNCHANGED <<roles, lock, buffer, reading, session, history>>

\* The readers that will mark whatever plain letter they find then.
Sweeping(r) == role[r] \in {"poll", "turn"} /\ step[r] \in {"found", "locking"}

Writes(c) ==
  /\ step[c] = "torn" /\ Goes(c, "written")
  /\ file' = "whole" /\ text' = buffer[c] /\ buffer' = [buffer EXCEPT ![c] = Empty]
  /\ IF c \in Letters
       THEN /\ accepted' = accepted \cup {c}
            /\ overtaken' = IF \E r \in Readers : Sweeping(r) THEN overtaken \cup {c} ELSE overtaken
       ELSE UNCHANGED <<accepted, overtaken>>
  /\ UNCHANGED <<roles, lock, reading, session, failed, spoiled>>

Releases(c) ==
  /\ step[c] = "written" /\ lock' = Nobody
  /\ IF c \in Letters THEN Goes(c, "over") /\ UNCHANGED <<reading, session>> ELSE Ends(c)
  /\ UNCHANGED <<roles, file, text, buffer, history>>

-------------------------------------------------------------------------------

Locked(c) == Locks(c) \/ LockFails(c) \/ Rereads(c) \/ Truncates(c) \/ Writes(c) \/ Releases(c)
Sends(m) == Creates(m) \/ CreateEnds(m)
Looks(r) == Polls(r) \/ Routes(r) \/ Attaches(r) \/ Waits(r)

Next ==
  \/ InboxServed \/ LockExpires
  \/ \E m \in Letters : Sends(m) \/ Dies(m)
  \/ \E r \in DOMAIN roles : Looks(r) \/ TurnStarts(r)
  \/ \E c \in Letters \cup DOMAIN roles : Locked(c)

Safety == Init /\ [][Next]_vars

\* Calls go on, timers poll, an idle session serves its inbox; a turn need not start.  A
\* teammate in process comes back from every prompt to its waiting loop.
Fairness ==
  /\ WF_vars(InboxServed) /\ WF_vars(LockExpires)
  /\ \A c \in Letters : WF_vars(Locked(c)) /\ WF_vars(CreateEnds(c))
  /\ \A r \in Readers : 
       /\ WF_vars(r \in DOMAIN roles /\ (Locked(r) \/ Looks(r)))
       /\ SF_vars(r \in DOMAIN roles /\ Waits(r))

Spec == Safety /\ Fairness

-------------------------------------------------------------------------------
(* Properties *)

Texts == [order : Seq(Letters), read : SUBSET Letters]
Steps == {"idle", "creating", "started", "found", "locking", "locked", "holding", "torn",
          "written", "over", "dead"}

TypeOK ==
  /\ roles \in Setups
  /\ file \in {"missing", "garbled", "whole"} /\ text \in Texts
  /\ lock \in Callers \cup {Nobody}
  /\ step \in [Callers -> Steps] /\ buffer \in [Callers -> Texts]
  /\ role \in [Readers -> Roles \cup {"none"}] /\ found \in [Readers -> SUBSET Letters]
  /\ place \in [Readers -> Nat] /\ glimpsed \in [Readers -> SUBSET Letters]
  /\ inbox \subseteq Letters /\ delivered \subseteq Letters /\ twice \subseteq delivered
  /\ accepted \subseteq Letters /\ overtaken \subseteq accepted
  /\ failed \in BOOLEAN /\ spoiled \in BOOLEAN

\* What the letters and their marks are once the write that is under way is done.
Settled == IF lock # Nobody /\ step[lock] = "torn" THEN buffer[lock] ELSE Content

\* No letter that was written is ever lost from the file again, however many agents
\* append and mark at the same time and whichever of their processes die: unless one
\* dies in the middle of its write or the first writer's "[]" comes late.
KeptInFile == ~spoiled => accepted \subseteq In(Settled)

\* A letter that nobody has got yet is still unread, or somebody is about to deliver
\* it.  The exception is one that was written between the look of a poll or a turn and
\* its mark, which marks it as well.
Waiting(m) == m \in Unread(Settled) \/ m \in inbox \/ \E r \in Readers : m \in found[r]
LostOnlyIfOvertaken ==
  ~spoiled => \A m \in accepted \ overtaken : m \in delivered \/ Waiting(m)

\* A teammate in process gets a letter twice only after a mark that failed: its loop
\* and its turns mark before they look again.
InProcess == \E r \in Readers : DOMAIN roles = {r} /\ "wait" \in roles[r]
RunnerOnce == InProcess /\ ~failed /\ ~spoiled => twice = {}

\* Every letter that was written is delivered, unless it was overtaken or the file was
\* left in pieces.
LetterServed ==
  \A m \in Letters : m \in accepted ~> m \in delivered \cup overtaken \/ spoiled
================================================================================
