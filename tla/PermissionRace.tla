----------------------------- MODULE PermissionRace ----------------------------
(* hooks/useCanUseTool.tsx, hooks/toolPermission/ and the canUseTool of        *)
(* in-process teammates (utils/swarm/inProcessRunner.ts): the requests for     *)
(* permission that are open in one session, and everybody who may answer them. *)
(*                                                                             *)
(* The main agent's requests share the turn's abort controller; a teammate has *)
(* its own.  All dialogs wait in one queue of the REPL, of which the user sees *)
(* the head, as React last rendered it: keys that come before the next render  *)
(* go to a dialog that may be answered and gone.                               *)
(*                                                                             *)
(* An action is one callback, up to its next await.  A request always has its  *)
(* bridge and its channel if its Voices say so; requests of tmux workers,      *)
(* which go through the mailbox, are not in this module.                       *)
EXTENDS FiniteSets

CONSTANTS
  Mains,        \* requests of the main agent, all of one turn
  Teammates,    \* requests of in-process teammates, one of each
  NoOne,        \* no request
  Listens       \* Listens[r]: who is asked beside the user

Requests == Mains \cup Teammates
Helpers == {"hook", "classifier", "bridge", "channel"}
Voices == Helpers \cup {"user", "config", "abort"}
\* What may still call back: the helpers, a second look at the rules, the timer of the
\* checkmark, and the promise of an onAllow that is saving its updates.
Callbacks == Helpers \cup {"recheck", "checkmark", "save"}

ASSUME RequestsAssumption == Mains \cap Teammates = {} /\ NoOne \notin Requests
ASSUME ListensAssumption ==
  /\ Listens \in [Requests -> SUBSET Helpers]
  /\ \A t \in Teammates : Listens[t] \subseteq {"classifier"}

VARIABLES
  stage,     \* where canUseTool is: "rules", "awaited", "checks", "dialog" or "over"
  winner,    \* who has claimed the request, or "none"
  answer,    \* what its promise was resolved with, or "none"
  pending,   \* pending[r]: what may still call back
  verdict,   \* verdict[r]: what runHooks has returned and its caller not yet looked at
  saved,     \* saved[r]: the voices whose permission updates were applied and written
  touched,   \* the requests whose dialog the user has interacted with
  prompts,   \* the requests whose prompt on the web (CCR) has not been dismissed
  queued,    \* the requests in the REPL's confirm queue
  ahead,     \* ahead[r]: those in front of r in that queue
  shown,     \* the request whose dialog is on the screen, or NoOne
  stopped,   \* the turn's controller is aborted
  killed,    \* the teammates whose controller is aborted
  live       \* the REPL holds the turn's controller

claims == <<winner, answer>>
racing == <<pending, verdict, saved, touched, prompts>>
screen == <<queued, ahead, shown>>
control == <<stopped, killed, live>>
vars == <<stage, claims, racing, screen, control>>

Heads == {r \in queued : ahead[r] = {}}
Stopped(r) == IF r \in Mains THEN stopped ELSE r \in killed
Open(r) == stage[r] = "dialog" /\ winner[r] = "none"

Init ==
  /\ stage = [r \in Requests |-> "rules"]
  /\ winner = [r \in Requests |-> "none"] /\ answer = [r \in Requests |-> "none"]
  /\ pending = [r \in Requests |-> {}] /\ verdict = [r \in Requests |-> "none"]
  /\ saved = [r \in Requests |-> {}] /\ touched = {} /\ prompts = {}
  /\ queued = {} /\ ahead = [r \in Requests |-> {}] /\ shown = NoOne
  /\ stopped = FALSE /\ killed = {} /\ live = TRUE

-------------------------------------------------------------------------------
(* The queue, the claim and the abort *)

Removes(S) ==
  /\ queued' = queued \ S
  /\ ahead' = [r \in Requests |-> ahead[r] \ S]

Pushes(r) ==
  /\ queued' = queued \cup {r}
  /\ ahead' = [ahead EXCEPT ![r] = queued]

\* What is left of the callbacks when the turn's signal fires its listeners: the bridge
\* and the channel are deaf, and the dialogs that only show a checkmark are dropped.
Cut(p) ==
  [r \in Requests |-> IF r \in Mains THEN p[r] \ {"bridge", "channel", "checkmark"} ELSE p[r]]
\* Seeded bugs (the Bug* operators here and below): forms of a definition that a
\* plausible mistake in the code would give it.  No specification uses them.
BugNoCheckmark == {}
Checkmarks == {r \in Mains : "checkmark" \in pending[r]}

Claims(r, v, a) ==
  /\ winner' = [winner EXCEPT ![r] = v]
  /\ answer' = [answer EXCEPT ![r] = a]

\* A main request's callbacks become p and the dialogs in gone leave the queue; if stop,
\* abort() is called as well.
Leaves(p, gone, stop) ==
  LET fires == stop /\ ~stopped IN
  /\ stopped' = (stopped \/ stop)
  /\ pending' = IF fires THEN Cut(p) ELSE p
  /\ Removes(IF fires THEN gone \cup Checkmarks ELSE gone)
  /\ UNCHANGED killed

\* r's callbacks once it is claimed while c is called back: the channel's entry is
\* deleted.
Unsubscribed(r, c) == [pending EXCEPT ![r] = @ \ {c, "channel"}]
Spent(r, c) == [pending EXCEPT ![r] = @ \ {c}]
\* cancelRequest tells the web to take the prompt down.
Dismisses(r) == prompts' = prompts \ {r}

BugSavesForWinner(r, v, updates) ==
  saved' = IF updates THEN [saved EXCEPT ![r] = @ \cup {winner[r]}] ELSE saved
Saves(r, v, updates) == saved' = IF updates THEN [saved EXCEPT ![r] = @ \cup {v}] ELSE saved

-------------------------------------------------------------------------------
(* Before the dialog *)

Moves(r, place) == stage' = [stage EXCEPT ![r] = place]

\* resolveIfAborted, cancelAndAbort with isAbort, a teammate's own check.
GivesUp(r) ==
  /\ Claims(r, "abort", "reject") /\ Moves(r, "over")
  /\ IF r \in Mains THEN Leaves(pending, {}, TRUE) ELSE UNCHANGED <<stopped, killed, pending, queued, ahead>>
  /\ UNCHANGED <<verdict, saved, touched, prompts, shown, live>>

\* hasPermissionsToUseTool decides, or asks for more.
RulesAnswer(r) ==
  /\ stage[r] = "rules"
  /\ IF r \in Mains /\ stopped
       THEN GivesUp(r)
       ELSE /\ \E a \in {"allow", "reject"} : Claims(r, "config", a)
            /\ Moves(r, "over") /\ UNCHANGED <<racing, screen, control>>

\* ... of the user: with awaitAutomatedChecksBeforeDialog, which the main agent's context
\* may say, after all the checks.
RulesAsk(r) ==
  /\ stage[r] = "rules"
  /\ IF r \in Mains /\ stopped
       THEN GivesUp(r)
       ELSE /\ \/ Moves(r, "checks")
               \/ r \in Mains /\ Moves(r, "awaited")
            /\ UNCHANGED <<claims, racing, screen, control>>

\* An exception on the way; a check of the signal that finds it aborted does the same.
Throws(r) == r \in Mains /\ stage[r] \in {"rules", "awaited", "checks"} /\ GivesUp(r)

\* handleCoordinatorPermission awaits the hooks, then the classifier.
HookAnswersFirst(r) ==
  /\ stage[r] = "awaited" /\ "hook" \in Listens[r]
  /\ \/ /\ Claims(r, "hook", "allow")
        /\ \E updates \in BOOLEAN : Saves(r, "hook", updates)
        /\ UNCHANGED <<pending, queued, ahead, stopped, killed>>
     \/ /\ Claims(r, "hook", "reject")
        /\ \E interrupt \in BOOLEAN : Leaves(pending, {}, interrupt)
        /\ UNCHANGED saved
  /\ Moves(r, "over") /\ UNCHANGED <<verdict, touched, prompts, shown, live>>

\* The classifier is awaited before the dialog: by a coordinator, for at most two
\* seconds by the main agent, which then looks at the signal, and by a teammate.
ClassifierAnswersFirst(r) ==
  /\ stage[r] \in {"awaited", "checks"} /\ "classifier" \in Listens[r]
  /\ stage[r] = "checks" /\ r \in Mains => ~stopped
  /\ Claims(r, "classifier", "allow") /\ Moves(r, "over")
  /\ UNCHANGED <<racing, screen, control>>

BugOpensUnchecked(r) ==
  /\ stage[r] \in {"awaited", "checks"}
  /\ Moves(r, "dialog") /\ Pushes(r)
  /\ UNCHANGED <<claims, racing, shown, control>>

\* handleInteractivePermission and its counterpart: the dialog is pushed, and whoever
\* may answer is told and listened to.
Opens(r) ==
  /\ stage[r] \in {"awaited", "checks"}
  /\ IF Stopped(r)
       THEN GivesUp(r)
       ELSE /\ Moves(r, "dialog") /\ Pushes(r)
            /\ pending' = [pending EXCEPT ![r] =
                 IF r \in Teammates THEN {}
                 ELSE IF stage[r] = "awaited" THEN Listens[r] \cap {"bridge", "channel"}
                 ELSE Listens[r]]
            /\ prompts' = IF r \in Mains /\ "bridge" \in Listens[r] THEN prompts \cup {r} ELSE prompts
            /\ UNCHANGED <<claims, verdict, saved, touched, shown, control>>

-------------------------------------------------------------------------------
(* The user *)

\* React catches up with the queue, or hides the dialog while the user types.
Render ==
  /\ IF queued = {} THEN shown # NoOne /\ shown' = NoOne
     ELSE \E r \in Heads : shown # r /\ shown' = r
  /\ UNCHANGED <<stage, claims, racing, queued, ahead, control>>

Hide ==
  /\ shown # NoOne /\ shown' = NoOne
  /\ UNCHANGED <<stage, claims, racing, queued, ahead, control>>

\* onUserInteraction stops the classifier.
UserTouches(r) ==
  /\ shown = r /\ "classifier" \in pending[r]
  /\ touched' = touched \cup {r}
  /\ UNCHANGED <<stage, claims, pending, verdict, saved, prompts, screen, control>>

BugSavesBeforeClaim(r) ==
  /\ shown = r
  /\ \E updates \in BOOLEAN : Saves(r, "user", updates)
  /\ IF winner[r] # "none"
       THEN Removes(Heads) /\ UNCHANGED <<claims, pending, prompts, stopped, killed>>
       ELSE /\ Dismisses(r) /\ Claims(r, "user", "allow") /\ Removes(Heads)
            /\ UNCHANGED <<pending, stopped, killed>>
  /\ UNCHANGED <<stage, verdict, touched, shown, live>>

\* onAllow of the dialog on the screen, then onDone, which drops the head of the queue
\* whatever onAllow did.
UserAllows(r) ==
  /\ shown = r
  /\ IF winner[r] # "none"
       THEN Removes(Heads) /\ UNCHANGED <<claims, pending, saved, prompts, stopped, killed>>
       ELSE /\ \E updates \in BOOLEAN : Saves(r, "user", updates)
            /\ Dismisses(r)
            /\ IF r \in Mains
                 THEN /\ Claims(r, "user", "none")
                      /\ Leaves([Unsubscribed(r, "channel") EXCEPT ![r] = @ \cup {"save"}], Heads, FALSE)
                 ELSE /\ Claims(r, "user", "allow") /\ Removes(Heads)
                      /\ UNCHANGED <<pending, stopped, killed>>
  /\ UNCHANGED <<stage, verdict, touched, shown, live>>

BugSaveEndsUnlessStopped(r) ==
  /\ "save" \in pending[r]
  /\ pending' = Spent(r, "save")
  /\ answer' = IF stopped THEN answer ELSE [answer EXCEPT ![r] = "allow"]
  /\ UNCHANGED <<stage, winner, verdict, saved, touched, prompts, screen, control>>

\* resolveOnce after await handleUserAllow.
SaveEnds(r) ==
  /\ "save" \in pending[r]
  /\ pending' = Spent(r, "save")
  /\ answer' = [answer EXCEPT ![r] = "allow"]
  /\ UNCHANGED <<stage, winner, verdict, saved, touched, prompts, screen, control>>

\* onReject, with feedback or as an abort, then onDone.
UserRejects(r) ==
  /\ shown = r
  /\ IF winner[r] # "none"
       THEN Removes(Heads) /\ UNCHANGED <<claims, pending, prompts, stopped, killed>>
       ELSE /\ Claims(r, "user", "reject") /\ Dismisses(r)
            /\ IF r \in Mains
                 THEN \E feedback \in BOOLEAN :
                        Leaves(Unsubscribed(r, "channel"), Heads, ~feedback)
                 ELSE Removes(Heads) /\ UNCHANGED <<pending, stopped, killed>>
  /\ UNCHANGED <<stage, verdict, saved, touched, shown, live>>

\* The cancel key: handleCancel empties the queue, and onCancel calls onAbort of the
\* dialog on the screen, or aborts the turn if there is none.
CancelKey ==
  /\ live /\ ~stopped /\ live' = FALSE
  /\ IF shown # NoOne /\ winner[shown] = "none"
       THEN /\ Claims(shown, "abort", "reject") /\ Dismisses(shown)
            /\ IF shown \in Mains THEN Leaves(Unsubscribed(shown, "channel"), queued, TRUE)
               ELSE Removes(queued) /\ UNCHANGED <<pending, stopped, killed>>
       ELSE /\ Leaves(pending, queued, shown = NoOne)
            /\ UNCHANGED <<claims, prompts>>
  /\ UNCHANGED <<stage, verdict, saved, touched, shown>>

-------------------------------------------------------------------------------
(* The helpers *)

\* runHooks comes back, having saved a hook's updates or aborted the turn for it.
HookReturns(r) ==
  /\ "hook" \in pending[r]
  /\ \/ /\ UNCHANGED <<verdict, saved>> /\ Leaves(Spent(r, "hook"), {}, FALSE)
     \/ /\ verdict' = [verdict EXCEPT ![r] = "allow"]
        /\ \E updates \in BOOLEAN : Saves(r, "hook", updates)
        /\ Leaves(Spent(r, "hook"), {}, FALSE)
     \/ /\ verdict' = [verdict EXCEPT ![r] = "reject"]
        /\ \E interrupt \in BOOLEAN : Leaves(Spent(r, "hook"), {}, interrupt)
        /\ UNCHANGED saved
  /\ UNCHANGED <<stage, claims, touched, prompts, shown, live>>

HookClaims(r) ==
  /\ verdict[r] # "none" /\ verdict' = [verdict EXCEPT ![r] = "none"]
  /\ IF winner[r] # "none" THEN UNCHANGED <<claims, pending, prompts, queued, ahead, stopped, killed>>
     ELSE /\ Claims(r, "hook", verdict[r]) /\ Dismisses(r)
          /\ Leaves(Unsubscribed(r, "channel"), {r}, FALSE)
  /\ UNCHANGED <<stage, saved, touched, shown, live>>

\* A match approves unless the user has answered or touched the dialog, which stays for
\* a moment to show the checkmark.
ClassifierReturns(r) ==
  /\ "classifier" \in pending[r]
  /\ \/ pending' = Spent(r, "classifier") /\ UNCHANGED <<claims, prompts>>
     \/ /\ winner[r] = "none" /\ r \notin touched
        /\ Claims(r, "classifier", "allow") /\ Dismisses(r)
        /\ pending' = [Unsubscribed(r, "classifier") EXCEPT ![r] = @ \cup {"checkmark"}]
  /\ UNCHANGED <<stage, verdict, saved, touched, screen, control>>

\* The timer, or Esc on the checkmark.
CheckmarkEnds(r) ==
  /\ "checkmark" \in pending[r]
  /\ pending' = Spent(r, "checkmark") /\ Removes({r})
  /\ UNCHANGED <<stage, claims, verdict, saved, touched, prompts, shown, control>>

\* A control_response, possibly one that was under way when the prompt was dismissed.
\* An error is dropped, with the handler.
BridgeResponds(r) ==
  /\ "bridge" \in pending[r] /\ Dismisses(r)
  /\ \/ /\ UNCHANGED <<claims, saved>> /\ Leaves(Spent(r, "bridge"), {}, FALSE)
     \/ /\ winner[r] = "none" /\ Claims(r, "bridge", "allow")
        /\ \E updates \in BOOLEAN : Saves(r, "bridge", updates)
        /\ Leaves(Unsubscribed(r, "bridge"), {r}, FALSE)
     \/ /\ winner[r] = "none" /\ Claims(r, "bridge", "reject")
        /\ \E message \in BOOLEAN : Leaves(Unsubscribed(r, "bridge"), {r}, ~message)
        /\ UNCHANGED saved
  /\ UNCHANGED <<stage, verdict, touched, shown, live>>

\* Always with a reason, so that a denial does not abort the turn.
ChannelResponds(r) ==
  /\ "channel" \in pending[r]
  /\ IF winner[r] # "none"
       THEN pending' = Spent(r, "channel") /\ UNCHANGED <<claims, prompts, queued, ahead, stopped, killed>>
       ELSE /\ \E a \in {"allow", "reject"} : Claims(r, "channel", a)
            /\ Dismisses(r) /\ Leaves(Unsubscribed(r, "channel"), {r}, FALSE)
  /\ UNCHANGED <<stage, verdict, saved, touched, shown, live>>

\* The permission context changes: by the user, the web, or a saved update.  Every
\* dialog in the queue looks at the rules again.
ContextChanges ==
  /\ LET again == {r \in queued : winner[r] = "none" /\ "recheck" \notin pending[r]} IN
       /\ again # {}
       /\ pending' = [r \in Requests |-> IF r \in again THEN pending[r] \cup {"recheck"} ELSE pending[r]]
  /\ UNCHANGED <<stage, claims, verdict, saved, touched, prompts, screen, control>>

BugRecheckKeepsPrompt(r) ==
  /\ "recheck" \in pending[r] /\ winner[r] = "none"
  /\ Claims(r, "config", "allow") /\ Leaves(Unsubscribed(r, "recheck"), {r}, FALSE)
  /\ UNCHANGED <<stage, verdict, saved, touched, prompts, shown, live>>

BugRecheckNoClaim(r) ==
  /\ "recheck" \in pending[r]
  /\ Claims(r, "config", "allow")
  /\ Dismisses(r) /\ Leaves(Unsubscribed(r, "recheck"), {r}, FALSE)
  /\ UNCHANGED <<stage, verdict, saved, touched, shown, live>>

RecheckReturns(r) ==
  /\ "recheck" \in pending[r]
  /\ \/ pending' = Spent(r, "recheck") /\ UNCHANGED <<claims, prompts, queued, ahead, stopped, killed>>
     \/ /\ winner[r] = "none" /\ Claims(r, "config", "allow")
        /\ Dismisses(r) /\ Leaves(Unsubscribed(r, "recheck"), {r}, FALSE)
  /\ UNCHANGED <<stage, verdict, saved, touched, shown, live>>

-------------------------------------------------------------------------------
(* Aborts from outside *)

\* A remote interrupt, or a sibling tool that failed.
TurnAborts ==
  /\ ~stopped /\ Leaves(pending, {}, TRUE)
  /\ UNCHANGED <<stage, claims, verdict, saved, touched, prompts, shown, live>>

\* The teammate is killed: its listener answers an open request.
TeammateAborts(r) ==
  /\ r \in Teammates \ killed /\ killed' = killed \cup {r}
  /\ IF Open(r) THEN Claims(r, "abort", "reject") /\ Removes({r})
     ELSE UNCHANGED <<claims, queued, ahead>>
  /\ UNCHANGED <<stage, racing, shown, stopped, live>>

-------------------------------------------------------------------------------

BeforeDialog(r) ==
  \/ RulesAnswer(r) \/ RulesAsk(r) \/ Throws(r)
  \/ HookAnswersFirst(r) \/ ClassifierAnswersFirst(r) \/ Opens(r)
User(r) == UserTouches(r) \/ UserAllows(r) \/ UserRejects(r)
Helped(r) ==
  \/ HookReturns(r) \/ HookClaims(r) \/ ClassifierReturns(r) \/ CheckmarkEnds(r)
  \/ BridgeResponds(r) \/ ChannelResponds(r) \/ RecheckReturns(r)

Next ==
  \/ Render \/ Hide \/ CancelKey \/ ContextChanges \/ TurnAborts
  \/ \E r \in Requests : BeforeDialog(r) \/ User(r) \/ SaveEnds(r) \/ Helped(r) \/ TeammateAborts(r)

Safety == Init /\ [][Next]_vars

\* The code that asks runs on, React renders, timers fire; the user answers what stays
\* on the screen or comes back to it.  No helper has to answer.
Fairness ==
  /\ WF_vars(Render)
  /\ \A r \in Requests :
       /\ WF_vars(BeforeDialog(r)) /\ WF_vars(SaveEnds(r)) /\ WF_vars(HookClaims(r))
       /\ WF_vars(CheckmarkEnds(r))
       /\ SF_vars(UserAllows(r) \/ UserRejects(r))

Spec == Safety /\ Fairness

-------------------------------------------------------------------------------
(* Properties *)

TypeOK ==
  /\ stage \in [Requests -> {"rules", "awaited", "checks", "dialog", "over"}]
  /\ winner \in [Requests -> Voices \cup {"none"}]
  /\ answer \in [Requests -> {"none", "allow", "reject"}]
  /\ pending \in [Requests -> SUBSET Callbacks]
  /\ verdict \in [Requests -> {"none", "allow", "reject"}]
  /\ saved \in [Requests -> SUBSET Voices]
  /\ touched \subseteq Requests /\ prompts \subseteq Requests
  /\ queued \subseteq Requests /\ ahead \in [Requests -> SUBSET Requests]
  /\ shown \in Requests \cup {NoOne}
  /\ stopped \in BOOLEAN /\ killed \subseteq Teammates /\ live \in BOOLEAN

\* The race implements the promise of createResolveOnce: whatever helpers, keys, aborts
\* and rechecks do, and however late, one voice wins and the promise is resolved once.
\* Under the fairness of Spec a claim is followed by its answer.
Promise == INSTANCE OneAnswer
PromiseKept == Promise!Spec

\* Once a request is claimed nobody is asked about it elsewhere: every winner, a recheck
\* included, has taken down the prompt on the web and deleted the channel's entry, so
\* that a late "yes" there is an ordinary message.
RemotesDismissed ==
  \A r \in Requests : winner[r] # "none" => r \notin prompts /\ "channel" \notin pending[r]

\* An answered request leaves the queue, by its winner's removal or by the onDone of the
\* dialog that was pressed.  Only the checkmark stays, while something is pending that
\* will drop it: otherwise it would block the dialogs behind it.
DialogGone ==
  \A r \in queued : winner[r] # "none" => "checkmark" \in pending[r]

\* Permission updates that come with an answer, from the dialog or the web, are applied
\* and written only if that answer has won, and never for a rejected request.  (A hook's
\* are saved before it claims.)
SavedByWinner ==
  \A r \in Requests, v \in {"user", "bridge"} :
    v \in saved[r] => winner[r] = v /\ answer[r] # "reject"

\* A teammate that is killed while its dialog waits, shown or not, gets its answer: its
\* runner is not left in canUseTool.
KilledAnswered ==
  \A r \in killed : stage[r] = "dialog" => answer[r] # "none"

\* "the local dialog is always there as the floor" (interactiveHandler.ts:315): as long
\* as the turn runs, an open request of the main agent has its dialog in the queue.
DialogIsTheFloor ==
  \A r \in Mains : Open(r) /\ ~stopped => r \in queued

\* A request whose dialog is open is answered in the end, by the user if by nobody else,
\* unless its dialog is taken from the queue unanswered (DialogIsTheFloor).
DialogLost(r) == Open(r) /\ r \notin queued
DialogAnswered ==
  \A r \in Requests : stage[r] = "dialog" ~> answer[r] # "none" \/ DialogLost(r)
================================================================================
