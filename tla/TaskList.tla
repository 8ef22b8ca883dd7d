-------------------------------- MODULE TaskList -------------------------------
(* utils/tasks.ts: the task list that the agents of a swarm share through the  *)
(* file system, one JSON file per task beside a high water mark, with one lock *)
(* for the list and one for each task.                                         *)
(*                                                                             *)
(* An agent does one job at a time.  An action is one access to the disk: the  *)
(* code awaits each, and other agents, most of them other processes, come in   *)
(* between.  writeFile truncates and then writes: a reader in between gets no  *)
(* task, and 0 for the mark.  A crashed agent leaves a half-written file as it *)
(* is; its locks go stale and are taken over.                                  *)
EXTENDS Naturals, FiniteSets

CONSTANTS
  Agents,      \* agents that may own tasks, and the sessions they run in
  None,        \* no agent
  Jobs,        \* the calls that are made
  MaxId,       \* bound: task ids
  MaxJobs,     \* bound: jobs of one agent
  MayCrash,    \* whether agents crash
  Tasks0,      \* tasks 1..Tasks0 exist at the start,
  Edges0       \* <<a, b>> of them such that a blocks b

Ids == 1..MaxId
Statuses == {"pending", "in_progress", "completed"}
Task == [owner : Agents \cup {None}, status : Statuses,
         blocks : SUBSET Ids, blockedBy : SUBSET Ids]
Fresh == [owner |-> None, status |-> "pending", blocks |-> {}, blockedBy |-> {}]

\* The partial records handed to updateTask.
Updates ==
  [owner : Agents \cup {None}] \cup [status : Statuses]
    \cup [owner : Agents \cup {None}, status : Statuses]
    \cup [blocks : SUBSET Ids] \cup [blockedBy : SUBSET Ids]
    \cup [blocks : SUBSET Ids, blockedBy : SUBSET Ids]

\* What a runner does with the task it has claimed: begin it, or give it up.
Follows == [status : {"in_progress"}] \cup [owner : {None}]

\* What an agent calls: "create", "reset" (a new team), "hide" (the completed list is
\* cleared), "delete", "claim" with the update that follows it, "update", "block",
\* "unassign" of a teammate who has left.
JobType ==
  [kind : {"create", "reset", "hide"}] \cup [kind : {"delete"}, id : Ids]
    \cup [kind : {"claim"}, id : Ids, follow : SUBSET Follows]
    \cup [kind : {"update"}, id : Ids, set : [status : Statuses] \cup [owner : Agents]]
    \cup [kind : {"block"}, id : Ids, to : Ids] \cup [kind : {"unassign"}, who : Agents]

ASSUME AgentsAssumption == None \notin Agents
ASSUME JobsAssumption == Jobs \subseteq JobType
ASSUME BoundsAssumption ==
  /\ MaxId \in Nat /\ MaxJobs \in Nat /\ MayCrash \in BOOLEAN
  /\ Tasks0 \in 0..MaxId /\ Edges0 \subseteq (1..Tasks0) \X (1..Tasks0)

VARIABLES
  file,       \* file[t]: "absent", "whole", or "torn" by a write that is not over
  data,       \* data[t]: the task that was last written to the file whole
  mark,       \* the number last written to .highwatermark
  markWhole,  \* the mark's file is not in the middle of a write
  listLock,   \* the agent that holds the lock of the list, or None
  taskLock,   \* taskLock[t]: the agent that holds the lock of t's file, or None
  at,         \* where each agent is in its job
  jobsLeft,   \* how many more jobs each agent takes
  assigned    \* the ids createTask has given out

files == <<file, data>>
markFile == <<mark, markWhole>>
vars == <<files, markFile, listLock, taskLock, at, jobsLeft, assigned>>

Present == {t \in Ids : file[t] # "absent"}
IsHighest(h) == IF Present = {} THEN h = 0 ELSE h \in Present /\ \A t \in Present : t <= h
Resting ==
  [pc |-> "rest", job |-> [kind |-> "none"], id |-> 0, upd |-> << >>, base |-> Fresh,
   left |-> {}, seen |-> {}, todo |-> {}, high |-> 0]

TaskLocked == {"judge", "read", "reread", "truncate", "write"}
ListLocked == {"highest", "dir", "mark", "born", "fill", "raise", "raised", "unlink", "unlinking"}
Places == {"rest", "check", "lock", "readdir", "list lock"} \cup TaskLocked \cup ListLocked

Starting(j) == [Resting EXCEPT !.job = j]
Kind(p) == at[p].job.kind
At(p, place) == at[p].pc = place

Init ==
  /\ file = [t \in Ids |-> IF t <= Tasks0 THEN "whole" ELSE "absent"]
  /\ data = [t \in Ids |-> [Fresh EXCEPT !.blocks = {u \in Ids : <<t, u>> \in Edges0},
                                         !.blockedBy = {u \in Ids : <<u, t>> \in Edges0}]]
  /\ mark = 0 /\ markWhole = TRUE
  /\ listLock = None /\ taskLock = [t \in Ids |-> None]
  /\ at = [p \in Agents |-> Resting] /\ jobsLeft = [p \in Agents |-> MaxJobs]
  /\ assigned = 1..Tasks0

-------------------------------------------------------------------------------
(* Moves within a job *)

Moves(p, place) == at' = [at EXCEPT ![p].pc = place]
Rests(p) == at' = [at EXCEPT ![p] = Resting]
Larger(m, n) == IF m > n THEN m ELSE n

\* updateTask of one of the remaining updates T, or the return of the job.  blockTask
\* writes the blocking task first; the others go in the order of the directory.
Proceeds(p, T) ==
  \/ T = {} /\ Rests(p)
  \/ \E e \in T :
       /\ Kind(p) = "block" /\ "blocks" \notin DOMAIN e[2] => T = {e}
       /\ at' = [at EXCEPT ![p] = [@ EXCEPT !.pc = "check", !.id = e[1], !.upd = e[2],
                                            !.left = {}, !.seen = {}, !.todo = T \ {e}]]

Locks(p) == taskLock' = [taskLock EXCEPT ![at[p].id] = p]
Releases(p) == taskLock' = [taskLock EXCEPT ![at[p].id] = None]
\* Seeded bugs (the Bug* operators here and below): forms of a definition that a
\* plausible mistake in the code would give it.  No specification uses them.
BugUpdatesOnly(r, upd) == upd

Content(r, upd) == [f \in DOMAIN r |-> IF f \in DOMAIN upd THEN upd[f] ELSE r[f]]

\* The claim itself, as against the update that follows it.
Claiming(p) == Kind(p) = "claim" /\ at[p].upd = [owner |-> p]

Begins(p, j) ==
  /\ At(p, "rest") /\ jobsLeft[p] > 0
  /\ jobsLeft' = [jobsLeft EXCEPT ![p] = @ - 1]
  /\ LET starts(r) == at' = [at EXCEPT ![p] = r] IN
       \/ j.kind \in {"create", "reset"} /\ starts([Starting(j) EXCEPT !.pc = "list lock"])
       \/ j.kind \in {"hide", "unassign"} /\ starts([Starting(j) EXCEPT !.pc = "readdir"])
       \/ j.kind = "delete" /\ file[j.id] = "whole"
          /\ starts([Starting(j) EXCEPT !.pc = "mark", !.high = j.id])
       \/ j.kind = "update" /\ starts([Starting(j) EXCEPT !.pc = "read", !.left = {j.id}])
       \/ j.kind = "block" /\ starts([Starting(j) EXCEPT !.pc = "read", !.left = {j.id, j.to}])
       \/ j.kind = "claim" /\ starts([Starting(j) EXCEPT !.pc = "check", !.id = j.id,
                                          !.upd = [owner |-> p], !.todo = {j.id} \X j.follow])
  /\ UNCHANGED <<files, markFile, listLock, taskLock, assigned>>

-------------------------------------------------------------------------------
(* updateTask *)

\* getTask before the lock; a claim without a task ends, an update is passed over.
Checks(p) ==
  /\ At(p, "check")
  /\ IF file[at[p].id] = "whole" THEN Moves(p, "lock")
     ELSE IF Claiming(p) THEN Rests(p) ELSE Proceeds(p, at[p].todo)
  /\ UNCHANGED <<files, markFile, listLock, taskLock, jobsLeft, assigned>>

BugEntersHeldLock(p) ==
  /\ At(p, "lock")
  /\ Locks(p)
  /\ Moves(p, IF Claiming(p) THEN "judge" ELSE "reread")
  /\ UNCHANGED <<files, markFile, listLock, jobsLeft, assigned>>

TakesTaskLock(p) ==
  /\ At(p, "lock") /\ taskLock[at[p].id] = None
  /\ Locks(p)
  /\ Moves(p, IF Claiming(p) THEN "judge" ELSE "reread")
  /\ UNCHANGED <<files, markFile, listLock, jobsLeft, assigned>>

\* lock() throws: the file is gone, or 30 retries were not enough.  The job fails.
LockFails(p) ==
  /\ \/ At(p, "lock") /\ (file[at[p].id] = "absent" \/ taskLock[at[p].id] # None)
     \/ At(p, "list lock") /\ listLock # None
  /\ Rests(p)
  /\ UNCHANGED <<files, markFile, listLock, taskLock, jobsLeft, assigned>>

BugReturnKeepsLock(p) ==
  /\ At(p, "reread")
  /\ IF file[at[p].id] = "whole"
     THEN at' = [at EXCEPT ![p].pc = "truncate", ![p].base = data[at[p].id]]
     ELSE Proceeds(p, at[p].todo)
  /\ UNCHANGED <<files, markFile, listLock, taskLock, jobsLeft, assigned>>

\* updateTaskUnsafe.  A claim whose file is gone by now still succeeds.
Rereads(p) ==
  /\ At(p, "reread")
  /\ IF file[at[p].id] = "whole"
     THEN /\ at' = [at EXCEPT ![p].pc = "truncate", ![p].base = data[at[p].id]]
          /\ UNCHANGED taskLock
     ELSE Releases(p) /\ Proceeds(p, at[p].todo)
  /\ UNCHANGED <<files, markFile, listLock, jobsLeft, assigned>>

\* writeFile makes a file that is gone again.
Truncates(p) ==
  /\ At(p, "truncate")
  /\ file' = [file EXCEPT ![at[p].id] = "torn"]
  /\ Moves(p, "write")
  /\ UNCHANGED <<data, markFile, listLock, taskLock, jobsLeft, assigned>>

\* The content of a file that was unlinked meanwhile is lost with it.
Puts(p, r) ==
  IF file[at[p].id] = "absent" THEN UNCHANGED files
  ELSE /\ file' = [file EXCEPT ![at[p].id] = "whole"]
       /\ data' = [data EXCEPT ![at[p].id] = r]

Writes(p) ==
  /\ At(p, "write")
  /\ Puts(p, Content(at[p].base, at[p].upd))
  /\ Releases(p) /\ Proceeds(p, at[p].todo)
  /\ UNCHANGED <<markFile, listLock, jobsLeft, assigned>>

-------------------------------------------------------------------------------
(* Reading tasks: claimTask, and the reads a job makes before its updates *)

BugJudgesStatusOnly(p) ==
  /\ At(p, "judge")
  /\ LET t == at[p].id IN
       IF file[t] = "whole" /\ data[t].status # "completed"
       THEN /\ at' = [at EXCEPT ![p].pc = "read", ![p].left = data[t].blockedBy \cap Present]
            /\ UNCHANGED taskLock
       ELSE Releases(p) /\ Rests(p)
  /\ UNCHANGED <<files, markFile, listLock, jobsLeft, assigned>>

\* claimTask with the lock: its task, then listTasks, of which only blockers matter.
Judges(p) ==
  /\ At(p, "judge")
  /\ LET t == at[p].id IN
       IF /\ file[t] = "whole" /\ data[t].owner \in {None, p}
          /\ data[t].status # "completed"
       THEN /\ at' = [at EXCEPT ![p].pc = "read", ![p].left = data[t].blockedBy \cap Present]
            /\ UNCHANGED taskLock
       ELSE Releases(p) /\ Rests(p)
  /\ UNCHANGED <<files, markFile, listLock, jobsLeft, assigned>>

ReadsDirectory(p) ==
  /\ At(p, "readdir")
  /\ at' = [at EXCEPT ![p].pc = "read", ![p].left = Present]
  /\ UNCHANGED <<files, markFile, listLock, taskLock, jobsLeft, assigned>>

\* getTask of one of several files read at the same time.
Reads(p, t) ==
  /\ At(p, "read") /\ t \in at[p].left
  /\ at' = [at EXCEPT ![p].left = @ \ {t},
                      ![p].seen = @ \cup (IF file[t] = "whole" THEN {<<t, data[t]>>} ELSE {})]
  /\ UNCHANGED <<files, markFile, listLock, taskLock, jobsLeft, assigned>>

ClaimJudgesBlockers(p) ==
  /\ At(p, "read") /\ at[p].left = {} /\ Claiming(p)
  /\ IF \E s \in at[p].seen : s[2].status # "completed"
     THEN Releases(p) /\ Rests(p)
     ELSE Moves(p, "reread") /\ UNCHANGED taskLock
  /\ UNCHANGED <<files, markFile, listLock, jobsLeft, assigned>>

\* TaskUpdate's changes to the task r it read: p takes an unowned task that it begins.
ToolUpdates(p, set, r) ==
  LET begins == "status" \in DOMAIN set /\ set.status = "in_progress" /\ r.owner = None
      differs == \E f \in DOMAIN set : set[f] # r[f]
  IN IF begins /\ differs THEN {[owner |-> p, status |-> "in_progress"]}
     ELSE IF begins THEN {[owner |-> p]} ELSE IF differs THEN {set} ELSE {}

\* The updates a job makes after its reads, each computed from what was seen then.
UpdateWants(p, j, seen) == UNION {{s[1]} \X ToolUpdates(p, j.set, s[2]) : s \in seen}

BlockWants(j, seen) ==
  IF {s[1] : s \in seen} # {j.id, j.to} THEN {}
  ELSE {<<j.id, [blocks |-> s[2].blocks \cup {j.to}]>> :
          s \in {s \in seen : s[1] = j.id /\ j.to \notin s[2].blocks}}
       \cup {<<j.to, [blockedBy |-> s[2].blockedBy \cup {j.id}]>> :
               s \in {s \in seen : s[1] = j.to /\ j.id \notin s[2].blockedBy}}

DeleteWants(j, seen) ==
  {<<s[1], [blocks |-> s[2].blocks \ {j.id}, blockedBy |-> s[2].blockedBy \ {j.id}]>> :
     s \in {s \in seen : j.id \in s[2].blocks \cup s[2].blockedBy}}

UnassignWants(j, seen) ==
  {<<s[1], [owner |-> None, status |-> "pending"]>> :
     s \in {s \in seen : s[2].owner = j.who /\ s[2].status # "completed"}}

JobTurnsToUpdates(p) ==
  /\ At(p, "read") /\ at[p].left = {}
  /\ LET j == at[p].job   seen == at[p].seen IN
       \/ j.kind = "update" /\ Proceeds(p, UpdateWants(p, j, seen))
       \/ j.kind = "block" /\ Proceeds(p, BlockWants(j, seen))
       \/ j.kind = "delete" /\ Proceeds(p, DeleteWants(j, seen))
       \/ j.kind = "unassign" /\ Proceeds(p, UnassignWants(j, seen))
  /\ UNCHANGED <<files, markFile, listLock, taskLock, jobsLeft, assigned>>

\* The hide timer: the list is reset if every task it read is completed.
HideDecides(p) ==
  /\ At(p, "read") /\ at[p].left = {} /\ Kind(p) = "hide"
  /\ IF at[p].seen # {} /\ \A s \in at[p].seen : s[2].status = "completed"
     THEN at' = [at EXCEPT ![p].pc = "list lock", ![p].seen = {}]
     ELSE Rests(p)
  /\ UNCHANGED <<files, markFile, listLock, taskLock, jobsLeft, assigned>>

-------------------------------------------------------------------------------
(* createTask, resetTaskList, deleteTask *)

TakesListLock(p) ==
  /\ At(p, "list lock") /\ listLock = None
  /\ listLock' = p
  /\ Moves(p, IF Kind(p) = "create" THEN "highest" ELSE "dir")
  /\ UNCHANGED <<files, markFile, taskLock, jobsLeft, assigned>>

ReadableMark == IF markWhole THEN mark ELSE 0

\* findHighestTaskId reads the directory and the mark at the same time.
CreateReadsDir(p) ==
  /\ Kind(p) = "create" /\ at[p].pc \in {"highest", "dir"}
  /\ \E h \in 0..MaxId :
       /\ IsHighest(h)
       /\ at' = [at EXCEPT ![p].pc = IF @ = "highest" THEN "mark" ELSE "born",
                           ![p].high = Larger(@, h)]
  /\ UNCHANGED <<files, markFile, listLock, taskLock, jobsLeft, assigned>>

CreateReadsMark(p) ==
  /\ Kind(p) = "create" /\ at[p].pc \in {"highest", "mark"}
  /\ at' = [at EXCEPT ![p].pc = IF @ = "highest" THEN "dir" ELSE "born",
                      ![p].high = Larger(@, ReadableMark)]
  /\ UNCHANGED <<files, markFile, listLock, taskLock, jobsLeft, assigned>>

CreateTruncates(p) ==
  /\ At(p, "born") /\ at[p].high < MaxId
  /\ LET id == at[p].high + 1 IN
       /\ file' = [file EXCEPT ![id] = "torn"]
       /\ at' = [at EXCEPT ![p].pc = "fill", ![p].id = id]
       /\ assigned' = assigned \cup {id}
  /\ UNCHANGED <<data, markFile, listLock, taskLock, jobsLeft>>

CreateWrites(p) ==
  /\ At(p, "fill")
  /\ Puts(p, Fresh)
  /\ listLock' = None /\ Rests(p)
  /\ UNCHANGED <<markFile, taskLock, jobsLeft, assigned>>

ResetReadsDir(p) ==
  /\ Kind(p) \in {"reset", "hide"} /\ At(p, "dir")
  /\ \E h \in 0..MaxId :
       /\ IsHighest(h)
       /\ at' = [at EXCEPT ![p].pc = IF h > 0 THEN "mark" ELSE "unlink", ![p].high = h]
  /\ UNCHANGED <<files, markFile, listLock, taskLock, jobsLeft, assigned>>

BugMarkNotRaised(p) ==
  /\ Kind(p) \in {"reset", "hide", "delete"} /\ At(p, "mark")
  /\ Moves(p, "unlink")
  /\ UNCHANGED <<files, markFile, listLock, taskLock, jobsLeft, assigned>>

\* A reset or a delete raises the mark to the highest task it removes.
ComparesMark(p) ==
  /\ Kind(p) \in {"reset", "hide", "delete"} /\ At(p, "mark")
  /\ Moves(p, IF at[p].high > ReadableMark THEN "raise" ELSE "unlink")
  /\ UNCHANGED <<files, markFile, listLock, taskLock, jobsLeft, assigned>>

MarkTruncates(p) ==
  /\ At(p, "raise")
  /\ markWhole' = FALSE /\ UNCHANGED mark
  /\ Moves(p, "raised")
  /\ UNCHANGED <<files, listLock, taskLock, jobsLeft, assigned>>

MarkWrites(p) ==
  /\ At(p, "raised")
  /\ mark' = at[p].high /\ markWhole' = TRUE
  /\ Moves(p, "unlink")
  /\ UNCHANGED <<files, listLock, taskLock, jobsLeft, assigned>>

DeleteUnlinks(p) ==
  /\ Kind(p) = "delete" /\ At(p, "unlink")
  /\ file' = [file EXCEPT ![at[p].job.id] = "absent"]
  /\ IF file[at[p].job.id] = "absent" THEN Rests(p) ELSE Moves(p, "readdir")
  /\ UNCHANGED <<data, markFile, listLock, taskLock, jobsLeft, assigned>>

ResetListsFiles(p) ==
  /\ Kind(p) \in {"reset", "hide"} /\ At(p, "unlink")
  /\ at' = [at EXCEPT ![p].pc = "unlinking", ![p].left = Present]
  /\ UNCHANGED <<files, markFile, listLock, taskLock, jobsLeft, assigned>>

ResetUnlinks(p, t) ==
  /\ At(p, "unlinking") /\ t \in at[p].left
  /\ file' = [file EXCEPT ![t] = "absent"]
  /\ at' = [at EXCEPT ![p].left = @ \ {t}]
  /\ UNCHANGED <<data, markFile, listLock, taskLock, jobsLeft, assigned>>

ResetEnds(p) ==
  /\ At(p, "unlinking") /\ at[p].left = {}
  /\ listLock' = None /\ Rests(p)
  /\ UNCHANGED <<files, markFile, taskLock, jobsLeft, assigned>>

-------------------------------------------------------------------------------
Crash(p) ==
  /\ MayCrash /\ ~At(p, "rest")
  /\ Rests(p) /\ jobsLeft' = [jobsLeft EXCEPT ![p] = 0]
  /\ listLock' = IF listLock = p THEN None ELSE listLock
  /\ taskLock' = [t \in Ids |-> IF taskLock[t] = p THEN None ELSE taskLock[t]]
  /\ UNCHANGED <<files, markFile, assigned>>

\* Every agent has done its jobs, or createTask has run out of ids.
Quiet ==
  /\ \A p \in Agents : \/ At(p, "rest") /\ (jobsLeft[p] = 0 \/ Jobs = {})
                       \/ At(p, "born") /\ at[p].high >= MaxId
  /\ UNCHANGED vars

UpdateStep(p) ==
  \/ Checks(p) \/ TakesTaskLock(p) \/ LockFails(p) \/ Rereads(p) \/ Truncates(p) \/ Writes(p)

ReadStep(p) ==
  \/ Judges(p) \/ ReadsDirectory(p) \/ \E t \in Ids : Reads(p, t)
  \/ ClaimJudgesBlockers(p) \/ JobTurnsToUpdates(p) \/ HideDecides(p)

ListStep(p) ==
  \/ TakesListLock(p) \/ CreateReadsDir(p) \/ CreateReadsMark(p) \/ CreateTruncates(p)
  \/ CreateWrites(p) \/ ResetReadsDir(p) \/ ComparesMark(p) \/ MarkTruncates(p)
  \/ MarkWrites(p) \/ DeleteUnlinks(p) \/ ResetListsFiles(p)
  \/ (\E t \in Ids : ResetUnlinks(p, t)) \/ ResetEnds(p)

Next ==
  \/ \E p \in Agents : (\E j \in Jobs : Begins(p, j)) \/ UpdateStep(p) \/ ReadStep(p) \/ ListStep(p)
                       \/ Crash(p)
  \/ Quiet

Spec == Init /\ [][Next]_vars

-------------------------------------------------------------------------------
(* Properties *)

\* What is known of an agent's job.
Place ==
  [pc : Places, job : Jobs \cup {Resting.job}, id : 0..MaxId, upd : Updates \cup {<< >>},
   base : Task, left : SUBSET Ids, seen : SUBSET (Ids \X Task),
   todo : SUBSET (Ids \X Updates), high : 0..MaxId]

TypeOK ==
  /\ file \in [Ids -> {"absent", "whole", "torn"}] /\ data \in [Ids -> Task]
  /\ mark \in 0..MaxId /\ markWhole \in BOOLEAN
  /\ listLock \in Agents \cup {None} /\ taskLock \in [Ids -> Agents \cup {None}]
  /\ at \in [Agents -> Place]
  /\ jobsLeft \in [Agents -> 0..MaxJobs] /\ assigned \subseteq Ids

\* A claim never takes a task from another agent (claimTask's "already_claimed"): the
\* owner it found under the lock is still there when the claim is written.
ClaimsUncontested ==
  \A p \in Agents : Claiming(p) /\ At(p, "write") => data[at[p].id].owner \in {None, p}

\* updateTask writes the whole file back, but undoes nobody's update of another field, as
\* long as no id is reused under it: a task changes only in the fields of one update.
FieldsKept ==
  [][\A t \in Ids : data'[t] # data[t] =>
       \E p \in Agents :
         /\ at[p].id = t
         /\ At(p, "write") => \A f \in DOMAIN data[t] \ DOMAIN at[p].upd : data'[t][f] = data[t][f]]_vars

\* No call that ends, fails or crashes leaves a lock behind (the finally blocks): who
\* holds a lock is in the part of its job that needs it.
NoLockLeft ==
  /\ \A t \in Ids, p \in Agents : taskLock[t] = p => at[p].id = t /\ at[p].pc \in TaskLocked
  /\ \A p \in Agents : listLock = p => Kind(p) \in {"create", "reset", "hide"} /\ at[p].pc \in ListLocked

\* createTask never gives out an id again, resets and half-written marks included
\* ("Writes a high water mark file to prevent ID reuse after reset").
IdsUnique == \A p \in Agents : At(p, "born") => at[p].high + 1 \notin assigned
================================================================================
