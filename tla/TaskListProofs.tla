------------------------------ MODULE TaskListProofs ----------------------------
(* Proofs about TaskList, for any agents, tasks and calls. *)
EXTENDS TaskList, TLAPS

USE AgentsAssumption, JobsAssumption, BoundsAssumption

(* Type correctness *)

LEMMA ContentType == ASSUME NEW r \in Task, NEW u \in Updates PROVE Content(r, u) \in Task
  BY DEF Content, Task, Updates, Statuses

LEMMA FreshType == Fresh \in Task
  BY DEF Fresh, Task, Statuses

LEMMA RestingType ==
  /\ Resting.pc = "rest" /\ Resting.pc \in Places /\ Resting.job = [kind |-> "none"]
  /\ Resting.id \in 0..MaxId /\ Resting.upd = << >> /\ Resting.base \in Task
  /\ Resting.left = {} /\ Resting.seen = {} /\ Resting.todo = {} /\ Resting.high = 0
  BY FreshType DEF Resting, Places

\* The jobs' fields.
LEMMA JobFields ==
  ASSUME NEW j \in Jobs
  PROVE  /\ j.kind \in {"create", "reset", "hide", "delete", "claim", "update", "block", "unassign"}
         /\ j.kind \in {"delete", "claim", "update", "block"} => j.id \in Ids
         /\ j.kind = "block" => j.to \in Ids
         /\ j.kind = "claim" => j.follow \subseteq Follows
         /\ j.kind = "update" => j.set \in [status : Statuses] \cup [owner : Agents]
  BY DEF JobType

LEMMA IdsBound ==
  /\ Ids \subseteq 0..MaxId /\ 0 \in 0..MaxId
  /\ \A h \in 0..MaxId : h < MaxId => h + 1 \in Ids
  /\ 1..Tasks0 \subseteq Ids
  BY BoundsAssumption DEF Ids

LEMMA FollowsType == Follows \subseteq Updates
  BY DEF Follows, Updates, Statuses

LEMMA ToolUpdatesType ==
  ASSUME NEW p \in Agents, NEW set \in [status : Statuses] \cup [owner : Agents], NEW r \in Task
  PROVE  ToolUpdates(p, set, r) \subseteq Updates
<1> DEFINE begins == "status" \in DOMAIN set /\ set.status = "in_progress" /\ r.owner = None
           differs == \E f \in DOMAIN set : set[f] # r[f]
<1>1. ToolUpdates(p, set, r) \in {{[owner |-> p, status |-> "in_progress"]}, {[owner |-> p]}, {set}, {}}
  BY DEF ToolUpdates
<1>2. /\ [owner |-> p, status |-> "in_progress"] \in Updates /\ [owner |-> p] \in Updates
      /\ set \in Updates
  BY DEF Updates, Statuses
<1> QED BY <1>1, <1>2

LEMMA WantsType ==
  ASSUME NEW p \in Agents, NEW j \in Jobs, NEW seen \in SUBSET (Ids \X Task)
  PROVE  /\ j.kind = "update" => UpdateWants(p, j, seen) \subseteq Ids \X Updates
         /\ j.kind = "block" => BlockWants(j, seen) \subseteq Ids \X Updates
         /\ DeleteWants(j, seen) \subseteq Ids \X Updates
         /\ UnassignWants(j, seen) \subseteq Ids \X Updates
<1>1. \A s \in seen : s[1] \in Ids /\ s[2] \in Task
  OBVIOUS
<1>2. ASSUME j.kind = "update" PROVE UpdateWants(p, j, seen) \subseteq Ids \X Updates
  <2>1. \A s \in seen : ToolUpdates(p, j.set, s[2]) \subseteq Updates
    BY <1>1, <1>2, JobFields, ToolUpdatesType
  <2> QED BY <1>1, <2>1 DEF UpdateWants
<1>3. ASSUME j.kind = "block" PROVE BlockWants(j, seen) \subseteq Ids \X Updates
  <2>1. \A e \in BlockWants(j, seen) : \E s \in seen :
          \/ e = <<j.id, [blocks |-> s[2].blocks \cup {j.to}]>>
          \/ e = <<j.to, [blockedBy |-> s[2].blockedBy \cup {j.id}]>>
    BY DEF BlockWants
  <2>2. j.id \in Ids /\ j.to \in Ids
    BY <1>3, JobFields
  <2>3. \A S \in SUBSET Ids : [blocks |-> S] \in Updates /\ [blockedBy |-> S] \in Updates
    BY DEF Updates
  <2>4. \A s \in seen : s[2].blocks \cup {j.to} \subseteq Ids /\ s[2].blockedBy \cup {j.id} \subseteq Ids
    BY <1>1, <2>2 DEF Task
  <2>5. \A s \in seen : /\ [blocks |-> s[2].blocks \cup {j.to}] \in Updates
                        /\ [blockedBy |-> s[2].blockedBy \cup {j.id}] \in Updates
    BY <2>3, <2>4
  <2>6. \A s \in seen : /\ <<j.id, [blocks |-> s[2].blocks \cup {j.to}]>> \in Ids \X Updates
                        /\ <<j.to, [blockedBy |-> s[2].blockedBy \cup {j.id}]>> \in Ids \X Updates
    BY <2>2, <2>5
  <2> SUFFICES ASSUME NEW e \in BlockWants(j, seen) PROVE e \in Ids \X Updates
    OBVIOUS
  <2>7. PICK s \in seen : \/ e = <<j.id, [blocks |-> s[2].blocks \cup {j.to}]>>
                         \/ e = <<j.to, [blockedBy |-> s[2].blockedBy \cup {j.id}]>>
    BY <2>1
  <2> QED BY <2>6, <2>7
<1>4. DeleteWants(j, seen) \subseteq Ids \X Updates
  <2>1. \A s \in seen :
          [blocks |-> s[2].blocks \ {j.id}, blockedBy |-> s[2].blockedBy \ {j.id}] \in Updates
    BY <1>1 DEF Task, Updates
  <2> QED BY <1>1, <2>1 DEF DeleteWants
<1>5. UnassignWants(j, seen) \subseteq Ids \X Updates
  <2>1. [owner |-> None, status |-> "pending"] \in Updates
    BY DEF Updates, Statuses
  <2> QED BY <1>1, <2>1 DEF UnassignWants
<1> QED BY <1>2, <1>3, <1>4, <1>5

LEMMA CheckPlace ==
  ASSUME NEW r \in Place, NEW i \in 0..MaxId, NEW u \in Updates, NEW T \in SUBSET (Ids \X Updates)
  PROVE  [r EXCEPT !.pc = "check", !.id = i, !.upd = u, !.left = {}, !.seen = {}, !.todo = T] \in Place
<1>1. "check" \in Places
  BY DEF Places
<1> QED BY <1>1 DEF Place

(* What holds of an agent's place in each job *)

\* The agent holds the lock of its task; of the list.
Holding(r) ==
  \/ r.pc \in {"judge", "reread", "truncate", "write"}
  \/ r.pc = "read" /\ r.job.kind = "claim"
Listing(r) == r.pc \in ListLocked /\ r.job.kind \in {"create", "reset", "hide"}

Sound(p, r) ==
  /\ r \in Place
  /\ r.pc # "rest" => r.job \in Jobs
  /\ r.pc \in {"check", "lock"} \/ Holding(r) => r.id \in Ids /\ r.upd \in Updates
  /\ r.pc = "judge" \/ (r.pc = "read" /\ r.job.kind = "claim") =>
       r.job.kind = "claim" /\ r.upd = [owner |-> p]
  /\ r.pc = "fill" => r.id \in Ids
  /\ r.pc = "readdir" => r.job.kind \in {"hide", "unassign", "delete"}
  /\ r.pc = "list lock" => r.job.kind \in {"create", "reset", "hide"}
  /\ r.pc \in ListLocked => r.job.kind \in {"create", "reset", "hide", "delete"}
  /\ r.pc \in {"highest", "born", "fill"} => r.job.kind = "create"
  /\ r.pc \in {"raise", "raised", "unlink"} => r.job.kind \in {"reset", "hide", "delete"}
  /\ r.pc = "unlinking" => r.job.kind \in {"reset", "hide"}

TypeInv == TypeOK /\ \A p \in Agents : Sound(p, at[p])

LEMMA RestingSound == \A p \in Agents : Resting \in Place /\ Sound(p, Resting)
<1>1. Resting \in Place
  BY RestingType DEF Place, Resting
<1> QED BY <1>1, RestingType DEF Sound, Holding, ListLocked, Resting

\* An agent's step is to a sound place of its own.
Goes(p) == \E r \in Place : Sound(p, r) /\ at' = [at EXCEPT ![p] = r]

LEMMA GoesSound ==
  ASSUME TypeInv, NEW p \in Agents, Goes(p)
  PROVE  at' \in [Agents -> Place] /\ \A q \in Agents : Sound(q, at'[q])
<1>1. PICK r \in Place : Sound(p, r) /\ at' = [at EXCEPT ![p] = r]
  BY DEF Goes
<1>2. at \in [Agents -> Place]
  BY DEF TypeInv, TypeOK
<1>3. at' \in [Agents -> Place] /\ at'[p] = r /\ \A q \in Agents \ {p} : at'[q] = at[q]
  BY <1>1, <1>2
<1>4. \A q \in Agents \ {p} : Sound(q, at[q])
  BY DEF TypeInv
<1> QED BY <1>1, <1>3, <1>4

LEMMA RestsGoes ==
  ASSUME TypeInv, NEW p \in Agents, Rests(p)
  PROVE  Goes(p)
  BY RestingSound DEF Goes, Rests

LEMMA ProceedsGoes ==
  ASSUME TypeInv, NEW p \in Agents, NEW T \in SUBSET (Ids \X Updates), at[p].pc # "rest",
         Proceeds(p, T)
  PROVE  Goes(p)
<1>1. at \in [Agents -> Place] /\ at[p] \in Place /\ at[p].job \in Jobs
  BY DEF TypeInv, TypeOK, Sound
<1>2. CASE T = {} /\ Rests(p)
  BY <1>2, RestsGoes
<1>3. ASSUME NEW e \in T,
             at' = [at EXCEPT ![p] = [at[p] EXCEPT !.pc = "check", !.id = e[1], !.upd = e[2],
                                                   !.left = {}, !.seen = {}, !.todo = T \ {e}]]
      PROVE  Goes(p)
  <2> DEFINE r == [at[p] EXCEPT !.pc = "check", !.id = e[1], !.upd = e[2], !.left = {},
                                !.seen = {}, !.todo = T \ {e}]
  <2>1. e[1] \in Ids /\ e[2] \in Updates /\ T \ {e} \in SUBSET (Ids \X Updates)
    OBVIOUS
  <2>2. "check" \in Places /\ e[1] \in 0..MaxId
    BY <2>1 DEF Places, Ids
  <2>3. r \in Place
    BY <1>1, <2>1, <2>2, CheckPlace
  <2>4. r.pc = "check" /\ r.id = e[1] /\ r.upd = e[2] /\ r.job = at[p].job
    BY <1>1 DEF Place
  <2>5. Sound(p, r)
    BY <1>1, <2>1, <2>3, <2>4 DEF Sound, Holding, ListLocked
  <2> QED BY <1>3, <2>3, <2>5 DEF Goes
<1> QED BY <1>2, <1>3 DEF Proceeds

\* e is r at place q, in the same job, on the same task.
Edited(r, e, q) == e \in Place /\ e.pc = q /\ e.job = r.job /\ e.id = r.id /\ e.upd = r.upd

LEMMA PlaceEdits ==
  ASSUME NEW r \in Place, NEW q \in Places
  PROVE  /\ Edited(r, [r EXCEPT !.pc = q], q)
         /\ \A b \in Task : Edited(r, [r EXCEPT !.pc = q, !.base = b], q)
         /\ \A S \in SUBSET Ids : Edited(r, [r EXCEPT !.pc = q, !.left = S], q)
         /\ \A S \in SUBSET Ids : Edited(r, [r EXCEPT !.left = S], r.pc)
         /\ \A S \in SUBSET Ids, Q \in SUBSET (Ids \X Task) :
              Edited(r, [r EXCEPT !.left = S, !.seen = Q], r.pc)
         /\ Edited(r, [r EXCEPT !.pc = q, !.seen = {}], q)
         /\ \A h \in 0..MaxId : Edited(r, [r EXCEPT !.pc = q, !.high = h], q)
  BY DEF Place, Edited

LEMMA PlaceNames ==
  /\ {"rest", "check", "lock", "readdir", "list lock", "judge", "read", "reread", "truncate", "write"}
       \subseteq Places
  /\ {"highest", "dir", "mark", "born", "fill", "raise", "raised", "unlink", "unlinking"} \subseteq Places
  BY DEF Places, TaskLocked, ListLocked

\* Places with nothing to hold to but the job, and those with a task and an update.
LEMMA EditSound ==
  ASSUME NEW p \in Agents, NEW r \in Place, NEW e, NEW q, Sound(p, r), r.pc # "rest",
         Edited(r, e, q),
         q \in {"check", "lock", "reread", "truncate", "write"} => r.id \in Ids /\ r.upd \in Updates,
         q = "judge" => r.job.kind = "claim",
         q \in {"judge", "read"} /\ r.job.kind = "claim" => r.upd = [owner |-> p] /\ r.id \in Ids,
         q \in ListLocked \cup {"readdir", "list lock"} => Sound(p, e)
  PROVE  Sound(p, e)
<1>1. e \in Place /\ e.pc = q /\ e.job = r.job /\ e.id = r.id /\ e.upd = r.upd /\ r.job \in Jobs
  BY DEF Edited, Sound
<1>2. [owner |-> p] \in Updates
  BY DEF Updates
<1>3. q \in {"fill", "readdir", "list lock"} \/ q \in ListLocked => Sound(p, e)
  BY DEF ListLocked
<1> QED BY <1>1, <1>2, <1>3 DEF Sound, Holding, ListLocked

LEMMA MovesGoes ==
  ASSUME TypeInv, NEW p \in Agents, NEW q \in Places, Moves(p, q),
         Sound(p, [at[p] EXCEPT !.pc = q])
  PROVE  Goes(p)
<1>1. at \in [Agents -> Place] /\ at[p] \in Place
  BY DEF TypeInv, TypeOK
<1>2. [at[p] EXCEPT !.pc = q] \in Place /\ at' = [at EXCEPT ![p] = [at[p] EXCEPT !.pc = q]]
  BY <1>1, PlaceEdits DEF Moves, Edited
<1> QED BY <1>2 DEF Goes

LEMMA BeginsGoes ==
  ASSUME TypeInv, NEW p \in Agents, NEW j \in Jobs, Begins(p, j)
  PROVE  Goes(p)
<1> USE RestingType, PlaceNames DEF Starting, Resting
<1>1. Starting(j) \in Place /\ Starting(j).job = j
  BY DEF Place
<1>2. ASSUME j.kind \in {"create", "reset"} PROVE Sound(p, [Starting(j) EXCEPT !.pc = "list lock"])
  BY <1>1, <1>2, PlaceEdits DEF Edited, Sound, Holding, ListLocked
<1>3. ASSUME j.kind \in {"hide", "unassign"} PROVE Sound(p, [Starting(j) EXCEPT !.pc = "readdir"])
  BY <1>1, <1>3, PlaceEdits DEF Edited, Sound, Holding, ListLocked
<1>4. ASSUME j.kind = "delete" PROVE Sound(p, [Starting(j) EXCEPT !.pc = "mark", !.high = j.id])
  <2>1. j.id \in 0..MaxId
    BY <1>4, JobFields, IdsBound
  <2> QED BY <1>1, <1>4, <2>1, PlaceEdits DEF Edited, Sound, Holding, ListLocked
<1>5. ASSUME j.kind \in {"update", "block"}, NEW S \in SUBSET Ids
      PROVE  Sound(p, [Starting(j) EXCEPT !.pc = "read", !.left = S])
  BY <1>1, <1>5, PlaceEdits DEF Edited, Sound, Holding, ListLocked
<1>6. ASSUME j.kind = "claim"
      PROVE  Sound(p, [Starting(j) EXCEPT !.pc = "check", !.id = j.id, !.upd = [owner |-> p],
                                          !.todo = {j.id} \X j.follow])
  <2> DEFINE r == [Starting(j) EXCEPT !.pc = "check", !.id = j.id, !.upd = [owner |-> p],
                                      !.todo = {j.id} \X j.follow]
  <2>1. j.id \in Ids /\ j.id \in 0..MaxId /\ {j.id} \X j.follow \subseteq Ids \X Updates
    BY <1>6, JobFields, FollowsType, IdsBound
  <2>2. [owner |-> p] \in Updates
    BY DEF Updates
  <2>3. r \in Place
    BY <2>1, <2>2 DEF Place
  <2>4. r.pc = "check" /\ r.job = j /\ r.id = j.id /\ r.upd = [owner |-> p]
    OBVIOUS
  <2> QED BY <2>1, <2>2, <2>3, <2>4 DEF Sound, Holding, ListLocked
<1>7. j.kind \in {"update", "block"} => j.id \in Ids
  BY JobFields
<1>8. j.kind = "block" => j.to \in Ids
  BY JobFields
<1> HIDE DEF Starting, Resting
<1>9. \E r : Sound(p, r) /\ at' = [at EXCEPT ![p] = r]
  <2>1. CASE j.kind \in {"create", "reset"}
    BY <1>2, <2>1 DEF Begins
  <2>2. CASE j.kind \in {"hide", "unassign"}
    BY <1>3, <2>2 DEF Begins
  <2>3. CASE j.kind = "delete"
    BY <1>4, <2>3 DEF Begins
  <2>4. CASE j.kind = "update"
    BY <1>5, <1>7, <2>4 DEF Begins
  <2>5. CASE j.kind = "block"
    BY <1>5, <1>7, <1>8, <2>5 DEF Begins
  <2>6. CASE j.kind = "claim"
    BY <1>6, <2>6 DEF Begins
  <2> QED BY <2>1, <2>2, <2>3, <2>4, <2>5, <2>6, JobFields
<1> QED BY <1>9 DEF Goes, Sound

LEMMA UpdateStepGoes ==
  ASSUME TypeInv, NEW p \in Agents, UpdateStep(p)
  PROVE  Goes(p)
<1> USE PlaceNames
<1>1. /\ at \in [Agents -> Place] /\ at[p] \in Place /\ Sound(p, at[p])
      /\ at[p].todo \in SUBSET (Ids \X Updates)
  BY DEF TypeInv, TypeOK, Place
<1>2. ASSUME NEW q \in {"lock", "truncate", "write"}, at[p].pc \in {"check", "reread", "truncate"}
      PROVE  Sound(p, [at[p] EXCEPT !.pc = q])
  <2>1. Edited(at[p], [at[p] EXCEPT !.pc = q], q)
    BY <1>1, <1>2, PlaceEdits
  <2>2. at[p].id \in Ids /\ at[p].upd \in Updates
    BY <1>1, <1>2 DEF Sound, Holding
  <2>3. q \notin ListLocked
    BY <1>2 DEF ListLocked
  <2> QED BY <1>1, <1>2, <2>1, <2>2, <2>3, EditSound
<1>3. CASE Checks(p)
  BY <1>1, <1>2, <1>3, RestsGoes, ProceedsGoes, MovesGoes DEF Checks, At
<1>4. CASE TakesTaskLock(p)
  <2>1. at[p].pc = "lock" /\ at[p].id \in Ids /\ at[p].upd \in Updates /\ at[p].job \in Jobs
    BY <1>1, <1>4 DEF TakesTaskLock, At, Sound
  <2>2. CASE Claiming(p)
    <3>1. Edited(at[p], [at[p] EXCEPT !.pc = "judge"], "judge") /\ "judge" \notin ListLocked
      BY <1>1, PlaceEdits DEF ListLocked
    <3>2. Sound(p, [at[p] EXCEPT !.pc = "judge"])
      BY <1>1, <2>1, <2>2, <3>1, EditSound DEF Claiming, Kind
    <3> QED BY <1>4, <2>2, <3>2, MovesGoes DEF TakesTaskLock
  <2>3. CASE ~Claiming(p)
    <3>1. Edited(at[p], [at[p] EXCEPT !.pc = "reread"], "reread") /\ "reread" \notin ListLocked
      BY <1>1, PlaceEdits DEF ListLocked
    <3>2. Sound(p, [at[p] EXCEPT !.pc = "reread"])
      BY <1>1, <2>1, <3>1, EditSound
    <3> QED BY <1>4, <2>3, <3>2, MovesGoes DEF TakesTaskLock
  <2> QED BY <2>2, <2>3
<1>5. CASE LockFails(p)
  BY <1>5, RestsGoes DEF LockFails
<1>6. CASE Rereads(p)
  <2>1. at[p].pc = "reread" /\ at[p].id \in Ids /\ at[p].upd \in Updates /\ at[p].job \in Jobs
    BY <1>1, <1>6 DEF Rereads, At, Sound, Holding
  <2>2. CASE file[at[p].id] = "whole"
    <3> DEFINE r == [at[p] EXCEPT !.pc = "truncate", !.base = data[at[p].id]]
    <3>1. data[at[p].id] \in Task
      BY <2>1 DEF TypeInv, TypeOK
    <3>2. Edited(at[p], r, "truncate")
      BY <1>1, <3>1, PlaceEdits
    <3>3. r \in Place /\ Sound(p, r)
      BY <1>1, <2>1, <3>2, EditSound DEF ListLocked, Edited
    <3>4. at' = [at EXCEPT ![p] = r]
      BY <1>1, <1>6, <2>2 DEF Rereads
    <3> QED BY <3>3, <3>4 DEF Goes
  <2>3. CASE file[at[p].id] # "whole"
    BY <1>1, <1>6, <2>1, <2>3, ProceedsGoes DEF Rereads
  <2> QED BY <2>2, <2>3
<1>7. CASE Truncates(p)
  BY <1>1, <1>2, <1>7, MovesGoes DEF Truncates, At
<1>8. CASE Writes(p)
  BY <1>1, <1>8, ProceedsGoes DEF Writes, At
<1> QED BY <1>3, <1>4, <1>5, <1>6, <1>7, <1>8 DEF UpdateStep

LEMMA ReadStepGoes ==
  ASSUME TypeInv, NEW p \in Agents, ReadStep(p)
  PROVE  Goes(p)
<1> USE PlaceNames
<1>1. at \in [Agents -> Place] /\ at[p] \in Place /\ Sound(p, at[p])
  BY DEF TypeInv, TypeOK
<1>2. CASE Judges(p)
  <2>1. /\ at[p].pc = "judge" /\ at[p].id \in Ids /\ at[p].job.kind = "claim"
        /\ at[p].upd = [owner |-> p]
    BY <1>1, <1>2 DEF Judges, At, Sound, Holding
  <2>2. CASE Rests(p)
    BY <2>2, RestsGoes
  <2>3. CASE at' = [at EXCEPT ![p].pc = "read", ![p].left = data[at[p].id].blockedBy \cap Present]
    <3> DEFINE S == data[at[p].id].blockedBy \cap Present
               r == [at[p] EXCEPT !.pc = "read", !.left = S]
    <3>1. S \in SUBSET Ids
      BY DEF Present
    <3>2. Edited(at[p], r, "read") /\ "read" \notin ListLocked
      BY <1>1, <3>1, PlaceEdits DEF ListLocked
    <3>3. Sound(p, r) /\ r \in Place
      BY <1>1, <2>1, <3>2, EditSound DEF Edited
    <3> QED BY <1>1, <2>3, <3>3 DEF Goes
  <2> QED BY <1>2, <2>2, <2>3 DEF Judges
<1>3. CASE ReadsDirectory(p)
  <2> DEFINE r == [at[p] EXCEPT !.pc = "read", !.left = Present]
  <2>1. at[p].pc = "readdir" /\ at[p].job.kind # "claim"
    BY <1>1, <1>3 DEF ReadsDirectory, At, Sound
  <2>2. Edited(at[p], r, "read") /\ "read" \notin ListLocked
    BY <1>1, PlaceEdits DEF ListLocked, Present
  <2>3. at' = [at EXCEPT ![p] = r]
    BY <1>1, <1>3 DEF ReadsDirectory
  <2> HIDE DEF r
  <2>4. Sound(p, r)
    BY <1>1, <2>1, <2>2, EditSound
  <2>5. r \in Place
    BY <2>2 DEF Edited
  <2> QED BY <2>3, <2>4, <2>5 DEF Goes
<1>4. ASSUME NEW t \in Ids, Reads(p, t) PROVE Goes(p)
  <2> DEFINE S == at[p].left \ {t}
             Q == at[p].seen \cup (IF file[t] = "whole" THEN {<<t, data[t]>>} ELSE {})
             r == [at[p] EXCEPT !.left = S, !.seen = Q]
  <2>1. at[p].pc = "read"
    BY <1>4 DEF Reads, At
  <2>2. S \in SUBSET Ids /\ Q \in SUBSET (Ids \X Task)
    <3>1. at[p].left \in SUBSET Ids /\ at[p].seen \in SUBSET (Ids \X Task) /\ data[t] \in Task
      BY <1>1 DEF Place, TypeInv, TypeOK
    <3>2. <<t, data[t]>> \in Ids \X Task
      BY <3>1
    <3> QED BY <3>1, <3>2
  <2>3. Edited(at[p], r, "read") /\ "read" \notin ListLocked
    <3>1. Edited(at[p], r, at[p].pc)
      BY <1>1, <2>1, <2>2, PlaceEdits
    <3> QED BY <2>1, <3>1 DEF ListLocked
  <2>4. at[p].job.kind = "claim" => at[p].upd = [owner |-> p] /\ at[p].id \in Ids
    BY <1>1, <2>1 DEF Sound, Holding
  <2>5. at' = [at EXCEPT ![p] = r]
    BY <1>1, <1>4 DEF Reads
  <2> HIDE DEF r
  <2>6. Sound(p, r)
    BY <1>1, <2>1, <2>3, <2>4, EditSound
  <2>7. r \in Place
    BY <2>3 DEF Edited
  <2> QED BY <2>5, <2>6, <2>7 DEF Goes
<1>5. CASE ClaimJudgesBlockers(p)
  <2>1. at[p].pc = "read" /\ at[p].job.kind = "claim" /\ at[p].id \in Ids /\ at[p].upd \in Updates
    BY <1>1, <1>5 DEF ClaimJudgesBlockers, Claiming, Kind, At, Sound, Holding
  <2>2. Edited(at[p], [at[p] EXCEPT !.pc = "reread"], "reread") /\ "reread" \notin ListLocked
    BY <1>1, PlaceEdits DEF ListLocked
  <2>3. Sound(p, [at[p] EXCEPT !.pc = "reread"])
    BY <1>1, <2>1, <2>2, EditSound
  <2> QED BY <1>5, <2>3, MovesGoes, RestsGoes DEF ClaimJudgesBlockers
<1>6. CASE JobTurnsToUpdates(p)
  <2>1. /\ at[p].pc = "read" /\ at[p].job \in Jobs /\ at[p].seen \in SUBSET (Ids \X Task)
    BY <1>1, <1>6 DEF JobTurnsToUpdates, At, Sound, Place
  <2>2. \E T \in SUBSET (Ids \X Updates) : Proceeds(p, T)
    BY <1>6, <2>1, WantsType DEF JobTurnsToUpdates
  <2> QED BY <2>1, <2>2, ProceedsGoes
<1>7. CASE HideDecides(p)
  <2> DEFINE r == [at[p] EXCEPT !.pc = "list lock", !.seen = {}]
  <2>1. at[p].pc = "read" /\ at[p].job.kind = "hide" /\ at[p].job \in Jobs
    BY <1>1, <1>7 DEF HideDecides, Kind, At, Sound
  <2>2. Edited(at[p], r, "list lock")
    BY <1>1, PlaceEdits
  <2>3. Sound(p, r) /\ r \in Place
    BY <2>1, <2>2 DEF Edited, Sound, Holding, ListLocked
  <2>4. Rests(p) \/ at' = [at EXCEPT ![p] = r]
    BY <1>1, <1>7 DEF HideDecides
  <2> QED BY <2>3, <2>4, RestsGoes DEF Goes
<1> QED BY <1>2, <1>3, <1>4, <1>5, <1>6, <1>7 DEF ReadStep

LEMMA ListEdit ==
  ASSUME NEW p \in Agents, NEW r \in Place, NEW e, NEW q \in ListLocked \ {"fill"},
         Edited(r, e, q), r.job \in Jobs, r.job.kind \in {"create", "reset", "hide", "delete"},
         q \in {"highest", "born"} => r.job.kind = "create",
         q \in {"raise", "raised", "unlink"} => r.job.kind # "create",
         q = "unlinking" => r.job.kind \in {"reset", "hide"}
  PROVE  e \in Place /\ Sound(p, e)
  BY DEF Edited, Sound, Holding, ListLocked

LEMMA ListStepGoes ==
  ASSUME TypeInv, NEW p \in Agents, ListStep(p)
  PROVE  Goes(p)
<1> USE PlaceNames
<1>1. /\ at \in [Agents -> Place] /\ at[p] \in Place /\ Sound(p, at[p])
      /\ at[p].high \in 0..MaxId /\ at[p].left \subseteq Ids
  BY DEF TypeInv, TypeOK, Place
<1>2. \A q \in Places :
        /\ Edited(at[p], [at[p] EXCEPT !.pc = q], q)
        /\ \A h \in 0..MaxId : Edited(at[p], [at[p] EXCEPT !.pc = q, !.high = h], q)
        /\ \A S \in SUBSET Ids : Edited(at[p], [at[p] EXCEPT !.pc = q, !.left = S], q)
  BY <1>1, PlaceEdits
<1>3. CASE TakesListLock(p)
  <2>1. at[p].pc = "list lock" /\ at[p].job \in Jobs /\ Kind(p) \in {"create", "reset", "hide"}
    BY <1>1, <1>3 DEF TakesListLock, At, Sound, Kind
  <2>2. CASE Kind(p) = "create"
    BY <1>1, <1>2, <1>3, <2>1, <2>2, ListEdit, MovesGoes DEF TakesListLock, ListLocked, Kind
  <2>3. CASE Kind(p) # "create"
    BY <1>1, <1>2, <1>3, <2>1, <2>3, ListEdit, MovesGoes DEF TakesListLock, ListLocked, Kind
  <2> QED BY <2>2, <2>3
<1>4. ASSUME NEW q \in {"mark", "dir", "born"}, NEW h \in 0..MaxId, Kind(p) = "create",
             at[p].pc \in ListLocked, at' = [at EXCEPT ![p].pc = q, ![p].high = h]
      PROVE  Goes(p)
  <2>1. at[p].job \in Jobs /\ at[p].job.kind = "create"
    BY <1>1, <1>4 DEF Sound, ListLocked, Kind
  <2>2. Sound(p, [at[p] EXCEPT !.pc = q, !.high = h]) /\ [at[p] EXCEPT !.pc = q, !.high = h] \in Place
    BY <1>1, <1>2, <2>1, ListEdit DEF ListLocked
  <2> QED BY <1>1, <1>4, <2>2 DEF Goes
<1>5. CASE CreateReadsDir(p)
  <2>1. PICK h \in 0..MaxId :
          at' = [at EXCEPT ![p].pc = IF at[p].pc = "highest" THEN "mark" ELSE "born",
                           ![p].high = Larger(at[p].high, h)]
    BY <1>1, <1>5 DEF CreateReadsDir
  <2>2. Larger(at[p].high, h) \in 0..MaxId /\ at[p].pc \in ListLocked /\ Kind(p) = "create"
    BY <1>1, <1>5 DEF CreateReadsDir, Larger, ListLocked
  <2> QED BY <1>4, <2>1, <2>2
<1>6. CASE CreateReadsMark(p)
  <2>1. at' = [at EXCEPT ![p].pc = IF at[p].pc = "highest" THEN "dir" ELSE "born",
                         ![p].high = Larger(at[p].high, ReadableMark)]
    BY <1>1, <1>6 DEF CreateReadsMark
  <2>2. ReadableMark \in 0..MaxId
    <3>1. mark \in 0..MaxId
      BY DEF TypeInv, TypeOK
    <3> QED BY <3>1, IdsBound DEF ReadableMark
  <2>3. Larger(at[p].high, ReadableMark) \in 0..MaxId
    BY <1>1, <2>2 DEF Larger
  <2>4. at[p].pc \in ListLocked /\ Kind(p) = "create"
    BY <1>6 DEF CreateReadsMark, ListLocked
  <2> QED BY <1>4, <2>1, <2>3, <2>4
<1>7. CASE CreateTruncates(p)
  <2> DEFINE r == [at[p] EXCEPT !.pc = "fill", !.id = at[p].high + 1]
  <2>1. at[p].job \in Jobs /\ at[p].job.kind = "create" /\ at[p].high + 1 \in Ids
    <3>1. at[p].high < MaxId /\ at[p].pc = "born"
      BY <1>7 DEF CreateTruncates, At
    <3>2. at[p].high \in 0..MaxId
      BY <1>1
    <3>3. at[p].high + 1 \in Ids
      BY <3>1, <3>2, IdsBound
    <3> QED BY <1>1, <3>1, <3>3 DEF Sound
  <2>2. r \in Place /\ r.pc = "fill" /\ r.job = at[p].job /\ r.id = at[p].high + 1
    BY <1>1, <2>1, IdsBound DEF Place
  <2>3. Sound(p, r)
    BY <2>1, <2>2 DEF Sound, Holding, ListLocked
  <2>4. at' = [at EXCEPT ![p] = r]
    BY <1>1, <1>7 DEF CreateTruncates
  <2> QED BY <2>2, <2>3, <2>4 DEF Goes
<1>8. CASE CreateWrites(p) \/ ResetEnds(p)
  BY <1>8, RestsGoes DEF CreateWrites, ResetEnds
<1>9. ASSUME at[p].pc \in ListLocked, NEW q \in {"raise", "raised", "unlink", "unlinking"},
             at[p].job.kind \in {"reset", "hide", "delete"},
             q = "unlinking" => at[p].job.kind \in {"reset", "hide"}
      PROVE  /\ Sound(p, [at[p] EXCEPT !.pc = q])
             /\ \A S \in SUBSET Ids : /\ Sound(p, [at[p] EXCEPT !.pc = q, !.left = S])
                                      /\ [at[p] EXCEPT !.pc = q, !.left = S] \in Place
  <2>1. at[p].job \in Jobs /\ q \in ListLocked
    BY <1>1, <1>9 DEF Sound, ListLocked
  <2> QED BY <1>1, <1>2, <1>9, <2>1, ListEdit
<1>10. CASE ResetReadsDir(p)
  <2>1. PICK h \in 0..MaxId : at' = [at EXCEPT ![p].pc = IF h > 0 THEN "mark" ELSE "unlink", ![p].high = h]
    BY <1>10 DEF ResetReadsDir
  <2> DEFINE q == IF h > 0 THEN "mark" ELSE "unlink"
             r == [at[p] EXCEPT !.pc = q, !.high = h]
  <2>2. at[p].job \in Jobs /\ at[p].job.kind \in {"reset", "hide"} /\ q \in ListLocked \ {"fill"}
    BY <1>1, <1>10 DEF ResetReadsDir, At, Kind, Sound, ListLocked
  <2>3. Edited(at[p], r, q)
    BY <1>2
  <2>4. r \in Place /\ Sound(p, r)
    BY <1>1, <2>2, <2>3, ListEdit
  <2> QED BY <1>1, <2>1, <2>4 DEF Goes
<1>11. CASE ComparesMark(p)
  BY <1>1, <1>9, <1>11, MovesGoes DEF ComparesMark, At, Kind, ListLocked
<1>12. CASE MarkTruncates(p) \/ MarkWrites(p)
  BY <1>1, <1>9, <1>12, MovesGoes DEF MarkTruncates, MarkWrites, At, Sound, ListLocked
<1>13. CASE DeleteUnlinks(p)
  <2>1. at[p].pc = "unlink" /\ at[p].job \in Jobs /\ at[p].job.kind = "delete"
    BY <1>1, <1>13 DEF DeleteUnlinks, At, Kind, Sound
  <2>2. Edited(at[p], [at[p] EXCEPT !.pc = "readdir"], "readdir")
    BY <1>2
  <2>3. Sound(p, [at[p] EXCEPT !.pc = "readdir"])
    BY <2>1, <2>2 DEF Edited, Sound, Holding, ListLocked
  <2> QED BY <1>13, <2>3, MovesGoes, RestsGoes DEF DeleteUnlinks
<1>14. CASE ResetListsFiles(p)
  <2>1. at[p].pc \in ListLocked /\ at[p].job.kind \in {"reset", "hide"} /\ Present \in SUBSET Ids
    BY <1>14 DEF ResetListsFiles, At, Kind, ListLocked, Present
  <2> QED BY <1>1, <1>9, <1>14, <2>1 DEF ResetListsFiles, Goes
<1>15. ASSUME NEW t \in Ids, ResetUnlinks(p, t) PROVE Goes(p)
  <2> DEFINE r == [at[p] EXCEPT !.left = at[p].left \ {t}]
  <2>1. at[p].pc = "unlinking" /\ at[p].left \ {t} \in SUBSET Ids
    BY <1>1, <1>15 DEF ResetUnlinks, At
  <2>2. Edited(at[p], r, "unlinking")
    BY <1>1, <2>1, PlaceEdits
  <2>3. at[p].job \in Jobs /\ at[p].job.kind \in {"reset", "hide"} /\ "unlinking" \in ListLocked \ {"fill"}
    BY <1>1, <2>1 DEF Sound, ListLocked
  <2>4. r \in Place /\ Sound(p, r)
    BY <1>1, <2>2, <2>3, ListEdit
  <2>5. at' = [at EXCEPT ![p] = r]
    BY <1>1, <1>15 DEF ResetUnlinks
  <2> QED BY <2>4, <2>5 DEF Goes
<1> QED BY <1>3, <1>5, <1>6, <1>7, <1>8, <1>10, <1>11, <1>12, <1>13, <1>14, <1>15 DEF ListStep

LEMMA CrashGoes ==
  ASSUME TypeInv, NEW p \in Agents, Crash(p)
  PROVE  Goes(p)
  BY RestsGoes DEF Crash

\* TypeOK of what is on the disk.
DiskOK ==
  /\ file \in [Ids -> {"absent", "whole", "torn"}] /\ data \in [Ids -> Task]
  /\ mark \in 0..MaxId /\ markWhole \in BOOLEAN
  /\ listLock \in Agents \cup {None} /\ taskLock \in [Ids -> Agents \cup {None}]
  /\ jobsLeft \in [Agents -> 0..MaxJobs] /\ assigned \subseteq Ids

LEMMA BeginsDisk ==
  ASSUME TypeInv, NEW p \in Agents, NEW j \in Jobs, Begins(p, j)
  PROVE  DiskOK'
<1>1. DiskOK
  BY DEF TypeInv, TypeOK, DiskOK
<1>2. jobsLeft' \in [Agents -> 0..MaxJobs]
  <2>1. jobsLeft[p] > 0 /\ jobsLeft[p] \in 0..MaxJobs /\ jobsLeft' = [jobsLeft EXCEPT ![p] = @ - 1]
    BY <1>1 DEF Begins, DiskOK
  <2>2. jobsLeft[p] - 1 \in 0..MaxJobs
    BY <2>1
  <2> QED BY <1>1, <2>1, <2>2 DEF DiskOK
<1> QED BY <1>1, <1>2 DEF DiskOK, Begins, files, markFile

LEMMA UpdateStepDisk ==
  ASSUME TypeInv, NEW p \in Agents, UpdateStep(p)
  PROVE  DiskOK'
<1> USE DEF files, markFile
<1>1. DiskOK /\ at[p].pc \in Places /\ at[p].base \in Task /\ Sound(p, at[p])
  BY DEF TypeInv, TypeOK, DiskOK, Place
<1>2. Locks(p) \/ Releases(p) => taskLock' \in [Ids -> Agents \cup {None}]
  BY <1>1 DEF Locks, Releases, DiskOK
<1>3. CASE Checks(p) \/ LockFails(p)
  BY <1>1, <1>3 DEF Checks, LockFails, DiskOK
<1>4. CASE TakesTaskLock(p) \/ Rereads(p)
  BY <1>1, <1>2, <1>4 DEF TakesTaskLock, Rereads, DiskOK
<1>5. CASE Truncates(p)
  BY <1>1, <1>5 DEF Truncates, DiskOK
<1>6. CASE Writes(p)
  <2>1. at[p].upd \in Updates
    BY <1>1, <1>6 DEF Writes, At, Sound, Holding
  <2>2. Content(at[p].base, at[p].upd) \in Task
    BY <1>1, <2>1, ContentType
  <2>3. file' \in [Ids -> {"absent", "whole", "torn"}] /\ data' \in [Ids -> Task]
    BY <1>1, <1>6, <2>2 DEF Writes, Puts, DiskOK
  <2> QED BY <1>1, <1>2, <1>6, <2>3 DEF Writes, DiskOK
<1> QED BY <1>3, <1>4, <1>5, <1>6 DEF UpdateStep

LEMMA ReadStepDisk ==
  ASSUME TypeInv, NEW p \in Agents, ReadStep(p)
  PROVE  DiskOK'
<1> USE DEF files, markFile
<1>1. DiskOK
  BY DEF TypeInv, TypeOK, DiskOK
<1>2. taskLock' = taskLock \/ Releases(p)
  BY DEF ReadStep, Judges, ReadsDirectory, Reads, ClaimJudgesBlockers, JobTurnsToUpdates, HideDecides
<1>3. UNCHANGED <<files, markFile, listLock, jobsLeft, assigned>>
  BY DEF ReadStep, Judges, ReadsDirectory, Reads, ClaimJudgesBlockers, JobTurnsToUpdates, HideDecides
<1> QED BY <1>1, <1>2, <1>3 DEF DiskOK, Releases

LEMMA ListStepDisk ==
  ASSUME TypeInv, NEW p \in Agents, ListStep(p)
  PROVE  DiskOK'
<1> USE DEF files, markFile
<1>1. DiskOK /\ Sound(p, at[p]) /\ at[p].high \in 0..MaxId
  BY DEF TypeInv, TypeOK, DiskOK, Place
<1>2. CASE TakesListLock(p)
  BY <1>1, <1>2 DEF TakesListLock, DiskOK
<1>3. CASE CreateReadsDir(p) \/ CreateReadsMark(p) \/ ResetReadsDir(p) \/ ComparesMark(p) \/ ResetListsFiles(p)
  BY <1>1, <1>3 DEF CreateReadsDir, CreateReadsMark, ResetReadsDir, ComparesMark, ResetListsFiles, DiskOK
<1>4. CASE CreateTruncates(p)
  <2>1. at[p].high + 1 \in Ids
    BY <1>1, <1>4, IdsBound DEF CreateTruncates
  <2> QED BY <1>1, <1>4, <2>1 DEF CreateTruncates, DiskOK
<1>5. CASE CreateWrites(p)
  BY <1>1, <1>5, FreshType DEF CreateWrites, Puts, DiskOK
<1>6. CASE MarkTruncates(p) \/ MarkWrites(p)
  BY <1>1, <1>6 DEF MarkTruncates, MarkWrites, DiskOK
<1>7. CASE DeleteUnlinks(p) \/ ResetEnds(p) \/ \E t \in Ids : ResetUnlinks(p, t)
  BY <1>1, <1>7 DEF DeleteUnlinks, ResetEnds, ResetUnlinks, DiskOK
<1> QED BY <1>2, <1>3, <1>4, <1>5, <1>6, <1>7 DEF ListStep

LEMMA CrashDisk ==
  ASSUME TypeInv, NEW p \in Agents, Crash(p)
  PROVE  DiskOK'
<1>1. DiskOK /\ 0 \in 0..MaxJobs
  BY DEF TypeInv, TypeOK, DiskOK
<1> QED BY <1>1 DEF Crash, DiskOK, files, markFile

LEMMA NextType == TypeInv /\ [Next]_vars => TypeInv'
<1> SUFFICES ASSUME TypeInv, [Next]_vars PROVE TypeInv'
  OBVIOUS
<1>1. ASSUME NEW p \in Agents, Goes(p), DiskOK' PROVE TypeInv'
  BY <1>1, GoesSound DEF TypeInv, TypeOK, DiskOK
<1>2. CASE UNCHANGED vars
  BY <1>2 DEF vars, files, markFile, TypeInv, TypeOK
<1>3. ASSUME NEW p \in Agents,
             (\E j \in Jobs : Begins(p, j)) \/ UpdateStep(p) \/ ReadStep(p) \/ ListStep(p) \/ Crash(p)
      PROVE  Goes(p) /\ DiskOK'
  BY <1>3, BeginsGoes, UpdateStepGoes, ReadStepGoes, ListStepGoes, CrashGoes,
     BeginsDisk, UpdateStepDisk, ReadStepDisk, ListStepDisk, CrashDisk
<1> QED BY <1>1, <1>2, <1>3 DEF Next, Quiet

LEMMA InitType == Init => TypeInv
<1> SUFFICES ASSUME Init PROVE TypeInv
  OBVIOUS
<1>1. file \in [Ids -> {"absent", "whole", "torn"}]
  BY DEF Init
<1>2. data \in [Ids -> Task]
  BY DEF Init, Task, Fresh, Statuses
<1>3. at \in [Agents -> Place] /\ \A p \in Agents : Sound(p, at[p])
  BY RestingSound DEF Init
<1>4. assigned \subseteq Ids
  BY IdsBound DEF Init
<1>5. mark \in 0..MaxId /\ markWhole \in BOOLEAN
  BY IdsBound DEF Init
<1>6. jobsLeft \in [Agents -> 0..MaxJobs]
  <2>1. MaxJobs \in 0..MaxJobs
    BY BoundsAssumption
  <2> QED BY <2>1 DEF Init
<1>7. listLock \in Agents \cup {None} /\ taskLock \in [Ids -> Agents \cup {None}]
  BY DEF Init
<1> QED BY <1>1, <1>2, <1>3, <1>4, <1>5, <1>6, <1>7 DEF TypeOK, TypeInv

\* Type correctness: every value the agents and the disk take, whatever calls are made.
THEOREM TypeCorrect == Spec => []TypeOK
<1>1. TypeInv => TypeOK
  BY DEF TypeInv
<1> QED BY <1>1, InitType, NextType, PTL DEF Spec

--------------------------------------------------------------------------------
(* Locks *)

TaskLockInv ==
  \A p \in Agents :
    /\ Holding(at[p]) => taskLock[at[p].id] = p
    /\ \A t \in Ids : taskLock[t] = p => Holding(at[p]) /\ at[p].id = t

ListLockInv == \A p \in Agents : Listing(at[p]) <=> listLock = p

LEMMA GoesOthers ==
  ASSUME TypeInv, NEW p \in Agents, Goes(p)
  PROVE  \A q \in Agents \ {p} : at'[q] = at[q]
  BY DEF TypeInv, TypeOK, Goes

LEMMA TaskLockKept ==
  ASSUME TypeInv, TaskLockInv, NEW p \in Agents, Goes(p), taskLock' = taskLock,
         Holding(at[p])' <=> Holding(at[p]), Holding(at[p]) => at[p].id' = at[p].id
  PROVE  TaskLockInv'
<1>1. \A q \in Agents \ {p} : at'[q] = at[q]
  BY GoesOthers
<1> SUFFICES ASSUME NEW q \in Agents
             PROVE  /\ Holding(at[q])' => taskLock'[at'[q].id] = q
                    /\ \A t \in Ids : taskLock'[t] = q => Holding(at[q])' /\ at'[q].id = t
  BY DEF TaskLockInv
<1>2. CASE q = p
  BY <1>2 DEF TaskLockInv
<1>3. CASE q # p
  BY <1>1, <1>3 DEF TaskLockInv, Holding
<1> QED BY <1>2, <1>3

LEMMA TaskLockTaken ==
  ASSUME TypeInv, TaskLockInv, NEW p \in Agents, Goes(p), taskLock[at[p].id] = None, Locks(p),
         at[p].id \in Ids, ~Holding(at[p]), Holding(at[p])', at[p].id' = at[p].id
  PROVE  TaskLockInv'
<1>1. \A q \in Agents \ {p} : at'[q] = at[q]
  BY GoesOthers
<1>2. taskLock \in [Ids -> Agents \cup {None}] /\ taskLock' = [taskLock EXCEPT ![at[p].id] = p]
  BY DEF TypeInv, TypeOK, Locks
<1> SUFFICES ASSUME NEW q \in Agents
             PROVE  /\ Holding(at[q])' => taskLock'[at'[q].id] = q
                    /\ \A t \in Ids : taskLock'[t] = q => Holding(at[q])' /\ at'[q].id = t
  BY DEF TaskLockInv
<1>3. CASE q = p
  BY <1>2, <1>3 DEF TaskLockInv
<1>4. CASE q # p
  <2>1. Holding(at[q])' <=> Holding(at[q])
    BY <1>1, <1>4 DEF Holding
  <2>2. Holding(at[q]) => taskLock[at[q].id] = q /\ at[q].id # at[p].id
    BY AgentsAssumption DEF TaskLockInv
  <2> QED BY <1>1, <1>2, <1>4, <2>1, <2>2 DEF TaskLockInv
<1> QED BY <1>3, <1>4

LEMMA TaskLockReleased ==
  ASSUME TypeInv, TaskLockInv, NEW p \in Agents, Goes(p), Releases(p),
         Holding(at[p]), ~Holding(at[p])'
  PROVE  TaskLockInv'
<1>1. \A q \in Agents \ {p} : at'[q] = at[q]
  BY GoesOthers
<1>2. taskLock \in [Ids -> Agents \cup {None}] /\ taskLock' = [taskLock EXCEPT ![at[p].id] = None]
  BY DEF TypeInv, TypeOK, Releases
<1>3. taskLock[at[p].id] = p /\ \A t \in Ids : taskLock[t] = p => t = at[p].id
  BY DEF TaskLockInv
<1> SUFFICES ASSUME NEW q \in Agents
             PROVE  /\ Holding(at[q])' => taskLock'[at'[q].id] = q
                    /\ \A t \in Ids : taskLock'[t] = q => Holding(at[q])' /\ at'[q].id = t
  BY DEF TaskLockInv
<1>4. CASE q = p
  BY <1>2, <1>3, <1>4, AgentsAssumption
<1>5. CASE q # p
  <2>1. Holding(at[q])' <=> Holding(at[q])
    BY <1>1, <1>5 DEF Holding
  <2>2. Holding(at[q]) => taskLock[at[q].id] = q /\ at[q].id # at[p].id
    BY <1>3, <1>5 DEF TaskLockInv
  <2>3. \A t \in Ids : taskLock'[t] = q => taskLock[t] = q
    BY <1>2, AgentsAssumption
  <2>4. \A t \in Ids : t # at[p].id => taskLock'[t] = taskLock[t]
    BY <1>2
  <2>5. Holding(at[q]) => at[q].id \in Ids
    BY DEF TypeInv, Sound
  <2> QED BY <1>1, <1>5, <2>1, <2>2, <2>3, <2>4, <2>5 DEF TaskLockInv
<1> QED BY <1>4, <1>5

LEMMA ListLockKept ==
  ASSUME TypeInv, ListLockInv, NEW p \in Agents, Goes(p), listLock' = listLock,
         Listing(at[p])' <=> Listing(at[p])
  PROVE  ListLockInv'
<1>1. \A q \in Agents \ {p} : at'[q] = at[q]
  BY GoesOthers
<1>2. \A q \in Agents : Listing(at[q])' <=> Listing(at[q])
  BY <1>1 DEF Listing
<1> QED BY <1>2 DEF ListLockInv

LEMMA ListLockChanged ==
  ASSUME TypeInv, ListLockInv, NEW p \in Agents, Goes(p),
         \/ listLock = None /\ listLock' = p /\ Listing(at[p])'
         \/ listLock = p /\ listLock' = None /\ ~Listing(at[p])'
  PROVE  ListLockInv'
<1>1. \A q \in Agents \ {p} : at'[q] = at[q]
  BY GoesOthers
<1>2. \A q \in Agents \ {p} : (Listing(at[q])' <=> Listing(at[q])) /\ ~Listing(at[q])
  BY <1>1, AgentsAssumption DEF Listing, ListLockInv
<1> QED BY <1>2, AgentsAssumption DEF ListLockInv

LockInv == TaskLockInv /\ ListLockInv

\* An agent that rests or turns to its next update holds no lock.
LEMMA FreeAfter ==
  ASSUME TypeInv, NEW p \in Agents, Rests(p) \/ \E T : Proceeds(p, T)
  PROVE  ~Holding(at[p])' /\ ~Listing(at[p])' /\ at'[p].pc \in {"rest", "check"}
<1>1. at \in [Agents -> Place] /\ at[p] \in Place
  BY DEF TypeInv, TypeOK
<1>2. CASE Rests(p)
  <2>1. at'[p] = Resting
    BY <1>1, <1>2 DEF Rests
  <2> QED BY <2>1, RestingType DEF Holding, Listing, ListLocked
<1>3. ASSUME NEW e, NEW T,
             at' = [at EXCEPT ![p] = [at[p] EXCEPT !.pc = "check", !.id = e[1], !.upd = e[2],
                                                   !.left = {}, !.seen = {}, !.todo = T \ {e}]]
      PROVE  at'[p].pc = "check"
  BY <1>1, <1>3 DEF Place
<1>4. Rests(p) \/ at'[p].pc = "check"
  BY <1>3 DEF Proceeds
<1> QED BY <1>2, <1>4 DEF Holding, Listing, ListLocked

\* An agent that moves does so with its job and its task.
LEMMA MovedTo ==
  ASSUME TypeInv, NEW p \in Agents, NEW q, Moves(p, q)
  PROVE  at'[p].pc = q /\ at'[p].job = at[p].job /\ at'[p].id = at[p].id /\ at'[p].upd = at[p].upd
  BY DEF TypeInv, TypeOK, Place, Moves

LEMMA UpdateStepLocks ==
  ASSUME TypeInv, LockInv, NEW p \in Agents, UpdateStep(p)
  PROVE  LockInv'
<1> USE DEF LockInv
<1>1. Goes(p) /\ Sound(p, at[p]) /\ at \in [Agents -> Place] /\ at[p] \in Place
  BY UpdateStepGoes DEF TypeInv, TypeOK
<1>2. CASE Checks(p)
  <2>1. at[p].pc = "check" /\ ~Holding(at[p]) /\ ~Listing(at[p])
    BY <1>2 DEF Checks, At, Holding, Listing, ListLocked
  <2>2. ~Holding(at[p])' /\ ~Listing(at[p])'
    <3>1. Moves(p, "lock") => at'[p].pc = "lock"
      BY MovedTo
    <3> QED BY <1>2, <3>1, FreeAfter DEF Checks, Holding, Listing, ListLocked
  <2> QED BY <1>1, <1>2, <2>1, <2>2, TaskLockKept, ListLockKept DEF Checks
<1>3. CASE TakesTaskLock(p)
  <2>1. at[p].pc = "lock" /\ ~Holding(at[p]) /\ ~Listing(at[p]) /\ at[p].id \in Ids
    BY <1>1, <1>3 DEF TakesTaskLock, At, Holding, Listing, ListLocked, Sound
  <2>2. at'[p].pc \in {"judge", "reread"} /\ at'[p].id = at[p].id
    BY <1>3, MovedTo DEF TakesTaskLock
  <2>3. Holding(at[p])' /\ ~Listing(at[p])'
    BY <2>2 DEF Holding, Listing, ListLocked
  <2> QED BY <1>1, <1>3, <2>1, <2>2, <2>3, TaskLockTaken, ListLockKept DEF TakesTaskLock
<1>4. CASE LockFails(p)
  <2>1. ~Holding(at[p]) /\ ~Listing(at[p])
    BY <1>4 DEF LockFails, At, Holding, Listing, ListLocked
  <2> QED BY <1>1, <1>4, <2>1, FreeAfter, TaskLockKept, ListLockKept DEF LockFails
<1>5. CASE Rereads(p)
  <2>1. at[p].pc = "reread" /\ Holding(at[p]) /\ ~Listing(at[p])
    BY <1>5 DEF Rereads, At, Holding, Listing, ListLocked
  <2>2. CASE file[at[p].id] = "whole"
    <3>1. at'[p].pc = "truncate" /\ at'[p].id = at[p].id
      BY <1>1, <1>5, <2>2 DEF Rereads, Place
    <3>2. Holding(at[p])' /\ ~Listing(at[p])'
      BY <3>1 DEF Holding, Listing, ListLocked
    <3> QED BY <1>1, <1>5, <2>1, <2>2, <3>1, <3>2, TaskLockKept, ListLockKept DEF Rereads
  <2>3. CASE file[at[p].id] # "whole"
    BY <1>1, <1>5, <2>1, <2>3, FreeAfter, TaskLockReleased, ListLockKept DEF Rereads
  <2> QED BY <2>2, <2>3
<1>6. CASE Truncates(p)
  <2>1. at[p].pc = "truncate" /\ Holding(at[p]) /\ ~Listing(at[p])
    BY <1>6 DEF Truncates, At, Holding, Listing, ListLocked
  <2>2. at'[p].pc = "write" /\ at'[p].id = at[p].id
    BY <1>6, MovedTo DEF Truncates
  <2>3. Holding(at[p])' /\ ~Listing(at[p])'
    BY <2>2 DEF Holding, Listing, ListLocked
  <2> QED BY <1>1, <1>6, <2>1, <2>2, <2>3, TaskLockKept, ListLockKept DEF Truncates
<1>7. CASE Writes(p)
  <2>1. at[p].pc = "write" /\ Holding(at[p]) /\ ~Listing(at[p])
    BY <1>7 DEF Writes, At, Holding, Listing, ListLocked
  <2> QED BY <1>1, <1>7, <2>1, FreeAfter, TaskLockReleased, ListLockKept DEF Writes
<1> QED BY <1>2, <1>3, <1>4, <1>5, <1>6, <1>7 DEF UpdateStep

LEMMA ReadStepLocks ==
  ASSUME TypeInv, LockInv, NEW p \in Agents, ReadStep(p)
  PROVE  LockInv'
<1> USE DEF LockInv
<1>1. Goes(p) /\ Sound(p, at[p]) /\ at \in [Agents -> Place] /\ at[p] \in Place
  BY ReadStepGoes DEF TypeInv, TypeOK
<1>2. at[p].pc \notin ListLocked /\ ~Listing(at[p]) /\ listLock' = listLock
  BY DEF ReadStep, Judges, ReadsDirectory, Reads, ClaimJudgesBlockers, JobTurnsToUpdates,
         HideDecides, At, Listing, ListLocked
<1>3. CASE Judges(p)
  <2>1. at[p].pc = "judge" /\ Holding(at[p]) /\ at[p].job.kind = "claim"
    BY <1>1, <1>3 DEF Judges, At, Holding, Sound
  <2>2. CASE at' = [at EXCEPT ![p].pc = "read", ![p].left = data[at[p].id].blockedBy \cap Present]
             /\ UNCHANGED taskLock
    <3>1. at'[p].pc = "read" /\ at'[p].id = at[p].id /\ at'[p].job = at[p].job
      BY <1>1, <2>2 DEF Place
    <3>2. Holding(at[p])' /\ ~Listing(at[p])'
      BY <2>1, <3>1 DEF Holding, Listing, ListLocked
    <3> QED BY <1>1, <1>2, <2>1, <2>2, <3>1, <3>2, TaskLockKept, ListLockKept
  <2>3. CASE Releases(p) /\ Rests(p)
    BY <1>1, <1>2, <2>1, <2>3, FreeAfter, TaskLockReleased, ListLockKept
  <2> QED BY <1>3, <2>2, <2>3 DEF Judges
<1>4. CASE ReadsDirectory(p)
  <2>1. at[p].pc = "readdir" /\ ~Holding(at[p]) /\ at[p].job.kind # "claim"
    BY <1>1, <1>4 DEF ReadsDirectory, At, Holding, Sound
  <2>2. at'[p].pc = "read" /\ at'[p].job = at[p].job
    BY <1>1, <1>4 DEF ReadsDirectory, Place
  <2>3. ~Holding(at[p])' /\ ~Listing(at[p])'
    BY <2>1, <2>2 DEF Holding, Listing, ListLocked
  <2> QED BY <1>1, <1>2, <1>4, <2>1, <2>3, TaskLockKept, ListLockKept DEF ReadsDirectory
<1>5. ASSUME NEW t \in Ids, Reads(p, t) PROVE LockInv'
  <2>1. at'[p].pc = at[p].pc /\ at'[p].job = at[p].job /\ at'[p].id = at[p].id
    BY <1>1, <1>5 DEF Reads, Place
  <2>2. (Holding(at[p])' <=> Holding(at[p])) /\ ~Listing(at[p])'
    BY <1>2, <2>1 DEF Holding, Listing
  <2> QED BY <1>1, <1>2, <1>5, <2>1, <2>2, TaskLockKept, ListLockKept DEF Reads
<1>6. CASE ClaimJudgesBlockers(p)
  <2>1. at[p].pc = "read" /\ Holding(at[p])
    BY <1>6 DEF ClaimJudgesBlockers, At, Holding, Claiming, Kind
  <2>2. CASE Releases(p) /\ Rests(p)
    BY <1>1, <1>2, <2>1, <2>2, FreeAfter, TaskLockReleased, ListLockKept
  <2>3. CASE Moves(p, "reread") /\ UNCHANGED taskLock
    <3>1. at'[p].pc = "reread" /\ at'[p].id = at[p].id
      BY <2>3, MovedTo
    <3>2. Holding(at[p])' /\ ~Listing(at[p])'
      BY <3>1 DEF Holding, Listing, ListLocked
    <3> QED BY <1>1, <1>2, <2>1, <2>3, <3>1, <3>2, TaskLockKept, ListLockKept
  <2> QED BY <1>6, <2>2, <2>3 DEF ClaimJudgesBlockers
<1>7. CASE JobTurnsToUpdates(p)
  <2>1. ~Holding(at[p]) /\ \E T : Proceeds(p, T)
    BY <1>7 DEF JobTurnsToUpdates, At, Holding
  <2> QED BY <1>1, <1>2, <1>7, <2>1, FreeAfter, TaskLockKept, ListLockKept DEF JobTurnsToUpdates
<1>8. CASE HideDecides(p)
  <2>1. ~Holding(at[p])
    BY <1>8 DEF HideDecides, At, Kind, Holding
  <2>2. CASE at' = [at EXCEPT ![p].pc = "list lock", ![p].seen = {}]
    <3>1. at'[p].pc = "list lock"
      BY <1>1, <2>2 DEF Place
    <3>2. ~Holding(at[p])' /\ ~Listing(at[p])'
      BY <3>1 DEF Holding, Listing, ListLocked
    <3> QED BY <1>1, <1>2, <1>8, <2>1, <3>2, TaskLockKept, ListLockKept DEF HideDecides
  <2>3. CASE Rests(p)
    BY <1>1, <1>2, <1>8, <2>1, <2>3, FreeAfter, TaskLockKept, ListLockKept DEF HideDecides
  <2> QED BY <1>8, <2>2, <2>3 DEF HideDecides
<1> QED BY <1>3, <1>4, <1>5, <1>6, <1>7, <1>8 DEF ReadStep

LEMMA BeginsLocks ==
  ASSUME TypeInv, LockInv, NEW p \in Agents, NEW j \in Jobs, Begins(p, j)
  PROVE  LockInv'
<1> USE DEF LockInv
<1>1. Goes(p) /\ ~Holding(at[p]) /\ ~Listing(at[p])
  BY BeginsGoes DEF Begins, At, Holding, Listing, ListLocked
<1>2. PICK r : at' = [at EXCEPT ![p] = r] /\ ~Holding(r) /\ ~Listing(r)
  <2>1. CASE j.kind \in {"create", "reset"}
    <3> DEFINE e == [Starting(j) EXCEPT !.pc = "list lock"]
    <3>1. at' = [at EXCEPT ![p] = e]
      BY <2>1 DEF Begins
    <3>2. e.pc = "list lock"
      BY DEF Starting, Resting
    <3> QED BY <3>1, <3>2 DEF Holding, Listing, ListLocked
  <2>2. CASE j.kind \in {"hide", "unassign"}
    <3> DEFINE e == [Starting(j) EXCEPT !.pc = "readdir"]
    <3>1. at' = [at EXCEPT ![p] = e]
      BY <2>2 DEF Begins
    <3>2. e.pc = "readdir"
      BY DEF Starting, Resting
    <3> QED BY <3>1, <3>2 DEF Holding, Listing, ListLocked
  <2>3. CASE j.kind = "delete"
    <3> DEFINE e == [Starting(j) EXCEPT !.pc = "mark", !.high = j.id]
    <3>1. at' = [at EXCEPT ![p] = e]
      BY <2>3 DEF Begins
    <3>2. e.pc = "mark" /\ e.job = j
      BY DEF Starting, Resting
    <3> QED BY <2>3, <3>1, <3>2 DEF Holding, Listing
  <2>4. CASE j.kind = "claim"
    <3> DEFINE e == [Starting(j) EXCEPT !.pc = "check", !.id = j.id, !.upd = [owner |-> p],
                                        !.todo = {j.id} \X j.follow]
    <3>1. at' = [at EXCEPT ![p] = e]
      BY <2>4 DEF Begins
    <3>2. e.pc = "check"
      BY DEF Starting, Resting
    <3> QED BY <3>1, <3>2 DEF Holding, Listing, ListLocked
  <2>5. ASSUME j.kind \in {"update", "block"}, NEW S, at' = [at EXCEPT ![p] = [Starting(j) EXCEPT !.pc = "read", !.left = S]]
        PROVE  \E e : at' = [at EXCEPT ![p] = e] /\ ~Holding(e) /\ ~Listing(e)
    <3> DEFINE e == [Starting(j) EXCEPT !.pc = "read", !.left = S]
    <3>1. e.pc = "read" /\ e.job = j
      BY DEF Starting, Resting
    <3> QED BY <2>5, <3>1 DEF Holding, Listing, ListLocked
  <2>6. CASE j.kind \in {"update", "block"}
    BY <2>5, <2>6 DEF Begins
  <2> QED BY <2>1, <2>2, <2>3, <2>4, <2>6, JobFields
<1>3. at'[p] = r
  BY <1>2 DEF TypeInv, TypeOK
<1>4. ~Holding(at[p])' /\ ~Listing(at[p])'
  BY <1>2, <1>3 DEF Holding, Listing
<1> QED BY <1>1, <1>4, TaskLockKept, ListLockKept DEF Begins

LEMMA ListStepLocks ==
  ASSUME TypeInv, LockInv, NEW p \in Agents, ListStep(p)
  PROVE  LockInv'
<1> USE DEF LockInv
<1>1. Goes(p) /\ Sound(p, at[p]) /\ at \in [Agents -> Place] /\ at[p] \in Place
  BY ListStepGoes DEF TypeInv, TypeOK
<1>2. at[p].pc \in ListLocked \cup {"list lock"} /\ ~Holding(at[p]) /\ taskLock' = taskLock
  BY DEF ListStep, TakesListLock, CreateReadsDir, CreateReadsMark, CreateTruncates, CreateWrites,
         ResetReadsDir, ComparesMark, MarkTruncates, MarkWrites, DeleteUnlinks, ResetListsFiles,
         ResetUnlinks, ResetEnds, At, Holding, ListLocked
<1>3. ASSUME at'[p].pc \in ListLocked, at'[p].job = at[p].job, at[p].pc \in ListLocked, listLock' = listLock
      PROVE  LockInv'
  <2>1. ~Holding(at[p])' /\ (Listing(at[p])' <=> Listing(at[p]))
    BY <1>3 DEF Holding, Listing, ListLocked
  <2> QED BY <1>1, <1>2, <1>3, <2>1, TaskLockKept, ListLockKept
<1>4. CASE TakesListLock(p)
  <2>1. at'[p].pc \in {"highest", "dir"} /\ at'[p].job = at[p].job
    BY <1>4, MovedTo DEF TakesListLock
  <2>2. ~Holding(at[p])' /\ Listing(at[p])'
    BY <1>1, <1>4, <2>1 DEF TakesListLock, At, Sound, Holding, Listing, ListLocked
  <2> QED BY <1>1, <1>2, <1>4, <2>2, TaskLockKept, ListLockChanged DEF TakesListLock
<1>5. CASE CreateReadsDir(p) \/ CreateReadsMark(p) \/ CreateTruncates(p)
  <2>1. at'[p].pc \in {"mark", "dir", "born", "fill"} /\ at'[p].job = at[p].job
    BY <1>1, <1>5 DEF CreateReadsDir, CreateReadsMark, CreateTruncates, Place
  <2>2. at[p].pc \in ListLocked /\ listLock' = listLock
    BY <1>5 DEF CreateReadsDir, CreateReadsMark, CreateTruncates, At, ListLocked
  <2> QED BY <1>3, <2>1, <2>2 DEF ListLocked
<1>6. CASE CreateWrites(p) \/ ResetEnds(p)
  <2>1. Listing(at[p])
    <3>1. CASE CreateWrites(p)
      BY <1>1, <3>1 DEF CreateWrites, At, Sound, Listing, ListLocked
    <3>2. CASE ResetEnds(p)
      BY <1>1, <3>2 DEF ResetEnds, At, Sound, Listing, ListLocked
    <3> QED BY <1>6, <3>1, <3>2
  <2> QED BY <1>1, <1>2, <1>6, <2>1, FreeAfter, TaskLockKept, ListLockChanged
          DEF CreateWrites, ResetEnds, ListLockInv
<1>7. CASE ResetReadsDir(p) \/ ResetListsFiles(p)
  <2>1. at'[p].pc \in {"mark", "unlink", "unlinking"} /\ at'[p].job = at[p].job
    <3>1. CASE ResetReadsDir(p)
      <4>1. PICK h \in 0..MaxId :
              at' = [at EXCEPT ![p].pc = IF h > 0 THEN "mark" ELSE "unlink", ![p].high = h]
        BY <3>1 DEF ResetReadsDir
      <4> QED BY <1>1, <4>1 DEF Place
    <3>2. CASE ResetListsFiles(p)
      BY <1>1, <3>2 DEF ResetListsFiles, Place
    <3> QED BY <1>7, <3>1, <3>2
  <2>2. at[p].pc \in ListLocked /\ listLock' = listLock
    BY <1>7 DEF ResetReadsDir, ResetListsFiles, At, ListLocked
  <2> QED BY <1>3, <2>1, <2>2 DEF ListLocked
<1>8. CASE ComparesMark(p) \/ MarkTruncates(p) \/ MarkWrites(p)
  <2>1. at'[p].pc \in {"raise", "raised", "unlink"} /\ at'[p].job = at[p].job
    BY <1>8, MovedTo DEF ComparesMark, MarkTruncates, MarkWrites
  <2>2. at[p].pc \in ListLocked /\ listLock' = listLock
    BY <1>8 DEF ComparesMark, MarkTruncates, MarkWrites, At, ListLocked
  <2> QED BY <1>3, <2>1, <2>2 DEF ListLocked
<1>9. CASE DeleteUnlinks(p)
  <2>1. ~Listing(at[p]) /\ listLock' = listLock
    BY <1>9 DEF DeleteUnlinks, Kind, Listing
  <2>2. ~Holding(at[p])' /\ ~Listing(at[p])'
    <3>1. Moves(p, "readdir") => at'[p].pc = "readdir"
      BY MovedTo
    <3> QED BY <1>9, <3>1, FreeAfter DEF DeleteUnlinks, Holding, Listing, ListLocked
  <2> QED BY <1>1, <1>2, <2>1, <2>2, TaskLockKept, ListLockKept
<1>10. ASSUME NEW t \in Ids, ResetUnlinks(p, t) PROVE LockInv'
  <2>1. at'[p].pc = at[p].pc /\ at'[p].job = at[p].job
    BY <1>1, <1>10 DEF ResetUnlinks, Place
  <2> QED BY <1>3, <1>10, <2>1 DEF ResetUnlinks, At, ListLocked
<1> QED BY <1>4, <1>5, <1>6, <1>7, <1>8, <1>9, <1>10 DEF ListStep

LEMMA CrashLocks ==
  ASSUME TypeInv, LockInv, NEW p \in Agents, Crash(p)
  PROVE  LockInv'
<1>1. Goes(p) /\ ~Holding(at[p])' /\ ~Listing(at[p])'
  BY CrashGoes, FreeAfter DEF Crash
<1>2. \A q \in Agents \ {p} : at'[q] = at[q]
  BY <1>1, GoesOthers
<1>3. \A q \in Agents \ {p} : (Holding(at[q])' <=> Holding(at[q])) /\ (Listing(at[q])' <=> Listing(at[q]))
  BY <1>2 DEF Holding, Listing
<1>4. \A t \in Ids : taskLock'[t] = IF taskLock[t] = p THEN None ELSE taskLock[t]
  BY DEF Crash
<1>5. TaskLockInv'
  <2> SUFFICES ASSUME NEW q \in Agents
               PROVE  /\ Holding(at[q])' => taskLock'[at'[q].id] = q
                      /\ \A t \in Ids : taskLock'[t] = q => Holding(at[q])' /\ at'[q].id = t
    BY DEF TaskLockInv
  <2>1. Holding(at[q]) => at[q].id \in Ids
    BY DEF TypeInv, Sound
  <2> QED BY <1>1, <1>2, <1>3, <1>4, <2>1, AgentsAssumption DEF LockInv, TaskLockInv
<1>6. ListLockInv'
  BY <1>1, <1>3, AgentsAssumption DEF LockInv, ListLockInv, Crash
<1> QED BY <1>5, <1>6 DEF LockInv

LEMMA NextLocks == TypeInv /\ LockInv /\ [Next]_vars => LockInv'
<1> SUFFICES ASSUME TypeInv, LockInv, [Next]_vars PROVE LockInv'
  OBVIOUS
<1>1. CASE UNCHANGED vars
  BY <1>1 DEF vars, LockInv, TaskLockInv, ListLockInv, Holding, Listing
<1>2. CASE \E p \in Agents : (\E j \in Jobs : Begins(p, j)) \/ UpdateStep(p) \/ ReadStep(p)
                            \/ ListStep(p) \/ Crash(p)
  BY <1>2, BeginsLocks, UpdateStepLocks, ReadStepLocks, ListStepLocks, CrashLocks
<1> QED BY <1>1, <1>2 DEF Next, Quiet

LEMMA InitLocks == Init => LockInv
<1> SUFFICES ASSUME Init PROVE LockInv
  OBVIOUS
<1>1. \A p \in Agents : at[p] = Resting
  BY DEF Init
<1>2. \A p \in Agents : ~Holding(at[p]) /\ ~Listing(at[p])
  BY <1>1, RestingType DEF Holding, Listing, ListLocked
<1> QED BY <1>2, AgentsAssumption DEF Init, LockInv, TaskLockInv, ListLockInv

\* Who holds a lock is in the part of its job that needs it: no return, exception or
\* crash leaves a lock of tasks.ts behind.
THEOREM LocksReturned == Spec => []NoLockLeft
<1>1. TypeInv /\ LockInv => NoLockLeft
  BY DEF LockInv, TaskLockInv, ListLockInv, Holding, Listing, NoLockLeft, TaskLocked, Kind
<1> QED BY <1>1, InitType, NextType, InitLocks, NextLocks, PTL DEF Spec

(* Claims *)

\* The agent has found its task free, under the lock it still holds.
Claimant(p, r) ==
  r.job.kind = "claim" /\ r.upd = [owner |-> p] /\ r.pc \in {"read", "reread", "truncate", "write"}

ClaimInv == \A p \in Agents : Claimant(p, at[p]) => data[at[p].id].owner \in {None, p}

LEMMA ClaimantHolds ==
  ASSUME LockInv, NEW p \in Agents, Claimant(p, at[p])
  PROVE  Holding(at[p]) /\ taskLock[at[p].id] = p
<1>1. Holding(at[p])
  BY DEF Claimant, Holding
<1> QED BY <1>1 DEF LockInv, TaskLockInv

\* An agent that writes no task stays the claimant it was.
LEMMA ClaimKept ==
  ASSUME TypeInv, ClaimInv, NEW p \in Agents, Goes(p), data' = data,
         Claimant(p, at[p])' => Claimant(p, at[p]) /\ at'[p].id = at[p].id
  PROVE  ClaimInv'
<1>1. \A q \in Agents \ {p} : at'[q] = at[q]
  BY GoesOthers
<1>2. \A q \in Agents \ {p} : (Claimant(q, at[q])' <=> Claimant(q, at[q])) /\ at'[q].id = at[q].id
  BY <1>1 DEF Claimant
<1> QED BY <1>2 DEF ClaimInv

\* An agent that is no claimant afterwards disturbs no claim if it holds the lock of
\* the task it writes, or writes a task that nobody owns.
LEMMA ClaimWritten ==
  ASSUME TypeInv, LockInv, ClaimInv, NEW p \in Agents, Goes(p), NEW t \in Ids, NEW r \in Task,
         data' = data \/ data' = [data EXCEPT ![t] = r],
         taskLock[t] = p \/ r.owner = None,
         ~Claimant(p, at[p])'
  PROVE  ClaimInv'
<1> SUFFICES ASSUME NEW q \in Agents, Claimant(q, at[q])' PROVE data'[at'[q].id].owner \in {None, q}
  BY DEF ClaimInv
<1>1. q # p /\ at'[q] = at[q]
  BY GoesOthers
<1>2. Claimant(q, at[q])
  BY <1>1 DEF Claimant
<1>3. data[at[q].id].owner \in {None, q} /\ taskLock[at[q].id] = q
  BY <1>2, ClaimantHolds DEF ClaimInv
<1>4. data \in [Ids -> Task] /\ at[q].id \in Ids
  BY <1>2, ClaimantHolds DEF TypeInv, TypeOK, Sound
<1>5. CASE t = at[q].id
  BY <1>1, <1>3, <1>4, <1>5
<1>6. CASE t # at[q].id
  BY <1>1, <1>3, <1>4, <1>6
<1> QED BY <1>5, <1>6

LEMMA NotClaimant ==
  ASSUME TypeInv, NEW p \in Agents, Rests(p) \/ \E T : Proceeds(p, T)
  PROVE  ~Claimant(p, at[p])'
  BY FreeAfter DEF Claimant

LEMMA UpdateStepClaims ==
  ASSUME TypeInv, LockInv, ClaimInv, NEW p \in Agents, UpdateStep(p)
  PROVE  ClaimInv'
<1>1. Goes(p) /\ Sound(p, at[p]) /\ at \in [Agents -> Place] /\ at[p] \in Place
  BY UpdateStepGoes DEF TypeInv, TypeOK
<1>2. CASE Checks(p)
  <2>1. ~Claimant(p, at[p])'
    <3>1. Moves(p, "lock") => at'[p].pc = "lock"
      BY MovedTo
    <3> QED BY <1>2, <3>1, NotClaimant DEF Checks, Claimant
  <2> QED BY <1>1, <1>2, <2>1, ClaimKept DEF Checks, files
<1>3. CASE TakesTaskLock(p)
  <2>1. /\ at'[p].pc = IF Claiming(p) THEN "judge" ELSE "reread"
        /\ at'[p].job = at[p].job /\ at'[p].upd = at[p].upd
    BY <1>3, MovedTo DEF TakesTaskLock
  <2>2. ~Claimant(p, at[p])'
    BY <2>1 DEF Claimant, Claiming, Kind
  <2> QED BY <1>1, <1>3, <2>2, ClaimKept DEF TakesTaskLock, files
<1>4. CASE LockFails(p)
  BY <1>1, <1>4, NotClaimant, ClaimKept DEF LockFails, files
<1>5. CASE Rereads(p)
  <2>1. at[p].pc = "reread" /\ data' = data
    BY <1>5 DEF Rereads, At, files
  <2>2. CASE file[at[p].id] = "whole"
    <3>1. at'[p].id = at[p].id /\ at'[p].job = at[p].job /\ at'[p].upd = at[p].upd
      BY <1>1, <1>5, <2>2 DEF Rereads, Place
    <3> QED BY <1>1, <2>1, <3>1, ClaimKept DEF Claimant
  <2>3. CASE file[at[p].id] # "whole"
    BY <1>1, <1>5, <2>1, <2>3, NotClaimant, ClaimKept DEF Rereads
  <2> QED BY <2>2, <2>3
<1>6. CASE Truncates(p)
  <2>1. at[p].pc = "truncate" /\ data' = data
    BY <1>6 DEF Truncates, At
  <2>2. at'[p].id = at[p].id /\ at'[p].job = at[p].job /\ at'[p].upd = at[p].upd
    BY <1>6, MovedTo DEF Truncates
  <2> QED BY <1>1, <2>1, <2>2, ClaimKept DEF Claimant
<1>7. CASE Writes(p)
  <2> DEFINE r == Content(at[p].base, at[p].upd)
  <2>1. at[p].pc = "write" /\ at[p].id \in Ids /\ at[p].upd \in Updates /\ at[p].base \in Task
    BY <1>1, <1>7 DEF Writes, At, Sound, Holding, Place
  <2>2. r \in Task
    BY <2>1, ContentType
  <2>3. taskLock[at[p].id] = p
    BY <2>1 DEF LockInv, TaskLockInv, Holding
  <2>4. data' = data \/ data' = [data EXCEPT ![at[p].id] = r]
    BY <1>7 DEF Writes, Puts, files
  <2> HIDE DEF r
  <2> QED BY <1>1, <1>7, <2>1, <2>2, <2>3, <2>4, NotClaimant, ClaimWritten DEF Writes
<1> QED BY <1>2, <1>3, <1>4, <1>5, <1>6, <1>7 DEF UpdateStep

LEMMA ReadStepClaims ==
  ASSUME TypeInv, LockInv, ClaimInv, NEW p \in Agents, ReadStep(p)
  PROVE  ClaimInv'
<1>1. Goes(p) /\ Sound(p, at[p]) /\ at \in [Agents -> Place] /\ at[p] \in Place
  BY ReadStepGoes DEF TypeInv, TypeOK
<1>2. data' = data
  BY DEF ReadStep, Judges, ReadsDirectory, Reads, ClaimJudgesBlockers, JobTurnsToUpdates,
         HideDecides, files
<1>3. CASE Judges(p)
  <2>1. CASE Rests(p)
    BY <1>1, <1>2, <2>1, NotClaimant, ClaimKept
  <2>2. CASE /\ data[at[p].id].owner \in {None, p}
             /\ at' = [at EXCEPT ![p].pc = "read", ![p].left = data[at[p].id].blockedBy \cap Present]
    <3>1. at'[p].id = at[p].id
      BY <1>1, <2>2 DEF Place
    <3>2. \A q \in Agents \ {p} : at'[q] = at[q]
      BY <1>1, GoesOthers
    <3> QED BY <1>2, <2>2, <3>1, <3>2 DEF ClaimInv, Claimant
  <2> QED BY <1>3, <2>1, <2>2 DEF Judges
<1>4. CASE ReadsDirectory(p)
  <2>1. at'[p].job = at[p].job /\ at[p].job.kind # "claim"
    BY <1>1, <1>4 DEF ReadsDirectory, At, Sound, Place
  <2> QED BY <1>1, <1>2, <2>1, ClaimKept DEF Claimant
<1>5. ASSUME NEW t \in Ids, Reads(p, t) PROVE ClaimInv'
  <2>1. /\ at'[p].pc = at[p].pc /\ at'[p].job = at[p].job /\ at'[p].id = at[p].id
        /\ at'[p].upd = at[p].upd
    BY <1>1, <1>5 DEF Reads, Place
  <2> QED BY <1>1, <1>2, <2>1, ClaimKept DEF Claimant
<1>6. CASE ClaimJudgesBlockers(p)
  <2>1. at[p].pc = "read"
    BY <1>6 DEF ClaimJudgesBlockers, At
  <2>2. CASE Rests(p)
    BY <1>1, <1>2, <2>2, NotClaimant, ClaimKept
  <2>3. CASE Moves(p, "reread")
    <3>1. at'[p].job = at[p].job /\ at'[p].id = at[p].id /\ at'[p].upd = at[p].upd
      BY <2>3, MovedTo
    <3> QED BY <1>1, <1>2, <2>1, <3>1, ClaimKept DEF Claimant
  <2> QED BY <1>6, <2>2, <2>3 DEF ClaimJudgesBlockers
<1>7. CASE JobTurnsToUpdates(p)
  BY <1>1, <1>2, <1>7, NotClaimant, ClaimKept DEF JobTurnsToUpdates
<1>8. CASE HideDecides(p)
  <2>1. at' = [at EXCEPT ![p].pc = "list lock", ![p].seen = {}] => at'[p].pc = "list lock"
    BY <1>1 DEF Place
  <2>2. ~Claimant(p, at[p])'
    BY <1>8, <2>1, NotClaimant DEF HideDecides, Claimant
  <2> QED BY <1>1, <1>2, <2>2, ClaimKept
<1> QED BY <1>3, <1>4, <1>5, <1>6, <1>7, <1>8 DEF ReadStep

LEMMA ListStepClaims ==
  ASSUME TypeInv, LockInv, ClaimInv, NEW p \in Agents, ListStep(p)
  PROVE  ClaimInv'
<1>1. Goes(p) /\ Sound(p, at[p]) /\ at \in [Agents -> Place] /\ at[p] \in Place
  BY ListStepGoes DEF TypeInv, TypeOK
<1>2. ~Claimant(p, at[p])'
  <2>1. \A q \in {"highest", "dir", "raise", "raised", "unlink", "readdir"} :
          Moves(p, q) => ~Claimant(p, at[p])'
    BY MovedTo DEF Claimant
  <2>2. CASE CreateReadsDir(p) \/ CreateReadsMark(p) \/ CreateTruncates(p)
    <3>1. at'[p].pc \in {"mark", "dir", "born", "fill"}
      BY <1>1, <2>2 DEF CreateReadsDir, CreateReadsMark, CreateTruncates, Place
    <3> QED BY <3>1 DEF Claimant
  <2>3. CASE ResetReadsDir(p)
    <3>1. PICK h \in 0..MaxId :
            at' = [at EXCEPT ![p].pc = IF h > 0 THEN "mark" ELSE "unlink", ![p].high = h]
      BY <2>3 DEF ResetReadsDir
    <3>2. at'[p].pc \in {"mark", "unlink"}
      BY <1>1, <3>1 DEF Place
    <3> QED BY <3>2 DEF Claimant
  <2>4. CASE ResetListsFiles(p)
    <3>1. at'[p].pc = "unlinking"
      BY <1>1, <2>4 DEF ResetListsFiles, Place
    <3> QED BY <3>1 DEF Claimant
  <2>5. ASSUME NEW t \in Ids, ResetUnlinks(p, t) PROVE ~Claimant(p, at[p])'
    <3>1. at'[p].pc = "unlinking"
      BY <1>1, <2>5 DEF ResetUnlinks, At, Place
    <3> QED BY <3>1 DEF Claimant
  <2>6. CASE TakesListLock(p) \/ ComparesMark(p) \/ MarkTruncates(p) \/ MarkWrites(p) \/ DeleteUnlinks(p)
    BY <2>1, <2>6, NotClaimant DEF TakesListLock, ComparesMark, MarkTruncates, MarkWrites, DeleteUnlinks
  <2>7. CASE CreateWrites(p) \/ ResetEnds(p)
    BY <2>7, NotClaimant DEF CreateWrites, ResetEnds
  <2> QED BY <2>2, <2>3, <2>4, <2>5, <2>6, <2>7 DEF ListStep
<1>3. CASE CreateWrites(p)
  <2>1. at[p].id \in Ids
    BY <1>1, <1>3 DEF CreateWrites, At, Sound
  <2>2. data' = data \/ data' = [data EXCEPT ![at[p].id] = Fresh]
    BY <1>3 DEF CreateWrites, Puts, files
  <2>3. Fresh.owner = None /\ Fresh \in Task
    BY FreshType DEF Fresh
  <2> QED BY <1>1, <1>2, <2>1, <2>2, <2>3, ClaimWritten
<1>4. CASE ~CreateWrites(p)
  <2>1. data' = data
    BY <1>4 DEF ListStep, TakesListLock, CreateReadsDir, CreateReadsMark, CreateTruncates,
         ResetReadsDir, ComparesMark, MarkTruncates, MarkWrites, DeleteUnlinks, ResetListsFiles,
         ResetUnlinks, ResetEnds, files
  <2> QED BY <1>1, <1>2, <2>1, ClaimKept
<1> QED BY <1>3, <1>4

LEMMA BeginsClaims ==
  ASSUME TypeInv, LockInv, ClaimInv, NEW p \in Agents, NEW j \in Jobs, Begins(p, j)
  PROVE  ClaimInv'
<1>1. Goes(p) /\ LockInv' /\ TypeInv
  BY BeginsGoes, BeginsLocks
<1>2. ~Claimant(p, at[p])'
  <2>1. ~Holding(at[p])'
    <3>1. \A t \in Ids : taskLock[t] # p
      BY DEF Begins, At, Holding, LockInv, TaskLockInv
    <3>2. Holding(at[p])' => at'[p].id \in Ids
      BY <1>1, GoesSound DEF Sound
    <3> QED BY <1>1, <3>1, <3>2 DEF Begins, LockInv, TaskLockInv
  <2> QED BY <2>1 DEF Claimant, Holding
<1> QED BY <1>1, <1>2, ClaimKept DEF Begins, files

LEMMA NextClaims == TypeInv /\ LockInv /\ ClaimInv /\ [Next]_vars => ClaimInv'
<1> SUFFICES ASSUME TypeInv, LockInv, ClaimInv, [Next]_vars PROVE ClaimInv'
  OBVIOUS
<1>1. CASE UNCHANGED vars
  BY <1>1 DEF vars, files, ClaimInv, Claimant
<1>2. ASSUME NEW p \in Agents, Crash(p) PROVE ClaimInv'
  BY <1>2, CrashGoes, NotClaimant, ClaimKept DEF Crash, files
<1>3. CASE \E p \in Agents : (\E j \in Jobs : Begins(p, j)) \/ UpdateStep(p) \/ ReadStep(p)
                            \/ ListStep(p) \/ Crash(p)
  BY <1>2, <1>3, BeginsClaims, UpdateStepClaims, ReadStepClaims, ListStepClaims
<1> QED BY <1>1, <1>3 DEF Next, Quiet

\* A claim never takes a task from another agent, whatever calls are made and wherever
\* agents crash: the owner claimTask found under the lock is still there when it writes.
THEOREM ClaimsNeverSteal == Spec => []ClaimsUncontested
<1>1. TypeInv /\ LockInv /\ ClaimInv => ClaimsUncontested
  BY DEF ClaimInv, Claimant, ClaimsUncontested, Claiming, Kind, At
<1>2. Init => ClaimInv
  <2> SUFFICES ASSUME Init, NEW p \in Agents PROVE ~Claimant(p, at[p])
    BY DEF ClaimInv
  <2>1. at[p] = Resting
    BY DEF Init
  <2> QED BY <2>1, RestingType DEF Claimant
<1> QED BY <1>1, <1>2, InitType, NextType, InitLocks, NextLocks, NextClaims, PTL DEF Spec
================================================================================
