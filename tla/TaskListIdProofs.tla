----------------------------- MODULE TaskListIdProofs ---------------------------
(* Proofs about the ids and the fields of TaskList's tasks.  That every id is      *)
(* given out once is proved of all calls but deletes: deleteTask takes no lock of  *)
(* the list, and an id it frees while a createTask is between its two reads may be *)
(* given out again.  That updates are kept is proved of all calls, as long as that *)
(* does not happen.                                                                *)
EXTENDS TaskListProofs

USE AgentsAssumption, JobsAssumption, BoundsAssumption

\* The calls that are made delete no single task.
NoDeletes == \A j \in Jobs : j.kind # "delete"

(* Numbers *)

\* Some file has the number i or a higher one.
BelowFile(i) == \E t \in Present : i <= t

\* createTask can find a number above every id that was given out.
Covered == \A i \in assigned : i <= ReadableMark \/ BelowFile(i)

\* What the agent that holds the lock of the list knows at place r of its job.  A create
\* that has read only the directory, or only the mark, can still read the other; a reset
\* raises the mark over all ids before it unlinks, and until then the highest file stays.
Ready(r) ==
  /\ r.pc = "dir" /\ r.job.kind = "create" => \A i \in assigned : i <= r.high \/ BelowFile(i)
  /\ r.pc = "mark" => \A i \in assigned : i <= r.high \/ i <= ReadableMark
  /\ r.pc = "born" => \A i \in assigned : i <= r.high
  /\ r.pc \in {"mark", "raise", "raised"} /\ r.job.kind # "create" => r.high \in Present
  /\ r.pc \in {"raise", "raised"} => \A i \in assigned : i <= r.high
  /\ r.pc \in {"unlink", "unlinking"} => \A i \in assigned : i <= ReadableMark

NumberInv == Covered /\ \A p \in Agents : Listing(at[p]) => Ready(at[p])

LEMMA IdsAreNumbers ==
  ASSUME TypeInv
  PROVE  /\ assigned \subseteq Nat /\ Present \subseteq Nat /\ ReadableMark \in Nat
         /\ \A p \in Agents : at[p].high \in Nat /\ at[p].high \in 0..MaxId
<1>1. Ids \subseteq Nat
  BY DEF Ids
<1>2. mark \in Nat /\ \A p \in Agents : at[p].high \in Nat /\ at[p].high \in 0..MaxId
  BY DEF TypeInv, TypeOK, Place
<1> QED BY <1>1, <1>2 DEF TypeInv, TypeOK, Present, ReadableMark

\* More files do no harm.
LEMMA NumberKept ==
  ASSUME TypeInv, NumberInv, NEW p \in Agents, Goes(p), UNCHANGED <<markFile, assigned>>,
         Present \subseteq Present', Listing(at[p])' => Ready(at[p])'
  PROVE  NumberInv'
<1>1. ReadableMark' = ReadableMark /\ assigned' = assigned
  BY DEF ReadableMark, markFile
<1>2. \A i : BelowFile(i) => BelowFile(i)'
  BY DEF BelowFile
<1>3. Covered'
  BY <1>1, <1>2 DEF NumberInv, Covered
<1>4. ASSUME NEW q \in Agents \ {p}, Listing(at[q])' PROVE Ready(at[q])'
  <2>1. at'[q] = at[q]
    BY GoesOthers
  <2>2. Ready(at[q])
    BY <1>4, <2>1 DEF NumberInv, Listing
  <2> QED BY <1>1, <1>2, <2>1, <2>2 DEF Ready
<1> QED BY <1>3, <1>4 DEF NumberInv

\* What the holder of the lock does disturbs nobody else who would need it.
LEMMA NumberHeld ==
  ASSUME TypeInv, LockInv', NEW p \in Agents, Goes(p), Listing(at[p])',
         Covered', Ready(at[p])'
  PROVE  NumberInv'
<1>1. listLock' = p
  BY DEF LockInv, ListLockInv
<1>2. \A q \in Agents : Listing(at[q])' => q = p
  BY <1>1 DEF LockInv, ListLockInv
<1> QED BY <1>2 DEF NumberInv

\* An agent that is not at the list does nothing to the numbers.
LEMMA NumberElsewhere ==
  ASSUME TypeInv, LockInv, LockInv', NumberInv, NEW p \in Agents, Goes(p), ~Listing(at[p]),
         UNCHANGED <<markFile, assigned, listLock>>, Present \subseteq Present'
  PROVE  NumberInv'
<1>1. listLock # p
  BY DEF LockInv, ListLockInv
<1>2. ~Listing(at[p])'
  BY <1>1 DEF LockInv, ListLockInv
<1> QED BY <1>2, NumberKept

LEMMA BeginsNumbers ==
  ASSUME TypeInv, LockInv, LockInv', NumberInv, NEW p \in Agents, NEW j \in Jobs, Begins(p, j)
  PROVE  NumberInv'
<1>1. ~Listing(at[p]) /\ UNCHANGED <<markFile, assigned, listLock, files>>
  BY DEF Begins, At, Listing, ListLocked
<1>2. Present' = Present
  BY <1>1 DEF Present, files
<1> QED BY <1>1, <1>2, BeginsGoes, NumberElsewhere

LEMMA UpdateStepNumbers ==
  ASSUME TypeInv, LockInv, LockInv', NumberInv, NEW p \in Agents, UpdateStep(p)
  PROVE  NumberInv'
<1>1. ~Listing(at[p]) /\ UNCHANGED <<markFile, assigned, listLock>>
  BY DEF UpdateStep, Checks, TakesTaskLock, LockFails, Rereads, Truncates, Writes, At,
         Listing, ListLocked
<1>2. Present \subseteq Present'
  <2>1. file \in [Ids -> {"absent", "whole", "torn"}]
    BY DEF TypeInv, TypeOK
  <2>2. \/ file' = file
        \/ file' = [file EXCEPT ![at[p].id] = "torn"]
        \/ file' = [file EXCEPT ![at[p].id] = "whole"]
    BY DEF UpdateStep, Checks, TakesTaskLock, LockFails, Rereads, Truncates, Writes, Puts, files
  <2> QED BY <2>1, <2>2 DEF Present
<1> QED BY <1>1, <1>2, UpdateStepGoes, NumberElsewhere

LEMMA ReadStepNumbers ==
  ASSUME TypeInv, LockInv, LockInv', NumberInv, NEW p \in Agents, ReadStep(p)
  PROVE  NumberInv'
<1>1. ~Listing(at[p]) /\ UNCHANGED <<markFile, assigned, listLock, files>>
  BY DEF ReadStep, Judges, ReadsDirectory, Reads, ClaimJudgesBlockers, JobTurnsToUpdates,
         HideDecides, At, Listing, ListLocked
<1>2. Present' = Present
  BY <1>1 DEF Present, files
<1> QED BY <1>1, <1>2, ReadStepGoes, NumberElsewhere

LEMMA CrashNumbers ==
  ASSUME TypeInv, NumberInv, NEW p \in Agents, Crash(p)
  PROVE  NumberInv'
<1>1. ~Listing(at[p])' /\ UNCHANGED <<markFile, assigned, files>>
  BY FreeAfter DEF Crash
<1>2. Present' = Present
  BY <1>1 DEF Present, files
<1> QED BY <1>1, <1>2, CrashGoes, NumberKept

\* Every place of the list but those before the lock is held with it.
LEMMA ListStepListing ==
  ASSUME NoDeletes, TypeInv, NEW p \in Agents, ListStep(p), ~At(p, "list lock")
  PROVE  Listing(at[p]) /\ ~DeleteUnlinks(p) /\ at[p].pc \notin {"readdir", "rest"}
<1>1. at[p].pc \in ListLocked
  BY DEF ListStep, TakesListLock, CreateReadsDir, CreateReadsMark, CreateTruncates, CreateWrites,
         ResetReadsDir, ComparesMark, MarkTruncates, MarkWrites, DeleteUnlinks, ResetListsFiles,
         ResetUnlinks, ResetEnds, At, ListLocked
<1>2. at[p].job \in Jobs /\ at[p].job.kind \in {"create", "reset", "hide", "delete"}
  BY <1>1 DEF TypeInv, Sound, ListLocked
<1>3. at[p].job.kind # "delete"
  BY <1>2 DEF NoDeletes
<1> QED BY <1>1, <1>2, <1>3 DEF Listing, DeleteUnlinks, Kind, ListLocked

\* createTask: the number it ends up with is above every id.
LEMMA CreateNumbers ==
  ASSUME TypeInv, LockInv', NumberInv, NEW p \in Agents, Goes(p), Listing(at[p]),
         CreateReadsDir(p) \/ CreateReadsMark(p) \/ CreateTruncates(p) \/ CreateWrites(p)
  PROVE  NumberInv'
<1>1. /\ at \in [Agents -> Place] /\ at[p] \in Place /\ Ready(at[p]) /\ Covered
      /\ at[p].high \in Nat /\ assigned \subseteq Nat /\ Present \subseteq Nat /\ ReadableMark \in Nat
      /\ file \in [Ids -> {"absent", "whole", "torn"}]
  BY IdsAreNumbers DEF TypeInv, TypeOK, NumberInv
<1>2. CASE CreateReadsDir(p)
  <2>1. PICK h \in 0..MaxId :
          /\ IsHighest(h)
          /\ at' = [at EXCEPT ![p].pc = IF at[p].pc = "highest" THEN "mark" ELSE "born",
                              ![p].high = Larger(at[p].high, h)]
    BY <1>1, <1>2 DEF CreateReadsDir
  <2>2. PICK g \in Nat : g = Larger(at[p].high, h) /\ g >= at[p].high /\ g >= h
    BY <1>1 DEF Larger
  <2>3. /\ at'[p].pc = IF at[p].pc = "highest" THEN "mark" ELSE "born"
        /\ at'[p].high = g /\ at'[p].job = at[p].job /\ at[p].job.kind = "create"
        /\ at[p].pc \in {"highest", "dir"}
    BY <1>1, <1>2, <2>1, <2>2 DEF CreateReadsDir, Kind, Place
  <2>4. UNCHANGED <<markFile, assigned, files>>
    BY <1>2 DEF CreateReadsDir
  <2>5. \A i \in assigned : BelowFile(i) => i <= g
    BY <1>1, <2>1, <2>2 DEF IsHighest, BelowFile
  <2>6. \A i \in assigned : i <= at[p].high => i <= g
    BY <1>1, <2>2
  <2>7. \A i \in assigned : at[p].pc = "dir" => i <= g
    BY <1>1, <2>3, <2>5, <2>6 DEF Ready
  <2>8. \A i \in assigned : i <= g \/ i <= ReadableMark
    BY <1>1, <2>5 DEF Covered
  <2>9. ReadableMark' = ReadableMark /\ assigned' = assigned /\ Present' = Present
    BY <2>4 DEF ReadableMark, Present, files, markFile
  <2>10. Ready(at[p])'
    BY <2>3, <2>7, <2>8, <2>9 DEF Ready
  <2> QED BY <2>4, <2>9, <2>10, NumberKept
<1>3. CASE CreateReadsMark(p)
  <2>1. PICK g \in Nat : g = Larger(at[p].high, ReadableMark) /\ g >= at[p].high /\ g >= ReadableMark
    BY <1>1 DEF Larger
  <2>2. /\ at'[p].pc = IF at[p].pc = "highest" THEN "dir" ELSE "born"
        /\ at'[p].high = g /\ at'[p].job = at[p].job
        /\ at[p].pc \in {"highest", "mark"}
    BY <1>1, <1>3, <2>1 DEF CreateReadsMark, Place
  <2>3. UNCHANGED <<markFile, assigned, files>>
    BY <1>3 DEF CreateReadsMark
  <2>4. \A i \in assigned : (i <= at[p].high => i <= g) /\ (i <= ReadableMark => i <= g)
    BY <1>1, <2>1
  <2>5. \A i \in assigned : at[p].pc = "mark" => i <= g
    BY <1>1, <2>4 DEF Ready
  <2>6. \A i \in assigned : i <= g \/ BelowFile(i)
    BY <1>1, <2>4 DEF Covered
  <2>7. ReadableMark' = ReadableMark /\ assigned' = assigned /\ Present' = Present
    BY <2>3 DEF ReadableMark, Present, files, markFile
  <2>8. Ready(at[p])'
    BY <2>2, <2>5, <2>6, <2>7 DEF Ready, BelowFile
  <2> QED BY <2>3, <2>7, <2>8, NumberKept
<1>4. CASE CreateTruncates(p)
  <2>1. PICK id \in Ids : id = at[p].high + 1
    BY <1>1, <1>4, IdsBound, IdsAreNumbers DEF CreateTruncates
  <2>2. /\ file' = [file EXCEPT ![id] = "torn"] /\ assigned' = assigned \cup {id}
        /\ at' = [at EXCEPT ![p].pc = "fill", ![p].id = id] /\ UNCHANGED markFile
    BY <1>4, <2>1 DEF CreateTruncates
  <2>3. at'[p].pc = "fill" /\ at'[p].job = at[p].job
    BY <1>1, <2>2 DEF Place
  <2>4. Present' = Present \cup {id}
    BY <1>1, <2>2 DEF Present
  <2>5. \A i \in assigned' : i <= id
    BY <1>1, <1>4, <2>1, <2>2 DEF CreateTruncates, At, Ready
  <2>6. Covered'
    BY <2>4, <2>5 DEF Covered, BelowFile
  <2>7. Ready(at[p])' /\ Listing(at[p])'
    BY <2>3 DEF Ready, Listing, ListLocked
  <2> QED BY <2>6, <2>7, NumberHeld
<1>5. CASE CreateWrites(p)
  <2>1. ~Listing(at[p])' /\ UNCHANGED <<markFile, assigned>>
    BY <1>5, FreeAfter DEF CreateWrites
  <2>2. file' = file \/ file' = [file EXCEPT ![at[p].id] = "whole"]
    BY <1>5 DEF CreateWrites, Puts, files
  <2>3. Present \subseteq Present'
    BY <1>1, <2>2 DEF Present
  <2> QED BY <2>1, <2>3, NumberKept
<1> QED BY <1>2, <1>3, <1>4, <1>5

LEMMA MovedHigh ==
  ASSUME TypeInv, NEW p \in Agents, NEW q, Moves(p, q)
  PROVE  at'[p].high = at[p].high
  BY DEF TypeInv, TypeOK, Place, Moves

\* resetTaskList: no file goes before the mark is above every id.
LEMMA ResetNumbers ==
  ASSUME TypeInv, LockInv', NumberInv, NEW p \in Agents, Goes(p), Listing(at[p]),
         \/ ResetReadsDir(p) \/ ComparesMark(p) \/ MarkTruncates(p) \/ MarkWrites(p)
         \/ ResetListsFiles(p) \/ (\E t \in Ids : ResetUnlinks(p, t)) \/ ResetEnds(p)
  PROVE  NumberInv'
<1>1. /\ at \in [Agents -> Place] /\ at[p] \in Place /\ Ready(at[p]) /\ Covered
      /\ at[p].high \in Nat /\ assigned \subseteq Nat /\ Present \subseteq Nat /\ ReadableMark \in Nat
      /\ Sound(p, at[p])
  BY IdsAreNumbers DEF TypeInv, TypeOK, NumberInv
<1>2. UNCHANGED <<markFile, files, assigned>>
        => ReadableMark' = ReadableMark /\ assigned' = assigned /\ Present' = Present
  BY DEF ReadableMark, Present, files, markFile
<1>3. CASE ResetReadsDir(p)
  <2>1. PICK h \in 0..MaxId :
          /\ IsHighest(h)
          /\ at' = [at EXCEPT ![p].pc = IF h > 0 THEN "mark" ELSE "unlink", ![p].high = h]
    BY <1>3 DEF ResetReadsDir
  <2>2. /\ at'[p].pc = IF h > 0 THEN "mark" ELSE "unlink"
        /\ at'[p].high = h
    BY <1>1, <2>1 DEF Place
  <2>3. UNCHANGED <<markFile, files, assigned>>
    BY <1>3 DEF ResetReadsDir
  <2>4. CASE h > 0
    <3>1. h \in Present /\ \A t \in Present : t <= h
      BY <2>1, <2>4 DEF IsHighest
    <3>2. \A i \in assigned : i <= h \/ i <= ReadableMark
      BY <1>1, <3>1 DEF Covered, BelowFile
    <3>3. Ready(at[p])'
      BY <1>2, <2>2, <2>3, <2>4, <3>1, <3>2 DEF Ready
    <3> QED BY <1>2, <2>3, <3>3, NumberKept
  <2>5. CASE ~(h > 0)
    <3>1. \A i \in assigned : ~BelowFile(i)
      <4>1. h = 0 /\ 0 \notin Present
        BY <2>1, <2>5 DEF Present, Ids
      <4> QED BY <2>1, <4>1 DEF IsHighest, BelowFile
    <3>2. \A i \in assigned : i <= ReadableMark
      BY <1>1, <3>1 DEF Covered
    <3>3. Ready(at[p])'
      BY <1>2, <2>2, <2>3, <2>5, <3>2 DEF Ready
    <3> QED BY <1>2, <2>3, <3>3, NumberKept
  <2> QED BY <2>4, <2>5
<1>4. CASE ComparesMark(p)
  <2>1. /\ at[p].pc = "mark" /\ at[p].job.kind # "create"
        /\ UNCHANGED <<markFile, files, assigned>>
        /\ Moves(p, IF at[p].high > ReadableMark THEN "raise" ELSE "unlink")
    BY <1>4 DEF ComparesMark, At, Kind
  <2>2. \A i \in assigned : i <= at[p].high \/ i <= ReadableMark
    BY <1>1, <2>1 DEF Ready
  <2>3. at[p].high \in Present
    BY <1>1, <2>1 DEF Ready
  <2>4. at'[p].high = at[p].high /\ at'[p].pc = IF at[p].high > ReadableMark THEN "raise" ELSE "unlink"
    BY <2>1, MovedTo, MovedHigh
  <2>5. \A i \in assigned : i <= IF at[p].high > ReadableMark THEN at[p].high ELSE ReadableMark
    BY <1>1, <2>2
  <2>6. Ready(at[p])'
    BY <1>2, <2>1, <2>3, <2>4, <2>5 DEF Ready
  <2> QED BY <1>2, <2>1, <2>6, NumberKept
<1>5. CASE MarkTruncates(p)
  <2>1. at[p].pc = "raise" /\ markWhole' = FALSE /\ UNCHANGED <<files, assigned>> /\ Moves(p, "raised")
    BY <1>5 DEF MarkTruncates, At
  <2>2. /\ at'[p].high = at[p].high /\ at'[p].pc = "raised" /\ at'[p].job = at[p].job
    BY <2>1, MovedTo, MovedHigh
  <2>3. at[p].job.kind # "create"
    BY <1>1, <2>1 DEF Sound
  <2>4. at[p].high \in Present /\ \A i \in assigned : i <= at[p].high
    BY <1>1, <2>1, <2>3 DEF Ready
  <2>5. Present' = Present /\ assigned' = assigned
    BY <2>1 DEF Present, files
  <2>6. Covered'
    BY <2>4, <2>5 DEF Covered, BelowFile
  <2>7. Ready(at[p])' /\ Listing(at[p])'
    BY <2>2, <2>4, <2>5 DEF Ready, Listing, ListLocked
  <2> QED BY <2>6, <2>7, NumberHeld
<1>6. CASE MarkWrites(p)
  <2>1. /\ at[p].pc = "raised" /\ mark' = at[p].high /\ markWhole' = TRUE
        /\ UNCHANGED <<files, assigned>> /\ Moves(p, "unlink")
    BY <1>6 DEF MarkWrites, At
  <2>2. at'[p].pc = "unlink" /\ at'[p].job = at[p].job
    BY <2>1, MovedTo
  <2>3. \A i \in assigned : i <= at[p].high
    BY <1>1, <2>1 DEF Ready
  <2>4. ReadableMark' = at[p].high /\ assigned' = assigned
    BY <2>1 DEF ReadableMark
  <2>5. Covered'
    BY <2>3, <2>4 DEF Covered
  <2>6. Ready(at[p])' /\ Listing(at[p])'
    BY <2>2, <2>3, <2>4 DEF Ready, Listing, ListLocked
  <2> QED BY <2>5, <2>6, NumberHeld
<1>7. CASE ResetListsFiles(p)
  <2>1. /\ at[p].pc = "unlink" /\ UNCHANGED <<markFile, files, assigned>>
        /\ at' = [at EXCEPT ![p].pc = "unlinking", ![p].left = Present]
    BY <1>7 DEF ResetListsFiles, At
  <2>2. at'[p].pc = "unlinking"
    BY <1>1, <2>1 DEF Place
  <2>3. \A i \in assigned : i <= ReadableMark
    BY <1>1, <2>1 DEF Ready
  <2>4. Ready(at[p])'
    BY <1>2, <2>1, <2>2, <2>3 DEF Ready
  <2> QED BY <1>2, <2>1, <2>4, NumberKept
<1>8. ASSUME NEW t \in Ids, ResetUnlinks(p, t) PROVE NumberInv'
  <2>1. /\ at[p].pc = "unlinking" /\ UNCHANGED <<markFile, assigned>>
        /\ at' = [at EXCEPT ![p].left = @ \ {t}]
    BY <1>8 DEF ResetUnlinks, At
  <2>2. at'[p].pc = "unlinking" /\ at'[p].job = at[p].job
    BY <1>1, <2>1 DEF Place
  <2>3. \A i \in assigned : i <= ReadableMark
    BY <1>1, <2>1 DEF Ready
  <2>4. ReadableMark' = ReadableMark /\ assigned' = assigned
    BY <2>1 DEF ReadableMark, markFile
  <2>5. Covered'
    BY <2>3, <2>4 DEF Covered
  <2>6. Ready(at[p])' /\ Listing(at[p])'
    BY <2>1, <2>2, <2>3, <2>4 DEF Ready, Listing
  <2> QED BY <2>5, <2>6, NumberHeld
<1>9. CASE ResetEnds(p)
  <2>1. ~Listing(at[p])' /\ UNCHANGED <<markFile, files, assigned>>
    BY <1>9, FreeAfter DEF ResetEnds
  <2> QED BY <1>2, <2>1, NumberKept
<1> QED BY <1>3, <1>4, <1>5, <1>6, <1>7, <1>8, <1>9

LEMMA TakesNumbers ==
  ASSUME TypeInv, NumberInv, NEW p \in Agents, Goes(p), TakesListLock(p)
  PROVE  NumberInv'
<1>1. /\ Moves(p, IF Kind(p) = "create" THEN "highest" ELSE "dir")
      /\ UNCHANGED <<markFile, files, assigned>>
  BY DEF TakesListLock
<1>2. at'[p].pc = (IF Kind(p) = "create" THEN "highest" ELSE "dir") /\ at'[p].job = at[p].job
  BY <1>1, MovedTo
<1>3. Ready(at[p])'
  BY <1>2 DEF Ready, Kind
<1>4. Present' = Present
  BY <1>1 DEF Present, files
<1> QED BY <1>1, <1>3, <1>4, NumberKept

LEMMA ListStepNumbers ==
  ASSUME NoDeletes, TypeInv, LockInv', NumberInv, NEW p \in Agents, ListStep(p)
  PROVE  NumberInv'
<1>1. Goes(p)
  BY ListStepGoes
<1>2. CASE At(p, "list lock")
  <2>1. TakesListLock(p)
    BY <1>2 DEF ListStep, TakesListLock, CreateReadsDir, CreateReadsMark, CreateTruncates,
         CreateWrites, ResetReadsDir, ComparesMark, MarkTruncates, MarkWrites, DeleteUnlinks,
         ResetListsFiles, ResetUnlinks, ResetEnds, At
  <2> QED BY <1>1, <2>1, TakesNumbers
<1>3. CASE ~At(p, "list lock")
  <2>1. Listing(at[p]) /\ ~DeleteUnlinks(p) /\ ~TakesListLock(p)
    BY <1>3, ListStepListing DEF TakesListLock
  <2> QED BY <1>1, <2>1, CreateNumbers, ResetNumbers DEF ListStep
<1> QED BY <1>2, <1>3

LEMMA InitNumbers == Init => NumberInv
<1> SUFFICES ASSUME Init PROVE NumberInv
  OBVIOUS
<1>1. \A p \in Agents : ~Listing(at[p])
  BY RestingType DEF Init, Listing, ListLocked
<1>2. \A i \in 1..Tasks0 : i \in Ids /\ i <= Tasks0 /\ i <= i
  BY IdsBound
<1>3. \A i \in assigned : i \in Present /\ i <= i
  BY <1>2 DEF Init, Present
<1> QED BY <1>1, <1>3 DEF NumberInv, Covered, BelowFile

LEMMA NextNumbers == NoDeletes /\ TypeInv /\ LockInv /\ LockInv' /\ NumberInv /\ [Next]_vars => NumberInv'
<1> SUFFICES ASSUME NoDeletes, TypeInv, LockInv, LockInv', NumberInv, [Next]_vars PROVE NumberInv'
  OBVIOUS
<1>1. CASE UNCHANGED vars
  BY <1>1 DEF vars, files, markFile, NumberInv, Covered, Listing, Ready, BelowFile, Present, ReadableMark
<1>2. CASE \E p \in Agents : (\E j \in Jobs : Begins(p, j)) \/ UpdateStep(p) \/ ReadStep(p)
                            \/ ListStep(p) \/ Crash(p)
  BY <1>2, BeginsNumbers, UpdateStepNumbers, ReadStepNumbers, ListStepNumbers, CrashNumbers
<1> QED BY <1>1, <1>2 DEF Next, Quiet

\* As long as no task is deleted on its own, createTask gives every id out once, whatever
\* is reset, wherever agents crash, half-written mark or not.
THEOREM IdsGivenOnce == NoDeletes => (Spec => []IdsUnique)
<1> SUFFICES ASSUME NoDeletes PROVE Spec => []IdsUnique
  OBVIOUS
<1>1. TypeInv /\ NumberInv => IdsUnique
  <2> SUFFICES ASSUME TypeInv, NumberInv, NEW p \in Agents, At(p, "born"),
                      at[p].high + 1 \in assigned
               PROVE  FALSE
    BY DEF IdsUnique
  <2>1. Listing(at[p])
    BY DEF At, TypeInv, Sound, Listing, ListLocked
  <2>2. \A i \in assigned : i <= at[p].high
    BY <2>1 DEF NumberInv, Ready, At
  <2> QED BY <2>2, IdsAreNumbers
<1>2. NumberInv /\ TypeInv /\ LockInv /\ LockInv' /\ [Next]_vars => NumberInv'
  BY NextNumbers
<1> QED BY <1>1, <1>2, InitType, NextType, InitLocks, NextLocks, InitNumbers, PTL DEF Spec

--------------------------------------------------------------------------------
(* Fields *)

\* updateTask has read the whole task, under its lock, and not yet written it back.
Writing(r) == r.pc \in {"truncate", "write"}

\* What it read is still what the file last held, because only holders of the lock of
\* the task and createTask write tasks, and createTask has an id nobody works on, unless
\* that id had been given out before.
FieldInv ==
  /\ Present \subseteq assigned
  /\ \A p \in Agents : Writing(at[p]) => at[p].id \in assigned /\ data[at[p].id] = at[p].base
  /\ \A p \in Agents : At(p, "fill") =>
       /\ file[at[p].id] # "whole"
       /\ \A q \in Agents : Writing(at[q]) => at[q].id # at[p].id

\* An agent that neither reads a task to write it back nor gets a new id.
LEMMA FieldQuiet ==
  ASSUME TypeInv, FieldInv, NEW p \in Agents, Goes(p), UNCHANGED <<data, assigned>>,
         Present' \subseteq assigned,
         ~Writing(at[p])', ~At(p, "fill")',
         \A t \in Ids : file'[t] = "whole" => file[t] = "whole"
  PROVE  FieldInv'
<1>1. \A q \in Agents \ {p} : at'[q] = at[q]
  BY GoesOthers
<1>2. \A q \in Agents : /\ Writing(at[q])' => q # p /\ Writing(at[q])
                        /\ At(q, "fill")' => q # p /\ At(q, "fill")
  BY <1>1 DEF Writing, At
<1>3. \A q \in Agents : At(q, "fill") => at[q].id \in Ids
  BY DEF TypeInv, Sound, At
<1> QED BY <1>1, <1>2, <1>3 DEF FieldInv

LEMMA BeginsFields ==
  ASSUME TypeInv, LockInv, LockInv', FieldInv, NEW p \in Agents, NEW j \in Jobs, Begins(p, j)
  PROVE  FieldInv'
<1>1. Goes(p) /\ UNCHANGED <<files, assigned, listLock, taskLock>> /\ at[p].pc = "rest"
  BY BeginsGoes DEF Begins, At
<1>2. ~Holding(at[p]) /\ ~Listing(at[p])
  BY <1>1 DEF Holding, Listing, ListLocked
<1>3. Sound(p, at[p])'
  BY <1>1, GoesSound
<1>4. ~Holding(at[p])' /\ ~Listing(at[p])'
  <2>1. Holding(at[p])' => at'[p].id \in Ids
    BY <1>3 DEF Sound
  <2> QED BY <1>1, <1>2, <2>1 DEF LockInv, TaskLockInv, ListLockInv
<1>5. ~Writing(at[p])' /\ ~At(p, "fill")'
  BY <1>3, <1>4 DEF Writing, At, Holding, Listing, ListLocked, Sound
<1>6. Present' = Present
  BY <1>1 DEF Present, files
<1> QED BY <1>1, <1>5, <1>6, FieldQuiet DEF files, FieldInv

\* Where an agent is after it rests or turns to its next update.
LEMMA FreeOfFields ==
  ASSUME TypeInv, NEW p \in Agents, Rests(p) \/ \E T : Proceeds(p, T)
  PROVE  ~Writing(at[p])' /\ ~At(p, "fill")'
  BY FreeAfter DEF Writing, At

LEMMA UpdateStepFields ==
  ASSUME TypeInv, LockInv, FieldInv, NEW p \in Agents, UpdateStep(p)
  PROVE  FieldInv'
<1>1. /\ Goes(p) /\ at \in [Agents -> Place] /\ at[p] \in Place /\ Sound(p, at[p])
      /\ file \in [Ids -> {"absent", "whole", "torn"}] /\ data \in [Ids -> Task]
  BY UpdateStepGoes DEF TypeInv, TypeOK
<1>2. \A q \in Agents \ {p} : at'[q] = at[q]
  BY <1>1, GoesOthers
<1>3. UNCHANGED file => Present' = Present
  BY DEF Present
<1>4. CASE Checks(p) \/ TakesTaskLock(p) \/ LockFails(p)
  <2>1. \A q : Moves(p, q) => at'[p].pc = q
    BY MovedTo
  <2>2. ~Writing(at[p])' /\ ~At(p, "fill")'
    BY <1>4, <2>1, FreeOfFields DEF Checks, TakesTaskLock, LockFails, Writing, At
  <2>3. UNCHANGED <<files, assigned>>
    BY <1>4 DEF Checks, TakesTaskLock, LockFails
  <2> QED BY <1>1, <1>3, <2>2, <2>3, FieldQuiet DEF files, FieldInv
<1>5. CASE Rereads(p)
  <2>1. UNCHANGED <<files, assigned>> /\ at[p].pc = "reread"
    BY <1>5 DEF Rereads, At
  <2>2. CASE file[at[p].id] = "whole"
    <3>1. /\ at'[p].pc = "truncate" /\ at'[p].base = data[at[p].id] /\ at'[p].id = at[p].id
      BY <1>1, <1>5, <2>2 DEF Rereads, Place
    <3>2. at[p].id \in assigned
      BY <1>1, <2>1, <2>2 DEF FieldInv, Present, Sound, Holding
    <3>3. \A q \in Agents : At(q, "fill")' => q # p /\ At(q, "fill") /\ at[q].id # at[p].id
      BY <1>2, <2>2, <3>1 DEF FieldInv, At
    <3>4. \A q \in Agents : Writing(at[q])' => q = p \/ Writing(at[q])
      BY <1>2 DEF Writing
    <3> QED BY <1>2, <1>3, <2>1, <3>1, <3>2, <3>3, <3>4 DEF FieldInv, files
  <2>3. CASE file[at[p].id] # "whole"
    <3>1. ~Writing(at[p])' /\ ~At(p, "fill")'
      BY <1>5, <2>3, FreeOfFields DEF Rereads
    <3> QED BY <1>1, <1>3, <2>1, <3>1, FieldQuiet DEF files, FieldInv
  <2> QED BY <2>2, <2>3
<1>6. CASE Truncates(p)
  <2>1. /\ at[p].pc = "truncate" /\ file' = [file EXCEPT ![at[p].id] = "torn"]
        /\ UNCHANGED <<data, assigned>>
    BY <1>6 DEF Truncates, At
  <2>2. /\ at'[p].pc = "write" /\ at'[p].base = at[p].base /\ at'[p].id = at[p].id
    BY <1>1, <1>6 DEF Truncates, Moves, Place
  <2>3. Writing(at[p]) /\ at[p].id \in assigned /\ Present' \subseteq assigned
    BY <1>1, <2>1 DEF FieldInv, Writing, Present
  <2>4. \A q \in Agents : At(q, "fill")' => q # p /\ At(q, "fill") /\ at[q].id # at[p].id
    BY <1>2, <2>2, <2>3 DEF FieldInv, At
  <2>5. \A q \in Agents : Writing(at[q])' => Writing(at[q])
    BY <1>2, <2>3 DEF Writing
  <2>6. \A q \in Agents : At(q, "fill") => at[q].id \in Ids
    BY DEF TypeInv, Sound, At
  <2> QED BY <1>1, <1>2, <2>1, <2>2, <2>3, <2>4, <2>5, <2>6 DEF FieldInv
<1>7. CASE Writes(p)
  <2>1. PICK r : /\ at[p].pc = "write" /\ UNCHANGED assigned
                 /\ \/ UNCHANGED <<file, data>>
                    \/ /\ file[at[p].id] # "absent"
                       /\ file' = [file EXCEPT ![at[p].id] = "whole"]
                       /\ data' = [data EXCEPT ![at[p].id] = r]
    BY <1>7 DEF Writes, Puts, files, At
  <2>2. ~Writing(at[p])' /\ ~At(p, "fill")'
    BY <1>7, FreeOfFields DEF Writes
  <2>3. Writing(at[p]) /\ Holding(at[p]) /\ at[p].id \in Ids
    BY <1>1, <2>1 DEF Writing, Holding, Sound
  <2>4. Present' \subseteq assigned
    BY <1>1, <2>1 DEF FieldInv, Present
  <2>5. \A q \in Agents : /\ Writing(at[q])' => Writing(at[q]) /\ q # p
                          /\ At(q, "fill")' => At(q, "fill") /\ q # p
    BY <1>2, <2>2 DEF Writing, At
  <2>6. \A q \in Agents : Writing(at[q]) /\ q # p => at[q].id # at[p].id
    BY <2>3 DEF LockInv, TaskLockInv, Writing, Holding
  <2>7. \A q \in Agents : Writing(at[q]) \/ At(q, "fill") => at[q].id \in Ids
    BY DEF TypeInv, Sound, Holding, Writing, At
  <2>8. \A q \in Agents : At(q, "fill") => at[q].id # at[p].id
    BY <2>3 DEF FieldInv
  <2> QED BY <1>1, <1>2, <2>1, <2>4, <2>5, <2>6, <2>7, <2>8 DEF FieldInv
<1> QED BY <1>4, <1>5, <1>6, <1>7 DEF UpdateStep

LEMMA ReadStepFields ==
  ASSUME TypeInv, LockInv, LockInv', FieldInv, NEW p \in Agents, ReadStep(p)
  PROVE  FieldInv'
<1>1. /\ Goes(p) /\ at \in [Agents -> Place] /\ at[p] \in Place
  BY ReadStepGoes DEF TypeInv, TypeOK
<1>2. UNCHANGED <<files, assigned>>
  BY DEF ReadStep, Judges, ReadsDirectory, Reads, ClaimJudgesBlockers, JobTurnsToUpdates,
         HideDecides
<1>3. at'[p].pc \in {"rest", "check", "read", "reread", "list lock"}
  <2>1. CASE Judges(p)
    <3>1. CASE Rests(p)
      BY <3>1, FreeAfter
    <3>2. CASE at' = [at EXCEPT ![p].pc = "read", ![p].left = data[at[p].id].blockedBy \cap Present]
      BY <1>1, <3>2 DEF Place
    <3> QED BY <2>1, <3>1, <3>2 DEF Judges
  <2>2. CASE ReadsDirectory(p)
    BY <1>1, <2>2 DEF ReadsDirectory, Place
  <2>3. ASSUME NEW t \in Ids, Reads(p, t) PROVE at'[p].pc = "read"
    BY <1>1, <2>3 DEF Reads, Place, At
  <2>4. CASE ClaimJudgesBlockers(p)
    BY <2>4, FreeAfter, MovedTo DEF ClaimJudgesBlockers
  <2>5. CASE JobTurnsToUpdates(p)
    BY <2>5, FreeAfter DEF JobTurnsToUpdates
  <2>6. CASE HideDecides(p)
    <3>1. at' = [at EXCEPT ![p].pc = "list lock", ![p].seen = {}] => at'[p].pc = "list lock"
      BY <1>1 DEF Place
    <3> QED BY <2>6, <3>1, FreeAfter DEF HideDecides
  <2> QED BY <2>1, <2>2, <2>3, <2>4, <2>5, <2>6 DEF ReadStep
<1>4. ~Writing(at[p])' /\ ~At(p, "fill")'
  BY <1>3 DEF Writing, At
<1>5. Present' = Present
  BY <1>2 DEF Present, files
<1> QED BY <1>1, <1>2, <1>4, <1>5, FieldQuiet DEF files, FieldInv

LEMMA CrashFields ==
  ASSUME TypeInv, FieldInv, NEW p \in Agents, Crash(p)
  PROVE  FieldInv'
<1>1. ~Writing(at[p])' /\ ~At(p, "fill")' /\ UNCHANGED <<files, assigned>>
  BY FreeOfFields DEF Crash
<1>2. Present' = Present
  BY <1>1 DEF Present, files
<1> QED BY <1>1, <1>2, CrashGoes, FieldQuiet DEF files, FieldInv

LEMMA ListStepFields ==
  ASSUME IdsUnique, TypeInv, LockInv, FieldInv, NEW p \in Agents, ListStep(p)
  PROVE  FieldInv'
<1>1. /\ Goes(p) /\ at \in [Agents -> Place] /\ at[p] \in Place /\ Sound(p, at[p])
      /\ file \in [Ids -> {"absent", "whole", "torn"}] /\ data \in [Ids -> Task]
  BY ListStepGoes DEF TypeInv, TypeOK
<1>2. \A q \in Agents \ {p} : at'[q] = at[q]
  BY <1>1, GoesOthers
<1>3. \A q \in Agents : At(q, "fill") => Listing(at[q])
  BY DEF TypeInv, Sound, At, Listing, ListLocked
<1>4. Listing(at[p]) => \A q \in Agents : At(q, "fill") => q = p
  BY <1>3 DEF LockInv, ListLockInv
<1>5. UNCHANGED file => Present' = Present
  BY DEF Present
<1>6. CASE CreateTruncates(p)
  <2>1. PICK id \in Ids : id = at[p].high + 1
    BY <1>1, <1>6, IdsBound, IdsAreNumbers DEF CreateTruncates
  <2>2. /\ file' = [file EXCEPT ![id] = "torn"] /\ assigned' = assigned \cup {id}
        /\ at' = [at EXCEPT ![p].pc = "fill", ![p].id = id] /\ UNCHANGED data
        /\ at[p].pc = "born"
    BY <1>6, <2>1 DEF CreateTruncates, At
  <2>3. at'[p].pc = "fill" /\ at'[p].id = id
    BY <1>1, <2>2 DEF Place
  <2>4. Listing(at[p])
    BY <1>1, <2>2 DEF Sound, Listing, ListLocked
  <2>5. id \notin assigned
    BY <2>1, <2>2 DEF IdsUnique, At
  <2>6. Present' \subseteq assigned'
    BY <1>1, <2>2 DEF FieldInv, Present
  <2>7. \A q \in Agents : /\ Writing(at[q])' => q # p /\ Writing(at[q]) /\ at[q].id # id
                          /\ At(q, "fill")' => q = p
    BY <1>2, <1>4, <2>3, <2>4, <2>5 DEF FieldInv, Writing, At
  <2> QED BY <1>1, <1>2, <2>2, <2>3, <2>6, <2>7 DEF FieldInv
<1>7. CASE CreateWrites(p)
  <2>1. PICK r : /\ at[p].pc = "fill" /\ UNCHANGED assigned
                 /\ \/ UNCHANGED <<file, data>>
                    \/ /\ file[at[p].id] # "absent"
                       /\ file' = [file EXCEPT ![at[p].id] = "whole"]
                       /\ data' = [data EXCEPT ![at[p].id] = r]
    BY <1>7 DEF CreateWrites, Puts, files, At
  <2>2. ~Writing(at[p])' /\ ~At(p, "fill")'
    BY <1>7, FreeOfFields DEF CreateWrites
  <2>3. Listing(at[p])
    BY <1>3, <2>1 DEF At
  <2>4. Present' \subseteq assigned
    BY <1>1, <2>1 DEF FieldInv, Present
  <2>5. \A q \in Agents : /\ Writing(at[q])' => Writing(at[q]) /\ q # p
                          /\ ~At(q, "fill")'
    BY <1>2, <1>4, <2>2, <2>3 DEF Writing, At
  <2>6. \A q \in Agents : Writing(at[q]) => at[q].id # at[p].id /\ at[q].id \in Ids
    BY <2>1 DEF FieldInv, At, TypeInv, Sound, Holding, Writing
  <2> QED BY <1>1, <1>2, <2>1, <2>4, <2>5, <2>6 DEF FieldInv
<1>8. ASSUME NEW t \in Ids, ResetUnlinks(p, t) PROVE FieldInv'
  <2>1. /\ at[p].pc = "unlinking" /\ UNCHANGED <<data, assigned>>
        /\ file' = [file EXCEPT ![t] = "absent"] /\ at' = [at EXCEPT ![p].left = @ \ {t}]
    BY <1>8 DEF ResetUnlinks, At
  <2>2. at'[p].pc = "unlinking"
    BY <1>1, <2>1 DEF Place
  <2>3. Listing(at[p])
    BY <1>1, <2>1 DEF Sound, Listing, ListLocked
  <2>4. \A q \in Agents : ~At(q, "fill")
    BY <1>4, <2>1, <2>3 DEF At
  <2>5. Present' \subseteq assigned
    BY <1>1, <2>1 DEF FieldInv, Present
  <2> QED BY <1>1, <2>1, <2>2, <2>4, <2>5, FieldQuiet DEF Writing, At
<1>9. CASE ResetEnds(p)
  BY <1>1, <1>5, <1>9, FreeOfFields, FieldQuiet DEF ResetEnds, files, FieldInv
<1>10. CASE TakesListLock(p) \/ ComparesMark(p) \/ MarkTruncates(p) \/ MarkWrites(p)
  <2>1. \A q : Moves(p, q) => at'[p].pc = q
    BY MovedTo
  <2>2. ~Writing(at[p])' /\ ~At(p, "fill")'
    BY <1>10, <2>1 DEF TakesListLock, ComparesMark, MarkTruncates, MarkWrites, Writing, At
  <2> QED BY <1>1, <1>5, <1>10, <2>2, FieldQuiet
          DEF TakesListLock, ComparesMark, MarkTruncates, MarkWrites, files, FieldInv
<1>11. CASE CreateReadsDir(p) \/ CreateReadsMark(p) \/ ResetReadsDir(p) \/ ResetListsFiles(p)
  <2>1. at'[p].pc \in {"mark", "born", "dir", "unlink", "unlinking"}
    <3>1. CASE CreateReadsDir(p) \/ CreateReadsMark(p)
      BY <1>1, <3>1 DEF CreateReadsDir, CreateReadsMark, Place
    <3>2. CASE ResetReadsDir(p)
      <4>1. PICK h \in 0..MaxId :
              at' = [at EXCEPT ![p].pc = IF h > 0 THEN "mark" ELSE "unlink", ![p].high = h]
        BY <3>2 DEF ResetReadsDir
      <4> QED BY <1>1, <4>1 DEF Place
    <3>3. CASE ResetListsFiles(p)
      BY <1>1, <3>3 DEF ResetListsFiles, Place
    <3> QED BY <1>11, <3>1, <3>2, <3>3
  <2> QED BY <1>1, <1>5, <1>11, <2>1, FieldQuiet
          DEF CreateReadsDir, CreateReadsMark, ResetReadsDir, ResetListsFiles, files, FieldInv,
              Writing, At
<1>12. CASE DeleteUnlinks(p)
  <2>1. UNCHANGED <<data, assigned>> /\ file' = [file EXCEPT ![at[p].job.id] = "absent"]
    BY <1>12 DEF DeleteUnlinks
  <2>2. Present' \subseteq assigned
    BY <1>1, <2>1 DEF FieldInv, Present
  <2>3. Moves(p, "readdir") => at'[p].pc = "readdir"
    BY MovedTo
  <2>4. ~Writing(at[p])' /\ ~At(p, "fill")'
    BY <1>12, <2>3, FreeOfFields DEF DeleteUnlinks, Writing, At
  <2> QED BY <1>1, <2>1, <2>2, <2>4, FieldQuiet
<1> QED BY <1>6, <1>7, <1>8, <1>9, <1>10, <1>11, <1>12 DEF ListStep

LEMMA InitFields == Init => FieldInv
<1> SUFFICES ASSUME Init PROVE FieldInv
  OBVIOUS
<1>1. \A p \in Agents : ~Writing(at[p]) /\ ~At(p, "fill")
  BY RestingType DEF Init, Writing, At
<1>2. Present \subseteq assigned
  <2>1. \A t \in Ids : file[t] # "absent" => t <= Tasks0
    BY DEF Init
  <2>2. \A t \in Ids : t <= Tasks0 => t \in 1..Tasks0
    BY DEF Ids
  <2> QED BY <2>1, <2>2 DEF Init, Present
<1> QED BY <1>1, <1>2 DEF FieldInv

LEMMA NextFields ==
  IdsUnique /\ TypeInv /\ LockInv /\ LockInv' /\ FieldInv /\ [Next]_vars => FieldInv'
<1> SUFFICES ASSUME IdsUnique, TypeInv, LockInv, LockInv', FieldInv, [Next]_vars
             PROVE  FieldInv'
  OBVIOUS
<1>1. CASE UNCHANGED vars
  BY <1>1 DEF vars, files, FieldInv, Writing, At, Present
<1>2. CASE \E p \in Agents : (\E j \in Jobs : Begins(p, j)) \/ UpdateStep(p) \/ ReadStep(p)
                            \/ ListStep(p) \/ Crash(p)
  BY <1>2, BeginsFields, UpdateStepFields, ReadStepFields, ListStepFields, CrashFields
<1> QED BY <1>1, <1>2 DEF Next, Quiet

\* Who changes a task: an update of it, or the createTask that made its file.
LEMMA DataChanges ==
  ASSUME TypeInv, [Next]_vars, NEW t \in Ids, data'[t] # data[t]
  PROVE  \E p \in Agents : at[p].id = t /\ (Writes(p) \/ CreateWrites(p))
<1>1. ~UNCHANGED vars
  BY DEF vars, files
<1>2. PICK p \in Agents : (\E j \in Jobs : Begins(p, j)) \/ UpdateStep(p) \/ ReadStep(p)
                          \/ ListStep(p) \/ Crash(p)
  BY <1>1 DEF Next, Quiet
<1>3. Writes(p) \/ CreateWrites(p)
  BY <1>2
  DEF Begins, Crash, UpdateStep, Checks, TakesTaskLock, LockFails, Rereads, Truncates,
      ReadStep, Judges, ReadsDirectory, Reads, ClaimJudgesBlockers, JobTurnsToUpdates, HideDecides,
      ListStep, TakesListLock, CreateReadsDir, CreateReadsMark, CreateTruncates, ResetReadsDir,
      ComparesMark, MarkTruncates, MarkWrites, DeleteUnlinks, ResetListsFiles, ResetUnlinks,
      ResetEnds, files
<1>4. \E r : data' = data \/ data' = [data EXCEPT ![at[p].id] = r]
  BY <1>3 DEF Writes, CreateWrites, Puts, files
<1>5. at[p].id = t
  BY <1>4 DEF TypeInv, TypeOK
<1> QED BY <1>3, <1>5

\* As long as no id is given out twice, updateTask undoes nobody's update: although it writes
\* the whole task back, a task changes only in the fields of that one update, while deletes,
\* resets and creates take its file away and bring others.
THEOREM NoUpdateLost == Spec /\ []IdsUnique => FieldsKept
<1>1. TypeInv /\ FieldInv /\ [Next]_vars =>
        [\A t \in Ids : data'[t] # data[t] =>
           \E p \in Agents :
             /\ at[p].id = t
             /\ At(p, "write") => \A f \in DOMAIN data[t] \ DOMAIN at[p].upd : data'[t][f] = data[t][f]]_vars
  <2> SUFFICES ASSUME TypeInv, FieldInv, [Next]_vars, NEW t \in Ids, data'[t] # data[t]
               PROVE  \E p \in Agents :
                        /\ at[p].id = t
                        /\ At(p, "write") =>
                             \A f \in DOMAIN data[t] \ DOMAIN at[p].upd : data'[t][f] = data[t][f]
    OBVIOUS
  <2>1. PICK p \in Agents : at[p].id = t /\ (Writes(p) \/ CreateWrites(p))
    BY DataChanges
  <2> SUFFICES ASSUME At(p, "write") PROVE \A f \in DOMAIN data[t] \ DOMAIN at[p].upd : data'[t][f] = data[t][f]
    BY <2>1
  <2>2. Writes(p) /\ Writing(at[p])
    BY <2>1 DEF At, CreateWrites, Writing
  <2>3. data[t] = at[p].base
    BY <2>1, <2>2 DEF FieldInv
  <2>4. data'[t] = Content(data[t], at[p].upd)
    BY <2>1, <2>2, <2>3 DEF Writes, Puts, files, TypeInv, TypeOK
  <2> QED BY <2>4 DEF Content
<1>2. IdsUnique /\ FieldInv /\ TypeInv /\ LockInv /\ LockInv' /\ [Next]_vars => FieldInv'
  BY NextFields
<1> QED BY <1>1, <1>2, InitType, NextType, InitLocks, NextLocks, InitFields, PTL DEF Spec, FieldsKept

\* Without deletes that condition is met.
COROLLARY NoUpdateLostUndeleted == NoDeletes => (Spec => FieldsKept)
BY IdsGivenOnce, NoUpdateLost, PTL
================================================================================
