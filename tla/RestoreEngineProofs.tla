-------------------------- MODULE RestoreEngineProofs --------------------------
(***************************************************************************)
(* Theorems about RestoreEngine for any job, any number of permits, runs   *)
(* and faults.                                                             *)
(*                                                                         *)
(* RowsAreDurable is not inductive.  It needs to know where a completion   *)
(* is between the drain loop and the checkpoint file (Bookkeeping), that a *)
(* file counted as complete is not one a task still writes (TaskFacts),    *)
(* and that a row's file is synced even when its size is wrong, or the     *)
(* next power loss might give it the right size (RowsBacked).              *)
(*                                                                         *)
(* OkMeansRestored needs IInv and what the engine was told of each file on *)
(* the way (Told): a file passed over is done or left alone, every other   *)
(* is heard of before the end, and an error that is excused names a pack.  *)
(***************************************************************************)
EXTENDS RestoreEngine, TLAPS

(* Where the completions of a run are. *)
Bookkeeping ==
    phase # "idle" =>
        /\ pending \subseteq completed
        /\ completed \subseteq rows \cup pending
        /\ rows \subseteq completed \cup exempt
        /\ outcome = "none"

(* What a task has left on the disk, and in the engine's sets. *)
TaskFacts ==
    phase # "idle" => \A f \in Files :
        /\ task[f] \notin {"todo", "passed"} => dest[f] \in Places
        /\ task[f] \in Fetching => HasChunk(f)
        /\ task[f] = "written" => At(f) = "full"
        /\ f \in completed => task[f] \in {"todo", "passed", "written"}
        /\ f \in pending => task[f] = "written"

PhaseFacts ==
    /\ phase = "spawn" => pending = {}
    /\ phase = "held" => hand \in Files
    /\ phase = "finalize" => completed \subseteq rows

CopyMeansRename == \A f \in Files : dest[f] = "copy" => mode = "rename"

PlaceOf(f) == IF dest[f] = "none" THEN "path" ELSE dest[f]

RowsBacked ==
    \A f \in rows \ (exempt \cup Unsyncable) :
        /\ <<f, PlaceOf(f)>> \in synced
        /\ SizeMatches(disk[f][PlaceOf(f)]) => disk[f][PlaceOf(f)] = "full"

MissingArePacks == missing \subseteq Packs

IInv ==
    /\ TypeOK /\ Bookkeeping /\ TaskFacts /\ PhaseFacts /\ CopyMeansRename
    /\ RowsBacked /\ MissingArePacks
    /\ ProgressIsKept

Active == {"spawned", "queued", "writing"} \cup Fetching

(* What every step of a file task has in common. *)
WorkerStep(f) ==
    /\ phase # "idle" /\ task[f] \in Active
    /\ UNCHANGED <<engine, job, control, rows, exempt, faults>>
    /\ task' = [task EXCEPT ![f] = task'[f]]
    /\ task'[f] \in TaskStates \ {"todo", "passed"}
    /\ task'[f] \in Fetching => HasChunk(f) /\ next' = next
    /\ task'[f] = "written" => disk' = [disk EXCEPT ![f][dest[f]] = "full"]
    /\ next' = next \/ (HasChunk(f) /\ next' = [next EXCEPT ![f] = @ + 1])
    /\ named' \in [Files -> Packs \cup {NoPack}]
    /\ missing' \subseteq gone \cap Packs /\ stuck' \subseteq Files
    /\ \/ UNCHANGED <<disk, synced>>
       \/ \E c \in Contents : /\ disk' = [disk EXCEPT ![f][dest[f]] = c]
                              /\ synced' = synced \ {<<f, dest[f]>>}

-----------------------------------------------------------------------------
(* The first state. *)
LEMMA InitIInv == Init => IInv
<1> SUFFICES ASSUME Init PROVE IInv
  OBVIOUS
<1> USE SizeAssumption, BoundAssumption, ChunkAssumption DEF Init, Files
<1>1. TypeOK
  <2>1. /\ phase \in {"idle", "spawn", "drain", "held", "commit", "finalize"}
        /\ outcome \in {"none", "ok", "incomplete", "error", "cancelled", "rejected"}
        /\ cancel \in BOOLEAN /\ paused \in BOOLEAN /\ hungup \in BOOLEAN
        /\ mode \in Modes
    BY Zenon
  <2>2. cursor \in 1 .. NumFiles + 1 /\ runs \in 0 .. MaxRuns /\ faults \in 0 .. MaxFaults
    BY SMT
  <2>3. task \in [Files -> TaskStates]
    BY DEF TaskStates
  <2>4. next \in [Files -> Nat] /\ \A f \in Files : next[f] \in 1 .. Len(Chunks[f]) + 1
    OBVIOUS
  <2>5. named \in [Files -> Packs \cup {NoPack}] /\ dest \in [Files -> Places \cup {"none"}]
    OBVIOUS
  <2>6. disk \in [Files -> [Places -> Contents]]
    BY DEF Contents, Places
  <2>7. /\ completed \subseteq Files /\ pending \subseteq Files /\ joined \subseteq Files
        /\ stuck \subseteq Files /\ whole \subseteq Packs
        /\ missing \subseteq gone /\ gone \subseteq MayBeGone /\ synced \subseteq Files \X Places
        /\ rows \subseteq Files /\ exempt \subseteq Files /\ hand \in {0} \cup Files
    OBVIOUS
  <2> QED
    BY <2>1, <2>2, <2>3, <2>4, <2>5, <2>6, <2>7 DEF TypeOK
<1>2. Bookkeeping /\ TaskFacts /\ PhaseFacts /\ CopyMeansRename /\ MissingArePacks
  BY DEF Bookkeeping, TaskFacts, PhaseFacts, CopyMeansRename, MissingArePacks
<1>3. RowsBacked /\ ProgressIsKept
  BY DEF RowsBacked, ProgressIsKept
<1> QED
  BY <1>1, <1>2, <1>3 DEF IInv

-----------------------------------------------------------------------------
(* The steps of a file task. *)
LEMMA WorkerIsStep ==
    ASSUME IInv, NEW f \in Files, Worker(f) \/ Hang(f)
    PROVE  WorkerStep(f)
<1> USE ChunkAssumption DEF Active, Fetching, TaskStates, Contents, Places
<1>1. /\ named \in [Files -> Packs \cup {NoPack}] /\ task \in [Files -> TaskStates]
      /\ missing \subseteq gone \cap Packs
      /\ next \in [Files -> Nat] /\ next[f] \in 1 .. Len(Chunks[f]) + 1
      /\ phase # "idle"
      /\ task[f] \in Fetching => HasChunk(f)
      /\ stuck \subseteq Files
  BY DEF IInv, TypeOK, MissingArePacks, TaskFacts, Worker, Hang
<1>2. HasChunk(f) => PackOf(f) \in Packs
  <2>1. Chunks[f] \in Seq(Packs)
    BY DEF Files
  <2> QED
    BY <1>1, <2>1 DEF HasChunk, PackOf
<1> DEFINE Stored(c) == /\ disk' = [disk EXCEPT ![f][dest[f]] = c]
                        /\ synced' = synced \ {<<f, dest[f]>>}
<1>3. CASE Gate(f)
  BY <1>1, <1>3 DEF Gate, WorkerStep, workers, storage
<1>4. CASE Open(f)
  BY <1>1, <1>4 DEF Open, Store, WorkerStep, storage
<1>5. CASE OpenCancelled(f)
  BY <1>1, <1>5 DEF OpenCancelled, WorkerStep, storage
<1>6. ASSUME NEW r \in {"failed", "skipped", "cancelled"}, NEW p \in Packs \cup {NoPack},
             Fail(f, r, p), task[f] \in Active, missing' \subseteq gone \cap Packs
      PROVE  WorkerStep(f)
  BY <1>1, <1>6 DEF Fail, Store, WorkerStep
<1>7. CASE ChunkCancelled(f) \/ FetchCancelled(f)
  BY <1>1, <1>6, <1>7 DEF ChunkCancelled, FetchCancelled
<1>8. CASE PackKnownMissing(f)
  BY <1>1, <1>2, <1>6, <1>8 DEF PackKnownMissing
<1>9. CASE BeginFetch(f) \/ WaitEnds(f)
  BY <1>1, <1>9 DEF BeginFetch, WaitEnds, Request, WorkerStep, storage
<1>10. CASE FetchOk(f)
  BY <1>1, <1>10 DEF FetchOk, WorkerStep, storage
<1>11. CASE FetchMissing(f)
  BY <1>1, <1>2, <1>6, <1>11 DEF FetchMissing
<1>12. CASE FetchFails(f)
  BY <1>1, <1>2, <1>6, <1>12 DEF FetchFails
<1>13. CASE Finish(f)
  BY <1>1, <1>13 DEF Finish, Store, WorkerStep
<1>14. CASE SizeArrives(f)
  BY <1>1, <1>14 DEF SizeArrives, WorkerStep, storage
<1>15. CASE Hang(f)
  <2>1. task' = [task EXCEPT ![f] = task'[f]]
    BY <1>1, <1>15 DEF Hang
  <2> QED
    BY <1>1, <1>15, <2>1 DEF Hang, WorkerStep, storage
<1> QED
  BY <1>3, <1>4, <1>5, <1>7, <1>8, <1>9, <1>10, <1>11, <1>12, <1>13, <1>14, <1>15 DEF Worker

LEMMA WorkerKeeps ==
    ASSUME IInv, NEW f \in Files, WorkerStep(f)
    PROVE  IInv'
<1> USE DEF WorkerStep, engine, job, control, Active, Fetching
<1>1. TypeOK /\ TaskFacts /\ Bookkeeping /\ RowsBacked
  BY DEF IInv
<1>2. f \notin completed /\ f \notin pending /\ dest[f] \in Places
  BY <1>1 DEF TaskFacts
<1>3. TypeOK'
  <2>1. task' \in [Files -> TaskStates]
    BY <1>1 DEF TypeOK
  <2>2. next' \in [Files -> Nat] /\ \A g \in Files : next'[g] \in 1 .. Len(Chunks[g]) + 1
    <3>1. CASE next' = next
      BY <1>1, <3>1 DEF TypeOK
    <3>2. CASE HasChunk(f) /\ next' = [next EXCEPT ![f] = @ + 1]
      <4>1. next[f] \in Nat /\ next[f] <= Len(Chunks[f]) /\ Len(Chunks[f]) \in Nat
        BY <1>1, <3>2, ChunkAssumption DEF TypeOK, HasChunk
      <4> QED
        BY <1>1, <3>2, <4>1 DEF TypeOK
    <3> QED
      BY <3>1, <3>2
  <2>3. disk' \in [Files -> [Places -> Contents]]
    <3>1. CASE disk' = disk
      BY <1>1, <3>1 DEF TypeOK
    <3>2. ASSUME NEW c \in Contents, disk' = [disk EXCEPT ![f][dest[f]] = c]
          PROVE  disk' \in [Files -> [Places -> Contents]]
      <4>1. [disk[f] EXCEPT ![dest[f]] = c] \in [Places -> Contents]
        BY <1>1 DEF TypeOK
      <4> QED
        BY <1>1, <3>2, <4>1 DEF TypeOK
    <3> QED
      BY <3>1, <3>2
  <2>4. synced' \subseteq Files \X Places
    BY <1>1 DEF TypeOK
  <2>5. named' \in [Files -> Packs \cup {NoPack}] /\ missing' \subseteq gone
    OBVIOUS
  <2> QED
    BY <1>1, <2>1, <2>2, <2>3, <2>4, <2>5 DEF TypeOK
<1>4. Bookkeeping' /\ PhaseFacts' /\ CopyMeansRename' /\ MissingArePacks'
  BY DEF IInv, Bookkeeping, PhaseFacts, CopyMeansRename, MissingArePacks
<1>5. ASSUME NEW g \in Files, g # f
      PROVE  task'[g] = task[g] /\ next'[g] = next[g] /\ disk'[g] = disk[g]
  BY <1>1, <1>5 DEF TypeOK
<1>6. TaskFacts'
  <2> SUFFICES ASSUME NEW g \in Files
               PROVE  /\ task'[g] \notin {"todo", "passed"} => dest[g] \in Places
                      /\ task'[g] \in Fetching => HasChunk(g)'
                      /\ task'[g] = "written" => disk'[g][dest[g]] = "full"
                      /\ g \in completed => task'[g] \in {"todo", "passed", "written"}
                      /\ g \in pending => task'[g] = "written"
    BY DEF TaskFacts, At
  <2>1. CASE g # f
    BY <1>1, <1>5, <2>1 DEF TaskFacts, At, HasChunk
  <2>2. CASE g = f
    <3>1. task'[f] \in Fetching => HasChunk(f)'
      BY <1>1 DEF HasChunk, TypeOK
    <3>2. task'[f] = "written" => disk'[f][dest[f]] = "full"
      BY <1>1, <1>2 DEF TypeOK
    <3> QED
      BY <1>2, <2>2, <3>1, <3>2
  <2> QED
    BY <2>1, <2>2
<1>7. RowsBacked'
  <2> SUFFICES ASSUME NEW g \in rows \ (exempt \cup Unsyncable)
               PROVE  /\ <<g, PlaceOf(g)>> \in synced'
                      /\ SizeMatches(disk'[g][PlaceOf(g)]) => disk'[g][PlaceOf(g)] = "full"
    BY DEF RowsBacked, PlaceOf, SizeMatches
  <2>1. g # f /\ g \in Files
    BY <1>1, <1>2 DEF Bookkeeping, TypeOK
  <2> QED
    BY <1>1, <1>5, <2>1 DEF RowsBacked
<1>8. ProgressIsKept'
  BY <1>1 DEF Bookkeeping, ProgressIsKept
<1> QED
  BY <1>3, <1>4, <1>6, <1>7, <1>8 DEF IInv

-----------------------------------------------------------------------------
(* The spawn loop and the drain loop. *)
LEMMA SpawnKeeps == ASSUME IInv, Spawn \/ SpawnDone PROVE IInv'
<1> USE DEF workers, job, control, storage
<1>1. /\ TypeOK /\ TaskFacts /\ Bookkeeping /\ RowsBacked /\ PhaseFacts
      /\ CopyMeansRename /\ MissingArePacks
  BY DEF IInv
<1>2. CASE Spawn
  <2> USE <1>2 DEF Spawn
  <2>1. cursor \in Files /\ cursor + 1 \in 1 .. NumFiles + 1
    BY <1>1, SizeAssumption DEF TypeOK, Files
  <2>2. TypeOK'
    BY <1>1, <2>1 DEF TypeOK, TaskStates
  <2>3. TaskFacts'
    <3> SUFFICES ASSUME NEW g \in Files
                 PROVE  /\ task'[g] \notin {"todo", "passed"} => dest[g] \in Places
                        /\ task'[g] \in Fetching => HasChunk(g)
                        /\ task'[g] = "written" => At(g) = "full"
                        /\ g \in completed => task'[g] \in {"todo", "passed", "written"}
                        /\ g \in pending => task'[g] = "written"
      BY DEF TaskFacts, At, HasChunk
    <3>1. CASE g # cursor
      BY <1>1, <2>1, <3>1 DEF TaskFacts, TypeOK
    <3>2. CASE g = cursor
      BY <1>1, <2>1, <3>2 DEF PhaseFacts, TypeOK, Fetching
    <3> QED
      BY <3>1, <3>2
  <2> QED
    BY <1>1, <2>2, <2>3 DEF IInv, Bookkeeping, RowsBacked, PlaceOf, SizeMatches, PhaseFacts,
       CopyMeansRename, MissingArePacks, ProgressIsKept
<1>3. CASE SpawnDone
  BY <1>1, <1>3 DEF SpawnDone, IInv, TypeOK, TaskFacts, At, HasChunk, Bookkeeping, RowsBacked,
     PlaceOf, SizeMatches, PhaseFacts, CopyMeansRename, MissingArePacks, ProgressIsKept
<1> QED
  BY <1>2, <1>3

LEMMA ProcessKeeps ==
    ASSUME IInv, NEW f \in Files, phase # "idle", Process(f)
    PROVE  IInv'
<1> USE DEF Process, workers, job, control, storage
<1>1. /\ TypeOK /\ TaskFacts /\ Bookkeeping /\ RowsBacked /\ PhaseFacts
      /\ CopyMeansRename /\ MissingArePacks
  BY DEF IInv
<1>2. TypeOK'
  BY <1>1 DEF TypeOK
<1>3. TaskFacts' /\ Bookkeeping' /\ PhaseFacts'
  BY <1>1 DEF TaskFacts, At, HasChunk, Bookkeeping, PhaseFacts
<1>4. RowsBacked' /\ CopyMeansRename' /\ MissingArePacks'
  BY <1>1 DEF RowsBacked, PlaceOf, SizeMatches, CopyMeansRename, MissingArePacks
<1>5. ProgressIsKept'
  BY <1>1 DEF Bookkeeping, ProgressIsKept
<1> QED
  BY <1>2, <1>3, <1>4, <1>5 DEF IInv

LEMMA DrainKeeps ==
    ASSUME IInv, NEW f \in Files, Drain(f) \/ DrainPaused(f)
    PROVE  IInv'
<1>2. CASE Drain(f)
  BY <1>2, ProcessKeeps DEF Drain
<1>3. CASE DrainPaused(f)
  BY <1>3 DEF DrainPaused, workers, job, control, storage, IInv, TypeOK, TaskFacts, At, HasChunk,
     Bookkeeping, RowsBacked, PlaceOf, SizeMatches, PhaseFacts, CopyMeansRename, MissingArePacks,
     ProgressIsKept
<1> QED
  BY <1>2, <1>3

LEMMA HeldResumesKeeps == ASSUME IInv, HeldResumes PROVE IInv'
  BY ProcessKeeps DEF HeldResumes, IInv, PhaseFacts

-----------------------------------------------------------------------------
(* Saving the batch.  However it is done, the rows are the completions and *)
(* each is backed: an old row because it was, a new one because its task   *)
(* has written the file and it was synced, or because it is exempt.        *)
Saved == CommitSynced \/ CommitUnsynced \/ (pending = {} /\ NoCommit)

LEMMA SavedBacks ==
    ASSUME IInv, phase # "idle", Saved, dest' = dest
    PROVE  /\ completed \subseteq rows' /\ rows' \subseteq completed \cup exempt'
           /\ pending' = {} /\ disk' = disk
           /\ synced' \subseteq Files \X Places
           /\ rows' \subseteq Files /\ exempt' \subseteq Files
           /\ RowsBacked'
<1> USE DEF Saved, storage
<1>1. TypeOK /\ TaskFacts /\ Bookkeeping /\ RowsBacked
  BY DEF IInv
<1>2. /\ completed \subseteq rows' /\ rows' \subseteq completed \cup exempt'
      /\ pending' = {} /\ disk' = disk
      /\ rows' \subseteq Files /\ exempt' \subseteq Files
  BY <1>1 DEF CommitSynced, CommitUnsynced, NoCommit, TypeOK, Bookkeeping
<1>3. \A f \in pending : /\ f \in Files /\ dest[f] \in Places
                         /\ PlaceOf(f) = dest[f] /\ disk[f][dest[f]] = "full"
  BY <1>1 DEF TypeOK, TaskFacts, At, PlaceOf, Places
<1>4. synced \subseteq synced' /\ synced' \subseteq Files \X Places
  BY <1>1, <1>3 DEF CommitSynced, CommitUnsynced, NoCommit, TypeOK
<1>5. RowsBacked'
  <2> SUFFICES ASSUME NEW f \in rows' \ (exempt' \cup Unsyncable)
               PROVE  /\ <<f, PlaceOf(f)>> \in synced'
                      /\ SizeMatches(disk[f][PlaceOf(f)]) => disk[f][PlaceOf(f)] = "full"
    BY <1>2 DEF RowsBacked, PlaceOf, SizeMatches
  <2>1. CASE f \in pending /\ CommitSynced
    BY <1>3, <2>1 DEF CommitSynced
  <2>2. CASE ~(f \in pending /\ CommitSynced)
    <3>1. f \in rows \ (exempt \cup Unsyncable)
      BY <1>1, <2>2 DEF CommitSynced, CommitUnsynced, NoCommit, Bookkeeping
    <3> QED
      BY <1>1, <1>4, <3>1 DEF RowsBacked
  <2> QED
    BY <2>1, <2>2
<1> QED
  BY <1>2, <1>4, <1>5

LEMMA NoWorkersType ==
    ASSUME NoWorkers
    PROVE  /\ task' \in [Files -> TaskStates]
           /\ next' \in [Files -> Nat] /\ \A f \in Files : next'[f] \in 1 .. Len(Chunks[f]) + 1
           /\ named' \in [Files -> Packs \cup {NoPack}] /\ missing' = {} /\ stuck' = {}
  BY ChunkAssumption DEF NoWorkers, TaskStates

(* A run that ends cancelled has saved what it completed. *)
LEMMA AbortKeeps ==
    ASSUME IInv, phase # "idle", Saved, Abort
    PROVE  IInv'
<1> USE DEF Abort, job, control
<1>1. TypeOK /\ CopyMeansRename
  BY DEF IInv
<1>2. /\ completed \subseteq rows' /\ pending' = {} /\ disk' = disk
      /\ synced' \subseteq Files \X Places
      /\ rows' \subseteq Files /\ exempt' \subseteq Files
      /\ RowsBacked'
  BY SavedBacks
<1>3. TypeOK'
  BY <1>1, <1>2, NoWorkersType, SizeAssumption DEF TypeOK
<1>4. Bookkeeping' /\ TaskFacts' /\ PhaseFacts'
  BY DEF Bookkeeping, TaskFacts, PhaseFacts
<1>5. CopyMeansRename' /\ MissingArePacks' /\ ProgressIsKept'
  BY <1>1, <1>2, NoWorkersType
     DEF CopyMeansRename, MissingArePacks, ProgressIsKept
<1> QED
  BY <1>2, <1>3, <1>4, <1>5 DEF IInv

LEMMA CancelledKeeps ==
    ASSUME IInv,
           SpawnCancelled \/ (\E f \in Files : DrainCancelled(f)) \/ HeldCancelled
    PROVE  IInv'
<1>1. phase # "idle" /\ Abort
  BY DEF SpawnCancelled, DrainCancelled, HeldCancelled
<1>2. Saved
  BY DEF SpawnCancelled, DrainCancelled, HeldCancelled, Saved, IInv, PhaseFacts
<1> QED
  BY <1>1, <1>2, AbortKeeps

LEMMA CommitKeeps == ASSUME IInv, CommitBatch \/ CommitFinal PROVE IInv'
<1> USE DEF CommitBatch, CommitFinal, workers, job, control
<1>1. /\ TypeOK /\ TaskFacts /\ Bookkeeping /\ CopyMeansRename /\ MissingArePacks
  BY DEF IInv
<1>2. phase # "idle" /\ Saved /\ dest' = dest
  BY DEF Saved
<1>3. /\ completed \subseteq rows' /\ rows' \subseteq completed \cup exempt'
      /\ pending' = {} /\ disk' = disk
      /\ synced' \subseteq Files \X Places
      /\ rows' \subseteq Files /\ exempt' \subseteq Files
      /\ RowsBacked'
  BY <1>2, SavedBacks
<1>4. /\ phase' \in {"drain", "finalize"}
      /\ UNCHANGED <<cursor, hand, completed, joined, outcome, task, next, named, missing, stuck,
                     dest, mode, gone, whole, runs, cancel, paused, hungup, faults>>
  OBVIOUS
<1>5. TypeOK'
  BY <1>1, <1>3, <1>4 DEF TypeOK
<1>6. Bookkeeping' /\ PhaseFacts' /\ CopyMeansRename' /\ MissingArePacks'
  BY <1>1, <1>2, <1>3, <1>4 DEF Bookkeeping, PhaseFacts, CopyMeansRename, MissingArePacks
<1>7. TaskFacts'
  BY <1>1, <1>2, <1>3, <1>4 DEF TaskFacts, At, HasChunk
<1>8. ProgressIsKept'
  BY <1>1, <1>2, <1>4 DEF Bookkeeping, ProgressIsKept
<1> QED
  BY <1>3, <1>5, <1>6, <1>7, <1>8 DEF IInv

LEMMA ConcludeKeeps == ASSUME IInv, Conclude PROVE IInv'
<1> USE DEF Conclude, workers, job, control
<1>1. /\ TypeOK /\ RowsBacked /\ PhaseFacts /\ CopyMeansRename /\ MissingArePacks
  BY DEF IInv
<1>2. rows' \in {rows, {}} /\ (outcome' = "error" => rows' = rows /\ KeptErrors # {})
  OBVIOUS
<1>3. TypeOK'
  BY <1>1, <1>2, SizeAssumption DEF TypeOK
<1>4. Bookkeeping' /\ TaskFacts' /\ PhaseFacts' /\ CopyMeansRename' /\ MissingArePacks'
  BY <1>1 DEF Bookkeeping, TaskFacts, PhaseFacts, CopyMeansRename, MissingArePacks
<1>5. RowsBacked'
  BY <1>1, <1>2 DEF RowsBacked, PlaceOf, SizeMatches
<1>6. ProgressIsKept'
  BY <1>1, <1>2 DEF ProgressIsKept, PhaseFacts
<1> QED
  BY <1>3, <1>4, <1>5, <1>6 DEF IInv

-----------------------------------------------------------------------------
(* The owner, and the start of a run. *)
LEMMA ControlKeeps == ASSUME IInv, Cancel \/ PauseOrResume \/ HangUp \/ StartFails PROVE IInv'
<1>1. CASE Cancel \/ PauseOrResume \/ HangUp
  <2>1. UNCHANGED <<engine, workers, job, storage, faults>> /\ phase # "idle"
    BY <1>1 DEF Cancel, PauseOrResume, HangUp
  <2>2. cancel' \in BOOLEAN /\ paused' \in BOOLEAN /\ hungup' \in BOOLEAN
    BY <1>1 DEF Cancel, PauseOrResume, HangUp, IInv, TypeOK
  <2>3. TypeOK'
    BY <2>1, <2>2 DEF engine, workers, job, storage, IInv, TypeOK
  <2> QED
    BY <2>1, <2>3 DEF engine, workers, job, storage, IInv, TaskFacts, At, HasChunk, Bookkeeping,
       RowsBacked, PlaceOf, SizeMatches, PhaseFacts, CopyMeansRename, MissingArePacks,
       ProgressIsKept
<1>2. CASE StartFails
  <2>1. TypeOK'
    BY <1>2, BoundAssumption DEF StartFails, workers, control, storage, IInv, TypeOK
  <2> QED
    BY <1>2, <2>1 DEF StartFails, workers, control, storage, IInv, TaskFacts, Bookkeeping,
       RowsBacked, PlaceOf, SizeMatches, PhaseFacts, CopyMeansRename, MissingArePacks,
       ProgressIsKept
<1> QED
  BY <1>1, <1>2

(* A row survives a start only if its file has the right size where this   *)
(* run would put it.  That is the place it had: a fresh copy is absent,    *)
(* and with Rename the path is chosen only when nothing is there.          *)
LEMMA StartKeeps == ASSUME IInv, Start PROVE IInv'
<1> USE DEF Start
<1>1. TypeOK /\ CopyMeansRename /\ RowsBacked
  BY DEF IInv
<1>2. dest' \in [Files -> Places \cup {"none"}]
  BY DEF Resolve, Places
<1>3. /\ disk' \in [Files -> [Places -> Contents]]
      /\ \A f \in Files : disk'[f]["path"] = disk[f]["path"] /\ disk'[f]["copy"] = "absent"
  BY <1>1 DEF TypeOK, Places, Contents
<1>4. completed' \subseteq rows /\ rows \subseteq completed' \cup exempt'
  OBVIOUS
<1>5. TypeOK'
  <2>1. runs' \in 0 .. MaxRuns
    BY <1>1, BoundAssumption DEF TypeOK
  <2>2. /\ completed' \subseteq Files /\ exempt' \subseteq Files /\ rows' \subseteq Files
        /\ synced' \subseteq Files \X Places
    BY <1>1 DEF TypeOK, Places
  <2>3. cursor' \in 1 .. NumFiles + 1
    BY SizeAssumption
  <2>4. /\ mode' \in Modes /\ gone' \subseteq MayBeGone /\ faults' \in 0 .. MaxFaults
        /\ whole' \subseteq Packs
    BY <1>1 DEF TypeOK, MultiChunkPacks
  <2>5. /\ phase' = "spawn" /\ hand' = 0 /\ outcome' = "none" /\ pending' = {} /\ joined' = {}
        /\ cancel' = FALSE /\ paused' = FALSE /\ hungup' = FALSE
    OBVIOUS
  <2> QED
    BY <1>2, <1>3, <2>1, <2>2, <2>3, <2>4, <2>5, NoWorkersType DEF TypeOK
<1>6. Bookkeeping' /\ PhaseFacts'
  BY <1>4 DEF Bookkeeping, PhaseFacts
<1>7. TaskFacts'
  BY DEF TaskFacts, NoWorkers, Fetching
<1>8. CopyMeansRename'
  BY <1>1, ModeAssumption DEF CopyMeansRename, Resolve, TypeOK
<1>9. RowsBacked'
  <2> SUFFICES ASSUME NEW f \in rows \ (exempt' \cup Unsyncable)
               PROVE  /\ <<f, PlaceOf(f)'>> \in synced'
                      /\ SizeMatches(disk'[f][PlaceOf(f)']) => disk'[f][PlaceOf(f)'] = "full"
    BY DEF RowsBacked, SizeMatches
  <2>1. f \in Files /\ f \notin exempt /\ (dest'[f] = "none" \/ SizeMatches(disk'[f][dest'[f]]))
    BY <1>1 DEF TypeOK
  <2>2. dest'[f] # "copy"
    BY <1>3, <2>1 DEF SizeMatches
  <2>3. PlaceOf(f)' = "path"
    BY <1>2, <2>1, <2>2 DEF PlaceOf, Places
  <2>4. mode # "rename"
    <3> SUFFICES ASSUME mode = "rename" PROVE FALSE
      OBVIOUS
    <3>1. dest'[f] = "path" /\ disk[f]["path"] = "absent"
      BY <2>1, <2>2 DEF Resolve
    <3> QED
      BY <1>3, <2>1, <3>1 DEF SizeMatches
  <2>5. PlaceOf(f) = "path"
    BY <1>1, <2>1, <2>4 DEF CopyMeansRename, PlaceOf, TypeOK, Places
  <2>6. /\ <<f, "path">> \in synced
        /\ SizeMatches(disk[f]["path"]) => disk[f]["path"] = "full"
    BY <1>1, <2>1, <2>5 DEF RowsBacked
  <2> QED
    BY <1>3, <2>1, <2>3, <2>6 DEF SizeMatches
<1>10. MissingArePacks' /\ ProgressIsKept'
  BY DEF NoWorkers, MissingArePacks, ProgressIsKept
<1> QED
  BY <1>5, <1>6, <1>7, <1>8, <1>9, <1>10 DEF IInv

-----------------------------------------------------------------------------
(* Kills, power losses, deleted files.  A row's file is synced, so a power *)
(* loss leaves it as it is.                                                *)
LEMMA DeathKeeps == ASSUME IInv, Kill \/ PowerLoss PROVE IInv'
<1> USE DEF Kill, PowerLoss, Die, job
<1>1. TypeOK /\ CopyMeansRename /\ RowsBacked
  BY DEF IInv
<1>2. rows' \in {rows, {}} /\ exempt' = exempt
  OBVIOUS
<1>3. disk' \in [Files -> [Places -> Contents]] /\ synced' \subseteq Files \X Places
  <2>1. CASE Kill
    BY <1>1, <2>1 DEF TypeOK
  <2>2. CASE PowerLoss
    BY <1>1, <2>2 DEF TypeOK, Contents
  <2> QED
    BY <2>1, <2>2
<1>4. TypeOK'
  <2>1. cursor' \in 1 .. NumFiles + 1 /\ faults' \in 0 .. MaxFaults
    BY <1>1, SizeAssumption, BoundAssumption DEF TypeOK
  <2>2. /\ phase' = "idle" /\ hand' = 0 /\ outcome' = "none"
        /\ completed' = {} /\ pending' = {} /\ joined' = {}
        /\ cancel' = FALSE /\ paused' = FALSE /\ hungup' = FALSE
    OBVIOUS
  <2>3. /\ dest' \in [Files -> Places \cup {"none"}] /\ mode' \in Modes
        /\ gone' \subseteq MayBeGone /\ whole' \subseteq Packs /\ runs' \in 0 .. MaxRuns
        /\ rows' \subseteq Files /\ exempt' \subseteq Files
    BY <1>1, <1>2 DEF TypeOK
  <2> QED
    BY <1>3, <2>1, <2>2, <2>3, NoWorkersType DEF TypeOK
<1>5. Bookkeeping' /\ TaskFacts' /\ PhaseFacts' /\ CopyMeansRename'
  BY <1>1 DEF Bookkeeping, TaskFacts, PhaseFacts, CopyMeansRename
<1>6. RowsBacked'
  <2>1. CASE Kill
    BY <1>1, <1>2, <2>1 DEF RowsBacked, PlaceOf, SizeMatches
  <2>2. CASE PowerLoss
    <3>1. \A f \in Files : PlaceOf(f) \in Places
      BY <1>1 DEF TypeOK, PlaceOf, Places
    <3>2. \A f \in Files, p \in Places : <<f, p>> \in synced => disk'[f][p] = disk[f][p]
      BY <2>2
    <3>3. synced' = Files \X Places /\ dest' = dest
      BY <2>2
    <3> QED
      BY <1>1, <1>2, <3>1, <3>2, <3>3 DEF RowsBacked, PlaceOf, SizeMatches, TypeOK
  <2> QED
    BY <2>1, <2>2
<1>7. MissingArePacks' /\ ProgressIsKept'
  BY DEF NoWorkers, MissingArePacks, ProgressIsKept
<1> QED
  BY <1>4, <1>5, <1>6, <1>7 DEF IInv

LEMMA UserRemovesKeeps ==
    ASSUME IInv, NEW f \in Files, UserRemoves(f)
    PROVE  IInv'
<1> USE DEF UserRemoves, workers, job, control
<1>1. TypeOK /\ CopyMeansRename /\ RowsBacked /\ MissingArePacks
  BY DEF IInv
<1>2. \A g \in Files, p \in Places : disk'[g][p] \in {disk[g][p], "absent"}
  BY <1>1 DEF TypeOK, Places
<1>3. disk' \in [Files -> [Places -> Contents]]
  <2>1. [disk[f] EXCEPT !["path"] = "absent"] \in [Places -> Contents]
    BY <1>1 DEF TypeOK, Contents
  <2> QED
    BY <1>1, <2>1 DEF TypeOK
<1>4. TypeOK'
  BY <1>1, <1>3, BoundAssumption DEF TypeOK
<1>5. Bookkeeping' /\ TaskFacts' /\ PhaseFacts' /\ CopyMeansRename' /\ MissingArePacks'
  BY <1>1 DEF Bookkeeping, TaskFacts, PhaseFacts, CopyMeansRename, MissingArePacks
<1>6. RowsBacked'
  <2>1. \A g \in Files : PlaceOf(g) \in Places
    BY <1>1 DEF TypeOK, PlaceOf, Places
  <2> QED
    BY <1>1, <1>2, <2>1 DEF RowsBacked, PlaceOf, SizeMatches, TypeOK
<1>7. ProgressIsKept'
  BY DEF ProgressIsKept
<1> QED
  BY <1>4, <1>5, <1>6, <1>7 DEF IInv

-----------------------------------------------------------------------------
LEMMA NextIInv == ASSUME IInv, [Next]_vars PROVE IInv'
<1>1. CASE Engine
  BY <1>1, SpawnKeeps, DrainKeeps, HeldResumesKeeps, CancelledKeeps, CommitKeeps, ConcludeKeeps
     DEF Engine
<1>2. ASSUME NEW f \in Files, Worker(f) \/ Hang(f) PROVE IInv'
  BY <1>2, WorkerIsStep, WorkerKeeps
<1>3. CASE User
  BY <1>3, ControlKeeps, StartKeeps, UserRemovesKeeps DEF User
<1>4. CASE Kill \/ PowerLoss
  BY <1>4, DeathKeeps
<1>5. CASE UNCHANGED vars
  BY <1>5 DEF vars, engine, workers, job, control, storage, IInv, TypeOK, TaskFacts, At, HasChunk,
     Bookkeeping, RowsBacked, PlaceOf, SizeMatches, PhaseFacts, CopyMeansRename, MissingArePacks,
     ProgressIsKept
<1> QED
  BY <1>1, <1>2, <1>3, <1>4, <1>5 DEF Next

LEMMA Invariance == Spec => []IInv
  BY InitIInv, NextIInv, PTL DEF Spec

(* The states of restore_all, its tasks, the checkpoint and the disk stay  *)
(* within their types; in particular no task reads past its last chunk.    *)
THEOREM TypeCorrect == Spec => []TypeOK
  BY Invariance, PTL DEF IInv

(* The promise over batch_fsync_paths: for any number of files, batch      *)
(* size, permits, runs and faults, a file the checkpoint names survives a  *)
(* power loss or is caught by verify-on-resume.                            *)
THEOREM RowsAreDurableHolds == Spec => []RowsAreDurable
<1>1. IInv => RowsAreDurable
  BY DEF IInv, RowsBacked, RowsAreDurable, Backed, PlaceOf
<1> QED
  BY Invariance, <1>1, PTL

(* A cancelled or failed run leaves every completion that its drain loop   *)
(* recorded in the checkpoint file.                                        *)
THEOREM ProgressIsKeptHolds == Spec => []ProgressIsKept
  BY Invariance, PTL DEF IInv
-----------------------------------------------------------------------------
(* OkMeansRestored: every file of a run is told of before the run ends.    *)
PacksOf(f) == {Chunks[f][i] : i \in DOMAIN Chunks[f]}

(* The spawn loop leaves no file out, and passes over those only that are  *)
(* done or left alone.                                                     *)
AllSpawned ==
    phase # "idle" => \A f \in Files :
        /\ phase = "spawn" => (task[f] = "todo" <=> f >= cursor)
        /\ phase # "spawn" => task[f] # "todo"
        /\ task[f] = "passed" => f \in completed \/ dest[f] = "none"

(* A file that was done when the run began is there in its size. *)
DoneIsThere ==
    phase # "idle" => \A f \in completed :
        task[f] \in {"todo", "passed"} /\ dest[f] # "none" => SizeMatches(At(f))

(* The drain loop hears of every file, and of none that was cancelled      *)
(* unless the sender is gone.                                              *)
AllHeard ==
    phase # "idle" =>
        /\ phase = "spawn" => joined = {}
        /\ \A f \in joined : task[f] \in Returned /\ (task[f] = "written" => f \in completed)
        /\ phase = "held" => task[hand] \in Returned
        /\ phase = "finalize" => Unjoined = {} /\ Alive = {}
        /\ ~hungup => \A f \in Files :
              task[f] = "cancelled" => cancel /\ f \notin joined /\ (phase = "held" => hand # f)

(* An error names a pack of its file; a skipped file's pack is missing. *)
ErrorsNamePacks ==
    /\ \A f \in Files : named[f] \in {NoPack} \cup PacksOf(f)
    /\ phase # "idle" => \A f \in Files : task[f] = "skipped" => named[f] \in missing

Told == AllSpawned /\ DoneIsThere /\ AllHeard /\ ErrorsNamePacks /\ OkMeansRestored

LEMMA InitTold == Init => Told
<1> SUFFICES ASSUME Init PROVE Told
  OBVIOUS
<1>1. phase = "idle" /\ outcome = "none" /\ \A f \in Files : named[f] = NoPack
  BY DEF Init
<1> QED
  BY <1>1 DEF Told, AllSpawned, DoneIsThere, AllHeard, ErrorsNamePacks, OkMeansRestored

(* Between runs only what a run has returned matters. *)
LEMMA IdleTold ==
    ASSUME phase' = "idle", \A f \in Files : named'[f] \in {NoPack} \cup PacksOf(f), OkMeansRestored'
    PROVE  Told'
BY DEF Told, AllSpawned, DoneIsThere, AllHeard, ErrorsNamePacks, PacksOf

(* Nothing is promised while a run goes on. *)
LEMMA BusyTold ==
    ASSUME IInv', phase' # "idle"
    PROVE  OkMeansRestored'
BY DEF IInv, Bookkeeping, OkMeansRestored

(* What a task says of the way it ended. *)
WorkerTells(f) ==
    /\ task'[f] = "cancelled" => cancel \/ hungup
    /\ named' = named \/ \E p \in {NoPack} \cup PacksOf(f) : named' = [named EXCEPT ![f] = p]
    /\ task'[f] = "skipped" => named'[f] \in missing'
    /\ missing \subseteq missing'

LEMMA WorkerDoesTell ==
    ASSUME IInv, NEW f \in Files, Worker(f) \/ Hang(f)
    PROVE  WorkerTells(f)
<1>1. /\ named \in [Files -> Packs \cup {NoPack}] /\ task \in [Files -> TaskStates]
      /\ next[f] \in Nat /\ next[f] \in 1 .. Len(Chunks[f]) + 1
      /\ task[f] \in Fetching => HasChunk(f)
  BY DEF IInv, TypeOK, TaskFacts, Worker, Hang
<1>2. HasChunk(f) => PackOf(f) \in PacksOf(f)
  <2>1. Chunks[f] \in Seq(Packs)
    BY ChunkAssumption DEF Files
  <2> QED
    BY <1>1, <2>1 DEF HasChunk, PackOf, PacksOf
<1>3. CASE Gate(f)
  BY <1>1, <1>3 DEF Gate, WorkerTells
<1>4. CASE Open(f)
  BY <1>1, <1>4 DEF Open, WorkerTells
<1>5. CASE OpenCancelled(f)
  BY <1>1, <1>5 DEF OpenCancelled, WorkerTells
<1>6. CASE ChunkCancelled(f) \/ FetchCancelled(f)
  BY <1>1, <1>6 DEF ChunkCancelled, FetchCancelled, Fail, WorkerTells
<1>7. CASE PackKnownMissing(f)
  BY <1>1, <1>2, <1>7 DEF PackKnownMissing, Fail, WorkerTells
<1>8. CASE BeginFetch(f) \/ WaitEnds(f)
  BY <1>1, <1>8 DEF BeginFetch, WaitEnds, Request, WorkerTells
<1>9. CASE FetchOk(f)
  BY <1>1, <1>9 DEF FetchOk, WorkerTells
<1>10. CASE FetchMissing(f)
  BY <1>1, <1>2, <1>10 DEF FetchMissing, Fail, Fetching, WorkerTells
<1>11. CASE FetchFails(f)
  BY <1>1, <1>2, <1>11 DEF FetchFails, Fail, Fetching, WorkerTells
<1>12. CASE Finish(f)
  BY <1>1, <1>12 DEF Finish, WorkerTells
<1>13. CASE SizeArrives(f) \/ Hang(f)
  BY <1>1, <1>13 DEF SizeArrives, Hang, Fetching, WorkerTells
<1> QED
  BY <1>3, <1>4, <1>5, <1>6, <1>7, <1>8, <1>9, <1>10, <1>11, <1>12, <1>13 DEF Worker

LEMMA WorkerTold ==
    ASSUME IInv, Told, IInv', NEW f \in Files, WorkerStep(f), WorkerTells(f)
    PROVE  Told'
<1> USE DEF engine, job, control
<1>1. /\ phase # "idle" /\ phase' = phase /\ UNCHANGED <<engine, job, control>>
      /\ task[f] \in Active /\ task' = [task EXCEPT ![f] = task'[f]]
      /\ task'[f] \in TaskStates \ {"todo", "passed"}
  BY DEF WorkerStep
<1>2. task \in [Files -> TaskStates] /\ named \in [Files -> Packs \cup {NoPack}]
      /\ disk \in [Files -> [Places -> Contents]]
  BY DEF IInv, TypeOK
<1>3. \A g \in Files : g # f => task'[g] = task[g] /\ disk'[g] = disk[g] /\ named'[g] = named[g]
  BY <1>1, <1>2 DEF WorkerStep, WorkerTells
<1>4. f \notin completed /\ f \notin joined
  BY <1>1 DEF IInv, TaskFacts, Told, AllHeard, Active, Fetching, Returned
<1>5. AllSpawned'
  BY <1>1, <1>3 DEF Told, AllSpawned, Active, Fetching
<1>6. DoneIsThere'
  BY <1>1, <1>3, <1>4 DEF Told, DoneIsThere, At, SizeMatches, IInv, TypeOK
<1>7. AllHeard'
  <2>1. phase = "held" => hand # f
    BY <1>1 DEF Told, AllHeard, Active, Fetching, Returned
  <2>2. phase # "finalize"
    BY <1>1 DEF Told, AllHeard, Alive, Active, Fetching, Holding
  <2>3. \A g \in joined : g \in Files /\ g # f
    BY <1>4 DEF IInv, TypeOK
  <2>4. phase = "held" => hand \in Files
    BY DEF IInv, PhaseFacts
  <2> QED
    BY <1>1, <1>3, <1>4, <2>1, <2>2, <2>3, <2>4 DEF Told, AllHeard, WorkerTells
<1>8. ErrorsNamePacks'
  <2>1. named'[f] \in {NoPack} \cup PacksOf(f)
    BY <1>2 DEF Told, ErrorsNamePacks, WorkerTells
  <2>2. \A g \in Files : named'[g] \in {NoPack} \cup PacksOf(g)
    BY <1>3, <2>1 DEF Told, ErrorsNamePacks
  <2>3. \A g \in Files : task'[g] = "skipped" => named'[g] \in missing'
    BY <1>1, <1>3 DEF Told, ErrorsNamePacks, WorkerTells
  <2> QED
    BY <2>2, <2>3 DEF ErrorsNamePacks, PacksOf
<1> QED
  BY <1>1, <1>5, <1>6, <1>7, <1>8, BusyTold DEF Told

LEMMA SpawnTold ==
    ASSUME IInv, Told, IInv', Spawn \/ SpawnDone
    PROVE  Told'
<1> USE DEF workers, job, control, storage
<1>1. /\ TypeOK /\ phase = "spawn" /\ phase' # "idle"
      /\ UNCHANGED <<completed, pending, joined, dest, disk, named, missing, cancel, hungup, hand>>
  BY DEF IInv, Spawn, SpawnDone
<1>2. joined = {} /\ cursor \in 1 .. NumFiles + 1 /\ NumFiles \in Nat
  BY <1>1, SizeAssumption DEF Told, AllHeard, TypeOK
<1>3. CASE Spawn
  <2> USE <1>3 DEF Spawn
  <2>1. cursor \in Files /\ phase' = "spawn" /\ cursor' = cursor + 1
    BY <1>2 DEF Files
  <2>2. \A g \in Files : task'[g] = IF g = cursor
                                     THEN IF cursor \in completed \/ dest[cursor] = "none"
                                          THEN "passed" ELSE "spawned"
                                     ELSE task[g]
    BY <1>1 DEF TypeOK
  <2>3. AllSpawned'
    BY <1>1, <1>2, <2>1, <2>2 DEF Told, AllSpawned, Files
  <2>4. DoneIsThere'
    <3>1. task[cursor] = "todo"
      BY <1>1, <2>1, <1>2 DEF Told, AllSpawned
    <3> QED
      BY <1>1, <2>1, <2>2, <3>1 DEF Told, DoneIsThere, At, SizeMatches, TypeOK
  <2>5. AllHeard'
    BY <1>1, <1>2, <2>1, <2>2 DEF Told, AllHeard
  <2>6. ErrorsNamePacks'
    BY <1>1, <2>2 DEF Told, ErrorsNamePacks, PacksOf
  <2> QED
    BY <1>1, <2>3, <2>4, <2>5, <2>6, BusyTold DEF Told
<1>4. CASE SpawnDone
  <2>1. phase' = "drain" /\ task' = task /\ \A g \in Files : g < cursor
    BY <1>2, <1>4 DEF SpawnDone, Files
  <2>2. AllSpawned'
    BY <1>1, <1>2, <2>1 DEF Told, AllSpawned, Files
  <2>3. DoneIsThere'
    BY <1>1, <2>1 DEF Told, DoneIsThere, At, SizeMatches
  <2>4. AllHeard'
    BY <1>1, <1>2, <2>1 DEF Told, AllHeard
  <2>5. ErrorsNamePacks'
    BY <1>1, <2>1 DEF Told, ErrorsNamePacks, PacksOf
  <2> QED
    BY <1>1, <2>2, <2>3, <2>4, <2>5, BusyTold DEF Told
<1> QED
  BY <1>3, <1>4

(* The drain loop takes a result: not a cancelled one, which it would have *)
(* had to look at the flag for.                                            *)
LEMMA ProcessTold ==
    ASSUME IInv, Told, IInv', NEW f \in Files, phase \in {"drain", "held"}, Process(f),
           task[f] \in Returned, ~hungup => task[f] # "cancelled"
    PROVE  Told'
<1> USE DEF workers, job, control, storage
<1>1. /\ phase' \in {"drain", "commit"} /\ joined' = joined \cup {f}
      /\ completed \subseteq completed' /\ completed' \subseteq completed \cup {f}
      /\ f \in completed' \ completed => task[f] = "written"
      /\ task[f] = "written" => f \in completed'
      /\ UNCHANGED <<task, dest, disk, named, missing, cancel, hungup>>
  BY DEF Process
<1>2. AllSpawned'
  BY <1>1 DEF Told, AllSpawned
<1>3. DoneIsThere'
  BY <1>1 DEF Told, DoneIsThere, At, SizeMatches
<1>4. AllHeard'
  BY <1>1 DEF Told, AllHeard
<1>5. ErrorsNamePacks'
  BY <1>1 DEF Told, ErrorsNamePacks, PacksOf
<1> QED
  BY <1>1, <1>2, <1>3, <1>4, <1>5, BusyTold DEF Told

LEMMA DrainTold ==
    ASSUME IInv, Told, IInv', (\E f \in Files : Drain(f)) \/ HeldResumes
    PROVE  Told'
<1>1. ASSUME NEW f \in Files, Drain(f) PROVE Told'
  <2>1. task[f] \in Returned /\ (~hungup => task[f] # "cancelled")
    BY <1>1 DEF Drain, Unjoined, Told, AllHeard
  <2> QED
    BY <1>1, <2>1, ProcessTold DEF Drain
<1>2. CASE HeldResumes
  <2>1. hand \in Files
    BY <1>2 DEF HeldResumes, IInv, PhaseFacts
  <2>2. task[hand] \in Returned /\ (~hungup => task[hand] # "cancelled")
    BY <1>2, <2>1 DEF HeldResumes, Told, AllHeard
  <2> QED
    BY <1>2, <2>1, <2>2, ProcessTold DEF HeldResumes
<1> QED
  BY <1>1, <1>2

(* Saving, pausing with a result in hand, and the user's signals leave the *)
(* tasks and what they have told alone.                                    *)
LEMMA QuietTold ==
    ASSUME IInv, Told, IInv',
           \/ \E f \in Files : DrainPaused(f)
           \/ CommitBatch \/ CommitFinal \/ Cancel \/ PauseOrResume \/ HangUp
    PROVE  Told'
<1> USE DEF workers, job, control, storage, engine
<1> USE DEF DrainPaused, CommitBatch, CommitFinal, CommitSynced, NoCommit, Cancel, PauseOrResume, HangUp
<1>1. /\ phase # "idle" /\ phase' # "idle" /\ (phase = "spawn" <=> phase' = "spawn")
      /\ UNCHANGED <<task, completed, joined, cursor, dest, disk, named, missing>>
      /\ (hungup => hungup') /\ (cancel => cancel')
  BY DEF IInv, TypeOK
<1>2. AllSpawned'
  BY <1>1, Zenon DEF Told, AllSpawned
<1>3. DoneIsThere'
  BY <1>1, Zenon DEF Told, DoneIsThere, At, SizeMatches
<1>4. AllHeard'
  <2>1. phase' = "finalize" => Unjoined' = {} /\ Alive' = {}
    BY <1>1 DEF Told, AllHeard, Unjoined, Alive
  <2>2. phase' = "held" => \/ phase = "held" /\ hand' = hand
                           \/ phase # "held" /\ hand' \in Unjoined /\ ~cancel /\ cancel' = cancel
    BY <1>1
  <2>3. phase' = "held" => task[hand'] \in Returned
    BY <2>2 DEF Told, AllHeard, Unjoined
  <2>4. ~hungup' => \A f \in Files :
          task[f] = "cancelled" => cancel' /\ f \notin joined /\ (phase' = "held" => hand' # f)
    BY <1>1, <2>2 DEF Told, AllHeard
  <2> QED
    BY <1>1, <2>1, <2>3, <2>4 DEF Told, AllHeard
<1>5. ErrorsNamePacks'
  BY <1>1, Zenon DEF Told, ErrorsNamePacks, PacksOf
<1> QED
  BY <1>1, <1>2, <1>3, <1>4, <1>5, BusyTold DEF Told

(* A run starts with no task of another, and with the rows whose file is   *)
(* there.                                                                  *)
LEMMA StartTold == ASSUME IInv, IInv', Start PROVE Told'
<1> USE DEF Start, NoWorkers
<1>1. AllSpawned'
  BY DEF AllSpawned, Files
<1>2. DoneIsThere'
  BY DEF DoneIsThere, At, SizeMatches, IInv, TypeOK
<1>3. AllHeard'
  BY DEF AllHeard, Returned
<1>4. ErrorsNamePacks'
  BY DEF ErrorsNamePacks
<1> QED
  BY <1>1, <1>2, <1>3, <1>4, BusyTold DEF Told

(* What a run that ends otherwise returns promises nothing. *)
LEMMA EndTold ==
    ASSUME IInv, Told,
           \/ SpawnCancelled \/ (\E f \in Files : DrainCancelled(f)) \/ HeldCancelled
           \/ StartFails \/ Kill \/ PowerLoss \/ \E f \in Files : UserRemoves(f)
    PROVE  Told'
<1>1. phase' = "idle" /\ outcome' \notin {"ok", "incomplete"}
  BY DEF SpawnCancelled, DrainCancelled, HeldCancelled, Abort, StartFails, Kill, PowerLoss, Die,
         UserRemoves
<1>2. NoWorkers \/ named' = named
  BY DEF SpawnCancelled, DrainCancelled, HeldCancelled, Abort, StartFails, Kill, PowerLoss, Die,
         UserRemoves, workers
<1>3. \A f \in Files : named'[f] \in {NoPack} \cup PacksOf(f)
  BY <1>2 DEF NoWorkers, Told, ErrorsNamePacks
<1> QED
  BY <1>1, <1>3, IdleTold DEF OkMeansRestored

(* The heart of it.  When the drain is over, each file was passed over, or *)
(* is complete and its row backed, or has told an error; and an error that *)
(* is not kept names a pack of the file that is missing.                   *)
LEMMA ConcludeTold == ASSUME IInv, Told, Conclude PROVE Told'
<1> USE DEF Conclude, workers, job, control
<1>1. /\ TypeOK /\ TaskFacts /\ RowsBacked /\ MissingArePacks /\ completed \subseteq rows
      /\ AllSpawned /\ DoneIsThere /\ AllHeard /\ ErrorsNamePacks
  BY DEF IInv, PhaseFacts, Told
<1>2. /\ phase = "finalize" /\ phase' = "idle"
      /\ UNCHANGED <<task, named, missing, dest, disk, synced, exempt, gone, hungup>>
  OBVIOUS
<1>3. ASSUME NEW f \in Files, dest[f] # "none", f \in completed
      PROVE  \/ At(f) = "full" /\ (<<f, dest[f]>> \in synced \/ f \in exempt \cup Unsyncable)
             \/ At(f) = "hollow" /\ f \in exempt \cup Unsyncable
  <2>1. At(f) = "full" \/ SizeMatches(At(f))
    BY <1>1, <1>2, <1>3 DEF TaskFacts, DoneIsThere
  <2>2. CASE f \in exempt \cup Unsyncable
    BY <2>1, <2>2 DEF SizeMatches
  <2>3. CASE f \notin exempt \cup Unsyncable
    BY <1>1, <1>3, <2>1, <2>3 DEF RowsBacked, PlaceOf, At, SizeMatches
  <2> QED
    BY <2>2, <2>3
<1>4. ASSUME NEW f \in Files, dest[f] # "none", f \notin completed, ~hungup
      PROVE  f \in joined /\ task[f] \in {"failed", "skipped"}
  <2>1. task[f] \in TaskStates \ {"todo", "passed"}
    BY <1>1, <1>2, <1>4 DEF TypeOK, AllSpawned
  <2>2. task[f] \in Returned
    BY <1>1, <1>2, <2>1 DEF AllHeard, Alive, Fetching, Holding, TaskStates, Returned
  <2>3. f \in joined
    BY <1>1, <1>2, <2>2 DEF AllHeard, Unjoined
  <2> QED
    BY <1>1, <1>2, <1>4, <2>2, <2>3 DEF AllHeard, Returned
<1>5. ASSUME NEW f \in joined, task[f] \in {"failed", "skipped"}, KeptErrors = {}
      PROVE  Skipped # {} /\ \E i \in DOMAIN Chunks[f] : Chunks[f][i] \in gone
  <2>1. f \in Files /\ missing \subseteq gone /\ NoPack \notin missing
    BY <1>1, ChunkAssumption DEF TypeOK, MissingArePacks
  <2>2. named[f] \in missing
    BY <1>1, <1>2, <1>5, <2>1 DEF KeptErrors, ErrorsNamePacks
  <2>3. named[f] \in PacksOf(f)
    BY <1>1, <2>1, <2>2 DEF ErrorsNamePacks
  <2> QED
    BY <1>5, <2>1, <2>2, <2>3 DEF Skipped, PacksOf
<1>6. OkMeansRestored'
  <2> SUFFICES ASSUME outcome' \in {"ok", "incomplete"}, ~hungup, NEW f \in Files, dest[f] # "none",
                      f \notin completed
               PROVE  outcome' = "incomplete" /\ \E i \in DOMAIN Chunks[f] : Chunks[f][i] \in gone
    BY <1>2, <1>3 DEF OkMeansRestored, At
  <2>1. KeptErrors = {} /\ (Skipped # {} => outcome' = "incomplete")
    OBVIOUS
  <2> QED
    BY <1>4, <1>5, <2>1
<1>7. \A f \in Files : named'[f] \in {NoPack} \cup PacksOf(f)
  BY <1>1, <1>2 DEF ErrorsNamePacks
<1> QED
  BY <1>2, <1>6, <1>7, IdleTold

LEMMA NextTold == ASSUME IInv, Told, IInv', [Next]_vars PROVE Told'
<1>1. CASE Engine
  BY <1>1, SpawnTold, DrainTold, QuietTold, EndTold, ConcludeTold DEF Engine
<1>2. ASSUME NEW f \in Files, Worker(f) \/ Hang(f) PROVE Told'
  BY <1>2, WorkerIsStep, WorkerDoesTell, WorkerTold
<1>3. CASE User
  BY <1>3, StartTold, QuietTold, EndTold DEF User
<1>4. CASE Kill \/ PowerLoss
  BY <1>4, EndTold
<1>5. CASE UNCHANGED vars
  BY <1>5 DEF vars, engine, workers, job, control, storage, Told, AllSpawned, DoneIsThere, AllHeard,
     ErrorsNamePacks, OkMeansRestored, At, SizeMatches, Unjoined, Alive, PacksOf
<1> QED
  BY <1>1, <1>2, <1>3, <1>4, <1>5 DEF Next

LEMMA ToldHolds == Spec => []Told
<1>1. IInv /\ IInv' /\ Told /\ [Next]_vars => Told'
  BY NextTold
<1> QED
  BY InitTold, <1>1, Invariance, PTL DEF Spec

(* What restore_all's Ok means, for any job, storage, batch size and any   *)
(* sequence of cancelled, killed and resumed runs: every file is at its    *)
(* destination, on stable storage, but for those the report excuses.       *)
THEOREM OkMeansRestoredHolds == Spec => []OkMeansRestored
  BY ToldHolds, PTL DEF Told

-----------------------------------------------------------------------------
(* The refinement of RestoreRun, one lemma per action of it.               *)
LEMMA UserRefines ==
    ASSUME IInv, Start \/ StartFails \/ \E f \in Files : UserRemoves(f)
    PROVE  Run!Next
<1>1. CASE Start
  <2>1. Run!Begin
    BY <1>1 DEF Start, NoWorkers, Run!Begin, Run!signals
  <2> QED
    BY <2>1 DEF Run!Next
<1>2. CASE StartFails
  <2>1. Run!Reject
    BY <1>2 DEF StartFails, workers, control, Run!Reject, Run!signals
  <2> QED
    BY <2>1 DEF Run!Next
<1>3. CASE \E f \in Files : UserRemoves(f)
  <2>1. Run!Forget
    BY <1>3 DEF UserRemoves, workers, control, Run!Forget, Run!signals
  <2> QED
    BY <2>1 DEF Run!Next
<1> QED
  BY <1>1, <1>2, <1>3

LEMMA SignalRefines ==
    ASSUME IInv, Cancel \/ PauseOrResume \/ HangUp
    PROVE  Run!Next
<1>1. cancel \in BOOLEAN /\ paused \in BOOLEAN /\ hungup \in BOOLEAN
  BY DEF IInv, TypeOK
<1>2. Run!Signal
  BY <1>1 DEF Cancel, PauseOrResume, HangUp, engine, workers, Run!Signal
<1> QED
  BY <1>2 DEF Run!Next

LEMMA DieRefines ==
    ASSUME IInv, Kill \/ PowerLoss
    PROVE  Run!Next
<1>1. Run!Die
  BY DEF Kill, PowerLoss, Die, NoWorkers, Run!Die, Run!signals
<1> QED
  BY <1>1 DEF Run!Next

LEMMA CancelledRefines ==
    ASSUME IInv,
           SpawnCancelled \/ (\E f \in Files : DrainCancelled(f)) \/ HeldCancelled
    PROVE  Run!Next
<1>1. phase # "idle" /\ cancel /\ Abort
  BY DEF SpawnCancelled, DrainCancelled, HeldCancelled
<1>2. Run!Cancelled
  BY <1>1 DEF Abort, NoWorkers, control, Run!Cancelled, Run!signals
<1> QED
  BY <1>2 DEF Run!Next

(* A run gets to its end only with every result heard, and of a cancelled  *)
(* file it hears only once the senders are gone.                           *)
LEMMA ConcludeRefines == ASSUME IInv, Told, Conclude PROVE Run!Next
<1>1. ASSUME NEW f \in Files, task[f] = "cancelled" PROVE hungup
  BY <1>1 DEF Conclude, Told, AllHeard, Unjoined, Returned
<1>2. outcome' \in {"ok", "incomplete", "error"}
  BY DEF Conclude
<1>3. Run!Finish
  BY <1>1, <1>2 DEF Conclude, workers, control, Run!Finish, Run!signals
<1> QED
  BY <1>3 DEF Run!Next

LEMMA WorkerRefines ==
    ASSUME IInv, NEW f \in Files, WorkerStep(f), WorkerTells(f)
    PROVE  Run!Next \/ UNCHANGED Run!vars
<1> USE DEF engine, control
<1>1. task \in [Files -> TaskStates]
  BY DEF IInv, TypeOK
<1>2. /\ phase # "idle" /\ UNCHANGED <<phase, outcome, cancel, paused, hungup>>
      /\ \A g \in Files : g # f => task'[g] = task[g]
      /\ task[f] # "cancelled"
  BY <1>1 DEF WorkerStep, Active, Fetching
<1>3. CASE task'[f] = "cancelled"
  <2>1. cancel \/ hungup
    BY <1>3 DEF WorkerTells
  <2>2. Run!Lose
    BY <1>2, <1>3, <2>1 DEF Run!Lose, Run!signals
  <2> QED
    BY <2>2 DEF Run!Next
<1>4. CASE task'[f] # "cancelled"
  <2>1. (\E g \in Files : task'[g] = "cancelled") <=> (\E g \in Files : task[g] = "cancelled")
    BY <1>2, <1>4
  <2> QED
    BY <1>2, <2>1 DEF Run!vars, Run!signals
<1> QED
  BY <1>3, <1>4

(* What the caller does not see.  The spawn loop gives no file up, and     *)
(* takes none back: the file at its cursor has no task yet.                *)
LEMMA LoopStutters ==
    ASSUME IInv, Told,
           \/ Spawn \/ SpawnDone \/ HeldResumes \/ CommitBatch \/ CommitFinal
           \/ \E f \in Files : Drain(f) \/ DrainPaused(f)
    PROVE  UNCHANGED Run!vars
<1> USE DEF workers, control
<1>1. /\ phase # "idle" /\ phase' # "idle"
      /\ UNCHANGED <<outcome, cancel, paused, hungup>>
  BY DEF Spawn, SpawnDone, HeldResumes, CommitBatch, CommitFinal, Drain, DrainPaused, Process
<1>2. (\E g \in Files : task'[g] = "cancelled") <=> (\E g \in Files : task[g] = "cancelled")
  <2>1. CASE Spawn
    <3>1. cursor \in Files /\ task \in [Files -> TaskStates]
      BY <2>1, SizeAssumption DEF Spawn, Files, IInv, TypeOK
    <3>2. task[cursor] = "todo"
      BY <2>1, <3>1, SizeAssumption DEF Spawn, Told, AllSpawned, Files
    <3>3. task'[cursor] # "cancelled" /\ \A g \in Files : g # cursor => task'[g] = task[g]
      BY <2>1, <3>1 DEF Spawn
    <3> QED
      BY <3>2, <3>3
  <2>2. CASE ~Spawn
    <3>1. task' = task
      BY <2>2 DEF SpawnDone, HeldResumes, CommitBatch, CommitFinal, Drain, DrainPaused, Process
    <3> QED
      BY <3>1
  <2> QED
    BY <2>1, <2>2
<1> QED
  BY <1>1, <1>2 DEF Run!vars, Run!signals

(* restore_all, with its loops, tasks, checkpoint and disk, keeps what     *)
(* RestoreRun promises the caller: files are given up only to a cancel or  *)
(* a dropped sender, and a run that lost some to a cancel says Cancelled.  *)
THEOREM EngineImplementsRestoreRun == Spec => ImplementsRestoreRun
<1>1. Init => Run!Init
  BY DEF Init, Run!Init
<1>2. IInv /\ Told /\ [Next]_vars => [Run!Next]_(Run!vars)
  <2> SUFFICES ASSUME IInv, Told, [Next]_vars PROVE Run!Next \/ UNCHANGED Run!vars
    OBVIOUS
  <2>1. CASE Engine
    BY <2>1, LoopStutters, CancelledRefines, ConcludeRefines DEF Engine
  <2>2. ASSUME NEW f \in Files, Worker(f) \/ Hang(f) PROVE Run!Next \/ UNCHANGED Run!vars
    BY <2>2, WorkerIsStep, WorkerDoesTell, WorkerRefines
  <2>3. CASE User
    BY <2>3, UserRefines, SignalRefines DEF User
  <2>4. CASE Kill \/ PowerLoss
    BY <2>4, DieRefines
  <2>5. CASE UNCHANGED vars
    BY <2>5 DEF vars, engine, workers, control, Run!vars, Run!signals
  <2> QED
    BY <2>1, <2>2, <2>3, <2>4, <2>5 DEF Next
<1> QED
  BY <1>1, <1>2, Invariance, ToldHolds, PTL DEF Spec, ImplementsRestoreRun, Run!Spec
=============================================================================
