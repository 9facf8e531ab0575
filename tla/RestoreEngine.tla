---------------------------- MODULE RestoreEngine ----------------------------
(***************************************************************************)
(* One restore job run by RestoreEngine::restore_all                       *)
(* (crates/bkp-restore/src/lib.rs): the loop that spawns a task per file,  *)
(* the file tasks, the loop that drains them, the checkpoint file that     *)
(* lets a later run resume, and the destination's disk under kills and     *)
(* power losses.                                                           *)
(*                                                                         *)
(* A job is a snapshot, a target and an overwrite mode; it may be run      *)
(* several times, each run resuming from the checkpoint of the one before. *)
(* Abstractions:                                                           *)
(*   - A file's content is what the properties tell apart (Contents).      *)
(*   - Of get_or_download_pack only the places where it awaits are kept,   *)
(*     for what they mean to a cancel; PackCache looks inside.             *)
(*   - `completed_files` on disk is the set of rows.  No file, one that    *)
(*     does not parse and one of another target all load as no rows.       *)
(*   - The detached blocking calls of an aborted task (a write, the        *)
(*     removal of its file) have landed before the user starts a new run.  *)
(***************************************************************************)
EXTENDS Integers, Sequences, FiniteSets

CONSTANTS
    NumFiles,   \* files of the job, numbered in manifest order
    Packs,      \* remote packs
    NoPack,     \* "names no pack"
    Chunks,     \* Chunks[f]: the pack of each chunk of file f, in file order
    MayBeGone,  \* packs that may be missing from the remote storage
    MayExist,   \* files that may be at their destination beforehand
    Modes,      \* the overwrite modes considered
    Permits,    \* RestoreEngine::concurrency
    BatchSize,  \* completions per checkpoint save (100 in the code)
    WholeFrom,  \* MULTI_CHUNK_PACK_THRESHOLD (32 in the code)
    Unsyncable, \* files whose sync_all fails (batch_fsync_paths ignores it)
    MaxRuns,    \* bound: how often the job is started
    MaxFaults,  \* bound: kills, power losses and files removed by the user
    MaxStuck    \* bound: tasks that wait for ever

Files  == 1 .. NumFiles
Places == {"path", "copy"}

ASSUME SizeAssumption  == NumFiles \in Nat /\ Permits \in Nat \ {0} /\ BatchSize \in Nat \ {0}
ASSUME BoundAssumption == MaxRuns \in Nat /\ MaxFaults \in Nat /\ MaxStuck \in Nat
ASSUME ChunkAssumption == Chunks \in [Files -> Seq(Packs)] /\ NoPack \notin Packs
ASSUME ModeAssumption  == Modes \subseteq {"skip", "replace", "rename"}

(* absent; other: the user's own file; partial: shorter than the manifest  *)
(* says; hollow: the right size, the wrong bytes; full: restored.          *)
Contents == {"absent", "other", "partial", "hollow", "full"}

(* todo: not spawned; passed: nothing to write; spawned: before the pause  *)
(* gate; queued: waiting for a permit; writing: between two chunks; then,  *)
(* inside a fetch, waiting: for another task's download of the pack,       *)
(* sizing: for the answer of size, fetching: for the bytes; then the       *)
(* result: written (Ok), cancelled, skipped (SKIPPED_PREFIX), failed (any  *)
(* other error).                                                           *)
TaskStates == {"todo", "passed", "spawned", "queued", "writing", "waiting", "sizing",
               "fetching", "written", "cancelled", "skipped", "failed"}
Fetching == {"waiting", "sizing", "fetching"}
Holding  == {"writing"} \cup Fetching
Returned == {"written", "cancelled", "skipped", "failed"}

VARIABLES
    phase,      \* where restore_all stands
    cursor,     \* the next file of the spawn loop
    hand,       \* the result the drain loop holds while paused, or 0
    completed,  \* checkpoint.completed_files
    pending,    \* pending_batch and pending_dest_batch
    joined,     \* files whose result the drain loop has processed
    outcome,    \* what the last run returned
    task,       \* task[f]
    next,       \* next[f]: the next chunk of f
    named,      \* named[f]: the pack f's error message names
    missing,    \* missing_packs
    stuck,      \* tasks for which what they wait for never comes
    dest,       \* dest[f]: the place f is written to, or "none"
    mode,       \* overwrite
    cancel,     \* *cancel_rx.borrow()
    paused,     \* *pause_rx.borrow()
    hungup,     \* the owner dropped cancel_tx and pause_tx
    gone,       \* the packs the remote storage lacks
    whole,      \* multi_chunk_packs: downloaded whole, through the cache
    disk,       \* disk[f][p]: content at place p of file f
    synced,     \* the <<f, p>> whose content survives a power loss
    rows,       \* completed_files in the checkpoint file
    exempt,     \* ghost: files whose row the code left without synced data
    runs, faults

engine  == <<phase, cursor, hand, completed, pending, joined, outcome>>
workers == <<task, next, named, missing, stuck>>
job     == <<dest, mode, gone, whole, runs>>
control == <<cancel, paused, hungup>>
storage == <<disk, synced, rows, exempt>>
vars    == <<engine, workers, job, control, storage, faults>>

-----------------------------------------------------------------------------
Init ==
    /\ phase = "idle" /\ cursor = 1 /\ hand = 0 /\ outcome = "none"
    /\ completed = {} /\ pending = {} /\ joined = {}
    /\ task = [f \in Files |-> "todo"]
    /\ next = [f \in Files |-> 1]
    /\ named = [f \in Files |-> NoPack]
    /\ missing = {} /\ stuck = {} /\ whole = {}
    /\ dest = [f \in Files |-> "none"]
    /\ mode \in Modes
    /\ cancel = FALSE /\ paused = FALSE /\ hungup = FALSE
    /\ gone \in SUBSET MayBeGone
    /\ \E pre \in SUBSET MayExist :
          disk = [f \in Files |-> [p \in Places |->
                     IF f \in pre /\ p = "path" THEN "other" ELSE "absent"]]
    /\ synced = Files \X Places
    /\ rows = {}
    /\ exempt = {}
    /\ runs = 0 /\ faults = 0

(* apply_overwrite_path: where the file goes if content c is at its path.  *)
Resolve(c) ==
    IF c = "absent" \/ mode = "replace" THEN "path"
    ELSE IF mode = "skip" THEN "none" ELSE "copy"

(* Mutant: every row is trusted. *)
AnySizeMatches(c) == TRUE

(* verify-on-resume: metadata(dest) finds a file of the expected size. *)
SizeMatches(c) == c \in {"hollow", "full"}

(* No task of the run is left. *)
NoWorkers ==
    /\ task' = [f \in Files |-> "todo"]
    /\ next' = [f \in Files |-> 1]
    /\ named' = [f \in Files |-> NoPack]
    /\ missing' = {} /\ stuck' = {}

(* classify_multi_chunk_packs: the packs from which the given files need   *)
(* many chunks.                                                            *)
MultiChunkPacks(fs) ==
    {k \in Packs : Cardinality(UNION {{f} \X {i \in DOMAIN Chunks[f] : Chunks[f][i] = k} :
                                       f \in fs}) >= WholeFrom}

(* restore_all up to the spawn loop: load the checkpoint, resolve every    *)
(* destination, drop the rows whose file is not there in the right size.   *)
(* RenameNew's name carries the time, so it is free.  The rows dropped     *)
(* here stay in the checkpoint file until the next save.                   *)
Start ==
    /\ phase = "idle" /\ runs < MaxRuns
    /\ runs' = runs + 1
    /\ dest' = [f \in Files |-> Resolve(disk[f]["path"])]
    /\ disk' = [f \in Files |-> [disk[f] EXCEPT !["copy"] = "absent"]]
    /\ synced' = synced \cup Files \X {"copy"}
    /\ LET bad == {f \in rows : dest'[f] # "none" /\ ~SizeMatches(disk'[f][dest'[f]])}
       IN  completed' = rows \ bad /\ exempt' = exempt \cup bad
    /\ whole' = MultiChunkPacks({f \in Files \ completed' : dest'[f] # "none"})
    /\ NoWorkers
    /\ pending' = {} /\ joined' = {}
    /\ phase' = "spawn" /\ cursor' = 1 /\ hand' = 0 /\ outcome' = "none"
    /\ cancel' = FALSE /\ paused' = FALSE /\ hungup' = FALSE
    /\ UNCHANGED <<mode, gone, rows, faults>>

(* fetch_manifest, resolve_dest or create_dir_all fails before any file is *)
(* touched.                                                                *)
StartFails ==
    /\ phase = "idle" /\ runs < MaxRuns
    /\ runs' = runs + 1
    /\ outcome' = "rejected"
    /\ UNCHANGED <<phase, cursor, hand, completed, pending, joined, workers,
                   dest, mode, gone, whole, control, storage, faults>>

-----------------------------------------------------------------------------
(* A cancelled run aborts its tasks where they stand: a file that one was  *)
(* writing stays as it is.                                                 *)
Abort ==
    /\ phase' = "idle" /\ cursor' = 1 /\ hand' = 0 /\ joined' = {}
    /\ outcome' = "cancelled"
    /\ NoWorkers
    /\ UNCHANGED <<completed, job, control, faults>>

(* Mutant: the batch is saved, not synced. *)
CommitRowsOnly ==
    /\ exempt' = exempt \cap completed
    /\ rows' = completed
    /\ pending' = {}
    /\ UNCHANGED <<disk, synced>>

(* batch_fsync_paths on the pending batch, then save_checkpoint. *)
CommitSynced ==
    LET backed == pending \ Unsyncable
    IN  /\ synced' = synced \cup {<<f, dest[f]>> : f \in backed}
        /\ exempt' = (exempt \cap completed) \ backed
        /\ rows' = completed
        /\ pending' = {}
        /\ UNCHANGED disk

(* save_checkpoint alone. *)
CommitUnsynced ==
    /\ exempt' = exempt \cup pending
    /\ rows' = completed
    /\ pending' = {}
    /\ UNCHANGED <<disk, synced>>

NoCommit == UNCHANGED <<pending, storage>>

(* One turn of the spawn loop: it looks at the cancel flag, sleeps while   *)
(* paused, and passes over files that are done or that Skip leaves alone.  *)
Spawn ==
    /\ phase = "spawn" /\ cursor <= NumFiles
    /\ ~cancel /\ ~paused
    /\ task' = [task EXCEPT ![cursor] =
                   IF cursor \in completed \/ dest[cursor] = "none"
                   THEN "passed" ELSE "spawned"]
    /\ cursor' = cursor + 1
    /\ UNCHANGED <<phase, hand, completed, pending, joined, outcome, next,
                   named, missing, stuck, job, control, storage, faults>>

(* Nothing is pending in the spawn loop: only the drain loop adds to it.   *)
SpawnCancelled ==
    /\ phase = "spawn" /\ cursor <= NumFiles
    /\ cancel
    /\ NoCommit
    /\ Abort

SpawnDone ==
    /\ phase = "spawn" /\ cursor > NumFiles
    /\ phase' = "drain"
    /\ UNCHANGED <<cursor, hand, completed, pending, joined, outcome, workers,
                   job, control, storage, faults>>

-----------------------------------------------------------------------------
(* A spawned task sleeps while paused, then queues on the semaphore. *)
Gate(f) ==
    /\ task[f] = "spawned"
    /\ ~paused \/ cancel
    /\ task' = [task EXCEPT ![f] = IF cancel THEN "cancelled" ELSE "queued"]
    /\ UNCHANGED <<engine, next, named, missing, stuck, job, control, storage, faults>>

(* Mutant: a task that has returned keeps its permit. *)
FreePermitLeaks ==
    Cardinality({f \in Files : task[f] \in Holding \cup Returned}) < Permits

FreePermit == Cardinality({f \in Files : task[f] \in Holding}) < Permits

(* Content c is now at f's destination, and not yet on stable storage. *)
Store(f, c) ==
    /\ disk' = [disk EXCEPT ![f][dest[f]] = c]
    /\ synced' = synced \ {<<f, dest[f]>>}
    /\ UNCHANGED <<rows, exempt>>

(* File::create truncates what was there, or it fails. *)
Open(f) ==
    /\ task[f] = "queued" /\ FreePermit /\ ~cancel
    /\ \/ /\ task' = [task EXCEPT ![f] = "writing"]
          /\ Store(f, "partial")
       \/ /\ task' = [task EXCEPT ![f] = "failed"]
          /\ UNCHANGED storage
    /\ UNCHANGED <<engine, next, named, missing, stuck, job, control, faults>>

OpenCancelled(f) ==
    /\ task[f] = "queued" /\ FreePermit /\ cancel
    /\ task' = [task EXCEPT ![f] = "cancelled"]
    /\ UNCHANGED <<engine, next, named, missing, stuck, job, control, storage, faults>>

(* An error inside the write block removes the file. *)
Fail(f, result, pack) ==
    /\ task' = [task EXCEPT ![f] = result]
    /\ named' = [named EXCEPT ![f] = pack]
    /\ stuck' = stuck \ {f}
    /\ Store(f, "absent")
    /\ UNCHANGED <<engine, next, job, control, faults>>

HasChunk(f)  == next[f] <= Len(Chunks[f])
PackOf(f)    == Chunks[f][next[f]]

(* Mutant: the pause loop does not look at the cancel flag. *)
ChunkCancelledUnpaused(f) ==
    /\ task[f] = "writing" /\ HasChunk(f) /\ cancel /\ ~paused
    /\ Fail(f, "cancelled", NoPack)
    /\ UNCHANGED missing

(* The head of the chunk loop: pause, cancel, the missing-pack check. *)
ChunkCancelled(f) ==
    /\ task[f] = "writing" /\ HasChunk(f) /\ cancel
    /\ Fail(f, "cancelled", NoPack)
    /\ UNCHANGED missing

PackKnownMissing(f) ==
    /\ task[f] = "writing" /\ HasChunk(f) /\ ~cancel /\ ~paused
    /\ PackOf(f) \in missing
    /\ Fail(f, "skipped", PackOf(f))
    /\ UNCHANGED missing

(* The other tasks that download f's pack for the cache: its slot is       *)
(* Pending.                                                                *)
Downloaders(f) ==
    {g \in Files \ {f} : /\ task[g] \in {"sizing", "fetching"}
                         /\ PackOf(g) = PackOf(f) /\ PackOf(f) \in whole}

(* get_range on the chunk, or get_or_download_pack on its pack: wait for   *)
(* who is at it, ask for the size unless cancelled, or have the bytes (of  *)
(* a pack in the cache, or of a backend without a concurrency hint).       *)
Request(f) ==
    \/ /\ Downloaders(f) # {}
       /\ task' = [task EXCEPT ![f] = "waiting"]
    \/ /\ Downloaders(f) = {} /\ PackOf(f) \in whole /\ ~cancel
       /\ task' = [task EXCEPT ![f] = "sizing"]
    \/ /\ Downloaders(f) = {}
       /\ task' = [task EXCEPT ![f] = "fetching"]

BeginFetch(f) ==
    /\ task[f] = "writing" /\ HasChunk(f) /\ ~cancel /\ ~paused
    /\ PackOf(f) \notin missing
    /\ Request(f)
    /\ UNCHANGED <<engine, next, named, missing, stuck, job, control, storage, faults>>

(* notified() returns and the loop looks at the cache again.  Nobody looks *)
(* at the cancel flag.                                                     *)
WaitEnds(f) ==
    /\ task[f] = "waiting" /\ f \notin stuck
    /\ Downloaders(f) = {}
    /\ Request(f)
    /\ UNCHANGED <<engine, next, named, missing, stuck, job, control, storage, faults>>

(* size returns, whatever it says; it is awaited outside any select!.      *)
SizeArrives(f) ==
    /\ task[f] = "sizing" /\ f \notin stuck
    /\ task' = [task EXCEPT ![f] = "fetching"]
    /\ UNCHANGED <<engine, next, named, missing, stuck, job, control, storage, faults>>

(* f will never hear: its request hangs (the storage clients have no       *)
(* timeout), the outage outlasts it (retries have no end) or, waiting, it  *)
(* missed the notification.                                                *)
Hang(f) ==
    /\ phase # "idle" /\ task[f] \in Fetching /\ Cardinality(stuck) < MaxStuck
    /\ stuck' = stuck \cup {f}
    /\ UNCHANGED <<engine, task, next, named, missing, job, control, storage, faults>>

(* Mutant: a chunk is skipped. *)
FetchOkSkips(f) ==
    /\ task[f] = "fetching" /\ f \notin stuck /\ PackOf(f) \notin gone
    /\ task' = [task EXCEPT ![f] = "writing"]
    /\ next' = [next EXCEPT ![f] = @ + 2]
    /\ UNCHANGED <<engine, named, missing, stuck, job, control, storage, faults>>

(* The chunk arrives, decrypts and is written. *)
FetchOk(f) ==
    /\ task[f] = "fetching" /\ f \notin stuck /\ PackOf(f) \notin gone
    /\ task' = [task EXCEPT ![f] = "writing"]
    /\ next' = [next EXCEPT ![f] = @ + 1]
    /\ UNCHANGED <<engine, named, missing, stuck, job, control, storage, faults>>

(* StorageMissingObject: the pack joins missing_packs. *)
FetchMissing(f) ==
    /\ task[f] = "fetching" /\ f \notin stuck /\ PackOf(f) \in gone
    /\ missing' = missing \cup {PackOf(f)}
    /\ Fail(f, "failed", PackOf(f))

(* Any other error: of the backend, whose message names the pack, or of    *)
(* the decryption or the write, whose message does not.                    *)
FetchFails(f) ==
    /\ task[f] = "fetching" /\ f \notin stuck
    /\ \E p \in {PackOf(f), NoPack} :
          /\ p = NoPack => PackOf(f) \notin gone
          /\ Fail(f, "failed", p)
    /\ UNCHANGED missing

(* select! against cancel_rx.changed(), which also returns when the sender *)
(* is gone.                                                                *)
FetchCancelled(f) ==
    /\ task[f] = "fetching" /\ (cancel \/ hungup)
    /\ Fail(f, "cancelled", NoPack)
    /\ UNCHANGED missing

(* After the last chunk: flush, metadata, Ok. *)
Finish(f) ==
    /\ task[f] = "writing" /\ ~HasChunk(f)
    /\ task' = [task EXCEPT ![f] = "written"]
    /\ Store(f, "full")
    /\ UNCHANGED <<engine, next, named, missing, stuck, job, control, faults>>

-----------------------------------------------------------------------------
Unjoined == {f \in Files : task[f] \in Returned} \ joined
Alive    == {f \in Files : task[f] \in {"spawned", "queued"} \cup Holding}

(* The body of the drain loop for f's result. *)
Process(f) ==
    /\ joined' = joined \cup {f}
    /\ IF task[f] = "written"
       THEN completed' = completed \cup {f} /\ pending' = pending \cup {f}
       ELSE UNCHANGED <<completed, pending>>
    /\ phase' = IF task[f] = "written" /\ Cardinality(pending') >= BatchSize
                THEN "commit" ELSE "drain"
    /\ hand' = 0
    /\ UNCHANGED <<cursor, outcome, workers, job, control, storage, faults>>

(* Mutant: the drain loop does not look at the cancel flag first. *)
DrainUnchecked(f) ==
    /\ phase = "drain" /\ f \in Unjoined
    /\ ~paused
    /\ Process(f)

(* join_next yields f and nobody has cancelled or paused. *)
Drain(f) ==
    /\ phase = "drain" /\ f \in Unjoined
    /\ ~cancel /\ ~paused
    /\ Process(f)

(* Mutant: a cancel drops the batch. *)
DrainCancelledUnsaved(f) ==
    /\ phase = "drain" /\ f \in Unjoined
    /\ cancel
    /\ pending' = {} /\ UNCHANGED storage
    /\ Abort

(* join_next yields f after a cancel: the batch is saved as it is. *)
DrainCancelled(f) ==
    /\ phase = "drain" /\ f \in Unjoined
    /\ cancel
    /\ IF pending # {} THEN CommitUnsynced ELSE NoCommit
    /\ Abort

(* join_next yields f during a pause: sleep with the result in hand. *)
DrainPaused(f) ==
    /\ phase = "drain" /\ f \in Unjoined
    /\ paused /\ ~cancel
    /\ phase' = "held" /\ hand' = f
    /\ UNCHANGED <<cursor, completed, pending, joined, outcome, workers, job,
                   control, storage, faults>>

HeldResumes ==
    /\ phase = "held" /\ ~paused
    /\ Process(hand)

HeldCancelled ==
    /\ phase = "held" /\ paused /\ cancel
    /\ IF pending # {} THEN CommitSynced ELSE NoCommit
    /\ Abort

(* A full batch is synced, then saved. *)
CommitBatch ==
    /\ phase = "commit"
    /\ CommitSynced
    /\ phase' = "drain"
    /\ UNCHANGED <<cursor, hand, completed, joined, outcome, workers, job,
                   control, faults>>

(* join_next has nothing left; the final batch is synced and saved. *)
CommitFinal ==
    /\ phase = "drain" /\ Unjoined = {} /\ Alive = {}
    /\ IF pending # {} THEN CommitSynced ELSE NoCommit
    /\ phase' = "finalize"
    /\ UNCHANGED <<cursor, hand, completed, joined, outcome, workers, job,
                   control, faults>>

(* The errors left once those that name a missing pack count as skipped. *)
KeptErrors ==
    {f \in joined : task[f] = "failed" /\ (named[f] = NoPack \/ named[f] \notin missing)}

(* Mutant: an error that is reclassified is not counted. *)
SkippedEarly == {f \in joined : task[f] = "skipped"}

Skipped == {f \in joined : task[f] \in {"failed", "skipped"}} \ KeptErrors

(* Directory times, reclassification and the result; the checkpoint goes   *)
(* unless an error is left.                                                *)
Conclude ==
    /\ phase = "finalize"
    /\ LET result == IF KeptErrors # {} THEN "error"
                     ELSE IF Skipped # {} THEN "incomplete" ELSE "ok"
       IN  /\ rows' = IF result = "error" THEN rows ELSE {}
           /\ outcome' = result
    /\ phase' = "idle" /\ cursor' = 1
    /\ UNCHANGED <<hand, completed, pending, joined, workers, job, control,
                   disk, synced, exempt, faults>>

-----------------------------------------------------------------------------
(* The two watch senders.  A cancel of the Recovery Tool lifts the pause   *)
(* too, with a second send: Resume.                                        *)
Cancel ==
    /\ phase # "idle" /\ ~hungup /\ ~cancel
    /\ cancel' = TRUE
    /\ UNCHANGED <<engine, workers, job, paused, hungup, storage, faults>>

PauseOrResume ==
    /\ phase # "idle" /\ ~hungup
    /\ paused' = ~paused
    /\ UNCHANGED <<engine, workers, job, cancel, hungup, storage, faults>>

HangUp ==
    /\ phase # "idle" /\ ~hungup
    /\ hungup' = TRUE
    /\ UNCHANGED <<engine, workers, job, cancel, paused, storage, faults>>

(* What ends with the process. *)
Die ==
    /\ phase' = "idle" /\ cursor' = 1 /\ hand' = 0 /\ outcome' = "none"
    /\ completed' = {} /\ pending' = {} /\ joined' = {}
    /\ cancel' = FALSE /\ paused' = FALSE /\ hungup' = FALSE
    /\ NoWorkers
    /\ UNCHANGED job

(* The process is killed, in a save if one is due: fs::write truncates.    *)
Kill ==
    /\ phase # "idle" /\ faults < MaxFaults
    /\ faults' = faults + 1
    /\ rows' \in {rows} \cup (IF pending = {} THEN {} ELSE {{}})
    /\ Die
    /\ UNCHANGED <<disk, synced, exempt>>

(* Power fails.  What was not synced is anything between never written and *)
(* right; the checkpoint is there or does not parse.                       *)
PowerLoss ==
    /\ faults < MaxFaults
    /\ faults' = faults + 1
    /\ \E lost \in SUBSET ((Files \X Places) \ synced) :
       \E left \in {"absent", "partial", "hollow"} :
          disk' = [f \in Files |-> [p \in Places |->
                      IF <<f, p>> \in lost THEN left ELSE disk[f][p]]]
    /\ synced' = Files \X Places
    /\ rows' \in {rows, {}}
    /\ Die
    /\ UNCHANGED exempt

(* Between two runs the user deletes a file. *)
UserRemoves(f) ==
    /\ phase = "idle" /\ runs \in 1 .. MaxRuns - 1 /\ faults < MaxFaults
    /\ disk[f]["path"] # "absent"
    /\ faults' = faults + 1
    /\ disk' = [disk EXCEPT ![f]["path"] = "absent"]
    /\ outcome' = "none"
    /\ UNCHANGED <<phase, cursor, hand, completed, pending, joined, workers,
                   job, control, synced, rows, exempt>>

-----------------------------------------------------------------------------
Engine ==
    \/ Spawn \/ SpawnCancelled \/ SpawnDone
    \/ \E f \in Files : Drain(f) \/ DrainCancelled(f) \/ DrainPaused(f)
    \/ HeldResumes \/ HeldCancelled
    \/ CommitBatch \/ CommitFinal \/ Conclude

Worker(f) ==
    /\ phase # "idle"
    /\ \/ Gate(f) \/ Open(f) \/ OpenCancelled(f)
       \/ ChunkCancelled(f) \/ PackKnownMissing(f) \/ BeginFetch(f)
       \/ WaitEnds(f) \/ SizeArrives(f)
       \/ FetchOk(f) \/ FetchMissing(f) \/ FetchFails(f) \/ FetchCancelled(f)
       \/ Finish(f)

User ==
    \/ Start \/ StartFails \/ Cancel \/ PauseOrResume \/ HangUp
    \/ \E f \in Files : UserRemoves(f)

Next == Engine \/ (\E f \in Files : Worker(f) \/ Hang(f)) \/ User \/ Kill \/ PowerLoss

Spec == Init /\ [][Next]_vars

(* The runtime polls the engine and every task that is ready, and a permit *)
(* goes to whoever waited longest.  Of the storage only this is assumed:   *)
(* who is not stuck has an answer, good or bad.                            *)
FairSpec == Spec /\ WF_vars(Engine) /\ \A f \in Files : WF_vars(Worker(f))

-----------------------------------------------------------------------------
TypeOK ==
    /\ phase \in {"idle", "spawn", "drain", "held", "commit", "finalize"}
    /\ cursor \in 1 .. NumFiles + 1
    /\ hand \in {0} \cup Files
    /\ completed \subseteq Files /\ pending \subseteq Files /\ joined \subseteq Files
    /\ outcome \in {"none", "ok", "incomplete", "error", "cancelled", "rejected"}
    /\ task \in [Files -> TaskStates]
    /\ next \in [Files -> Nat] /\ \A f \in Files : next[f] \in 1 .. Len(Chunks[f]) + 1
    /\ named \in [Files -> Packs \cup {NoPack}]
    /\ missing \subseteq gone /\ gone \subseteq MayBeGone
    /\ stuck \subseteq Files /\ whole \subseteq Packs
    /\ dest \in [Files -> Places \cup {"none"}]
    /\ mode \in Modes
    /\ cancel \in BOOLEAN /\ paused \in BOOLEAN /\ hungup \in BOOLEAN
    /\ disk \in [Files -> [Places -> Contents]]
    /\ synced \subseteq Files \X Places
    /\ rows \subseteq Files /\ exempt \subseteq Files
    /\ runs \in 0 .. MaxRuns /\ faults \in 0 .. MaxFaults

At(f) == disk[f][dest[f]]

(* A run that reports Ok, or Ok but for missing packs, has put every file  *)
(* at its destination on stable storage, over any sequence of cancelled,   *)
(* killed and resumed runs.  Excused: a file that needs a missing pack     *)
(* when that is what is reported, and the bytes (not the size) of one that *)
(* cannot be synced or whose row the code left without synced data.        *)
OkMeansRestored ==
    (outcome \in {"ok", "incomplete"} /\ ~hungup) =>
        \A f \in Files :
            \/ dest[f] = "none"
            \/ At(f) = "full" /\ (<<f, dest[f]>> \in synced \/ f \in exempt \cup Unsyncable)
            \/ At(f) = "hollow" /\ f \in exempt \cup Unsyncable
            \/ outcome = "incomplete" /\ \E i \in DOMAIN Chunks[f] : Chunks[f][i] \in gone

(* "Ensures data is durable for every file we're about to mark as          *)
(* completed": if power failed now, the files the checkpoint names would   *)
(* survive or be caught by verify-on-resume.  Excused are the rows saved   *)
(* by DrainCancelled and the rows Start dropped in memory only.            *)
Backed(f) ==
    LET p == IF dest[f] = "none" THEN "path" ELSE dest[f]
    IN  SizeMatches(disk[f][p]) => disk[f][p] = "full" /\ <<f, p>> \in synced

RowsAreDurable == \A f \in rows \ (exempt \cup Unsyncable) : Backed(f)

(* The same without the excuse for a cancelled run. *)
RowsNeverOutliveData == \A f \in rows \ Unsyncable : Backed(f)

(* A run that ends early leaves no completion behind that the drain loop   *)
(* had recorded, however the batches fell.                                 *)
ProgressIsKept ==
    outcome \in {"cancelled", "error"} => completed \subseteq rows

(* With Skip, a run that reports Ok leaves no part of a file at a path it  *)
(* owns: what is there is the user's own file or the restored one.         *)
NoPartialFile ==
    outcome = "ok" => \A f \in Files : disk[f]["path"] \notin {"partial", "hollow"}

(* f's task cannot return, cancelled or not: no permit is free, or it      *)
(* waits in vain where it does not watch the cancel flag.                  *)
Blocked(f) ==
    \/ task[f] = "queued" /\ ~FreePermit
    \/ task[f] = "waiting" /\ Downloaders(f) # {}
    \/ task[f] \in {"waiting", "sizing"} /\ f \in stuck

(* A run that is cancelled ends, paused or not, if a single one of its     *)
(* tasks can still return: a request for bytes that hangs does not hold it *)
(* up, one for a size or a missed notification does.                       *)
CancelEndsTheRun ==
    (phase # "idle" /\ cancel) ~>
        (phase = "idle" \/ (Alive # {} /\ \A f \in Alive : Blocked(f)))

(* A run that is not paused and of which no task is stuck ends: no waiter, *)
(* permit, batch or result is forgotten.                                   *)
RunEnds == phase # "idle" ~> (phase = "idle" \/ paused \/ stuck # {})

(* restore_all keeps what RestoreRun promises its caller: in particular it *)
(* never returns anything but Cancelled once a cancel cost it a file.      *)
Run == INSTANCE RestoreRun WITH
    running <- phase # "idle",
    result  <- IF outcome = "rejected" THEN "error" ELSE outcome,
    lost    <- \E f \in Files : task[f] = "cancelled"

ImplementsRestoreRun == Run!Spec
=============================================================================
