# Nyx Backup Recovery: TLA+ specifications

A verification project for the Recovery Tool in this repository: from connecting
to an endpoint, through every storage backend and its retries, to picking files
and having them on disk, under concurrent workers, cancel and pause, failed
requests, missing packs, kills, power losses and restarts.
Module names below are files of this directory; source paths are relative to the
repository root.

## 1. Inventory

The Recovery Tool reads a backup repository of Nyx Backup (encrypted packs,
manifests and indices on one of twelve storage backends) and writes files to a
local destination. It never writes to the remote storage.

| part | state it keeps | operations | interacts with |
|---|---|---|---|
| **Pack cache** (`crates/bkp-restore/src/lib.rs`, `BoundedPackCache`, `get_or_download_pack`) | `map` of Pending/Ready slots, `lru`, `ready_bytes`; one `Notify` per download | get, insert_pending, insert_ready, remove; wait and re-check | called by every file task; calls the storage backend |
| **Restore engine** (same file, `RestoreEngine::restore_all`) | task set, permits, `completed_files`, the pending batch, `missing_packs`, the checkpoint file, the destination | load/verify/save checkpoint, spawn, drain, sync, reclassify, conclude | watches `cancel_rx`, `pause_rx`; sends progress |
| **Restore session** (`crates/bkp-recover/src/commands.rs`, `session.rs`, `ui/src/views/Browse.svelte`, `ui/src/App.svelte`) | `Session::progress`, `cancel_tx`, `pause_tx`; the window's `restoring` flag and timer | start, pause, resume, cancel, poll; finalise, supervise | owns the senders the engine watches |
| **Recovery Tool checkpoints** (`crates/bkp-recover/src/checkpoint.rs`) | one JSON file per session | save, discard, list; rewritten every 16 progress events | written by the session's task, listed by a command no view calls |
| **Recovery window** (`ui/src/App.svelte`, `views/Connect.svelte`, `views/Browse.svelte`, `lib/SnapshotFileTree.svelte`) | phase, the form, the verdict of the last test, the snapshot picked, the tree shown, the rules | test, continue, back, refresh, pick, toggle, clear, restore | invokes the commands and applies their replies |
| **Connect, unlock, list** (`commands.rs`) | endpoint, backend, master key, cached snapshots | rec_test_connection, rec_connect, rec_disconnect, rec_unlock, rec_list_snapshots, rec_list_snapshot_files | builds the backend the session uses |
| **Selection rules** (`ui/src/lib/treeSelection.ts`, `path_selected` of `bkp-restore`) | two sets of paths | stateFor, toggleRule; path_selected | the window edits them, the engine applies them |
| **Storage decorators** (`crates/bkp-storage/src/retry.rs`, `rate_limited.rs`, `backend.rs`) | attempt and delay; `next_allowed` | with_retry, consume, get_critical, get_critical_decoded | wrap every backend |
| **Storage backends** (`crates/bkp-storage/src/backends/*`) | `TokenCache`, connections | get, get_range, exists, list, size | remote services |
| **Chunk, pack and parity formats** (`crates/bkp-chunker`) | none | pack index parsing, parity parsing and repair | used by the pack map and the chunk repair path |
| **Path handling** (`bkp-restore`: `list_snapshot_files`, `collect_files`, `strip_source_prefix`, `sanitize_cross_platform_subpath`, `resolve_dest`) | none | listing, destination mapping | used before the engine starts |
| **Manifest, crypto, config, types, oauth, log** (`crates/bkp-manifest`, `bkp-crypto`, `bkp-config`, `bkp-types`, `bkp-oauth`, `bkp-log`) | none that outlives a call | decoding, key derivation, validation, error classification, sign-in | used throughout |

What is hard, and where the properties below aim:

- *Interleavings* of file tasks on a multi-threaded runtime around the cache
  lock, the missing-pack set and the semaphore.
- *Cancel and pause* that must get through five loops, one of which sleeps with
  a result in its hand.
- *Crash recovery*: the order of sync and save, partial files, and what a later
  run believes.
- *Ownership of shared state*: one progress view and one pair of senders for
  restores that may overlap.
- *Error accounting*: which failures are errors, which are skips, and which
  vanish.
- *Texts that decide*: whether a call is retried, a token renewed or an object
  reported missing depends on phrases in an error's text, written by twelve
  backends and their libraries.
- *Late replies*: a window whose commands may answer in any order, after the user
  has moved on.

`PROJECT.json` lists the hazards one by one, at the line where each bites.

## 2. Modules

| module | models | composed with |
|---|---|---|
| `PackFetch` | what a caller of `get_or_download_pack` may rely on | implemented by `PackCache` |
| `PackCache` | the cache, its LRU queue and byte budget, and the workers inside `get_or_download_pack` | refines `PackFetch` |
| `RestoreRun` | what a caller of `restore_all` may rely on | implemented by `RestoreEngine`, kept by `RestoreSession` |
| `RestoreEngine` | one restore job over several runs: spawn loop, file tasks, drain loop, checkpoint, disk | refines `RestoreRun` |
| `RestoreSession` | the session, the window, the task and supervisor of each restore | each restore behaves as `RestoreRun` |
| `StorageErrors` | `is_transient` and `classify_error`, and the results of operations | used by the three below |
| `ObjectStores`, `Drives`, `FileShares` | the operations of the twelve backends, as requests and what becomes of each answer | used by `StorageCalls` |
| `StorageCalls` | a job, the retries, the token cache and a server that may fail | composes the four above |
| `PackParity` | the repair of a pack from its Reed-Solomon parity, as operators | what `StorageCalls` takes for granted of a repair |
| `TreeSelection`, `RestorePaths` | selection rules; listing and destinations, as operators | used by `RecoveryWindow` |
| `RecoveryWindow` | the window, the commands it invokes, the session, the restore seen from outside and its checkpoint | composes the two above |
| `MC*` | finite instances of the above | |
| `PackCacheProofs`, `RestoreEngineProofs`, `RestoreSessionProofs`, `TreeSelectionProofs`, `RecoveryWindowProofs`, `PackParityProofs` | theorems | each extends the module it is about |
| `StorageCallsProofs`, `StorageJobsProofs` | theorems about single calls; about the jobs made of several | the second extends the first |

### PackCache

`slot`, `notify`, `lru` and `readyBytes` are the fields of `BoundedPackCache`;
`pc`, `want` and `holds` are a worker's position and locals in
`get_or_download_pack`. The cache mutex is held for one action at a time. The
lookup under the lock (`LookupPending`) and the creation of the `Notified`
future (`Arm`) are two steps, because the code releases the lock in between.
`notify_waiters` wakes armed workers only and leaves no permit. `InsertReady`
states the eviction loop by its run: the sequence of `ready_bytes` values after
each eviction.

### RestoreEngine

`Start` is everything up to the spawn loop: load the checkpoint, resolve every
destination, verify the rows. `Spawn`, `Gate`, `Open`, `BeginFetch`, `Fetch*`
and `Finish` follow a file through its task; `Drain*`, `Held*` and `Commit*`
are the drain loop; `Conclude` is the reclassification and the result. A cancel
ends a run at once and leaves the file of every aborted task as it is.

File content is `absent`, `other` (the user's own file), `partial`, `hollow`
(right size, wrong bytes) or `full`. `synced` are the places whose content
survives a power loss. `rows` is what the checkpoint file says. `exempt` is
history: the files whose row the code itself left without synced data, either
by the unsynced save of a cancel (`DrainCancelled`) or because `Start` drops a
row in memory only.

Assumptions, all of them named in the module: a job is one snapshot, one target
and one overwrite mode; an aborted task's blocking call has landed before the
user starts the next run; after a power loss the checkpoint file is either as
last written or does not parse; an object missing from the storage stays missing.
`Permits`, `BatchSize`, `WholeFrom` (from how many chunks on a pack is downloaded
whole, 32 in the code) and the shape of the job are constants.

A task asks for bytes in up to three steps, and only the last watches the cancel
flag: it waits for another task's download of the same pack (`waiting`), asks for
the size of the pack (`sizing`), or fetches (`fetching`, inside `select!`). `Hang`
is a request that is never answered, in whichever of the three: the task joins
`stuck`. `Request` chooses between the three as `get_or_download_pack` does;
`PackCache` has the cache itself, and its lost wakeup is one way to be stuck.

### RestoreSession

`StartRestore` is guarded only by the window, as in the code: a view that is
closed and opened again has forgotten that a restore runs, so restores can
overlap, and `overlapped` remembers whether they did. `Finalise` and `Supervise`
write the one progress view and clear the one pair of senders. The engine
appears through `RestoreRun`: `RunsKeepTheContract` checks that every restore,
seen alone, is a behaviour of it, and `RestoreEngine!ImplementsRestoreRun` that
the engine is one too.

### StorageErrors, ObjectStores, Drives, FileShares, StorageCalls

A backend's operation is a handler: given the answer to the request in hand it
returns the next request or a result. An error's text is the set of the phrases
that `is_transient_msg` and `classify_error` look for, as far as the code or the
library it calls puts them there; a status code is such a phrase. Where two
conditions of a handler may hold at once, the first in the code decides: an
`IF` chain, or a `CASE` whose arms exclude each other.

`StorageCalls` runs one job at a time. `call` is the call in progress and where
it stands in the layers: building the backend, getting a token, renewing it
after a 401, waiting for an answer. `Exchange` is one request and what every
layer above makes of it: the handler, `with_token` or `reauth`, `with_retry`,
and, when the call is over, the job. Jobs are single operations and six
compositions: connect, test (bounded retries and a timeout), discover
(`discover_snapshots`), critical (`get_critical_decoded`), packmap
(`build_pack_map_from_storage`) and chunk (`fetch_chunk_ranged` with
`repair_and_decrypt_chunk`: the range, and if it does not decrypt the whole pack
and its parity). `cached` and `tokens` are the token cache and what the provider
accepts; `OtherRefreshes` and `OtherArrives` are another call's
refresh, which may arrive after a newer token. `Hangs` is a request that is never
answered, for the clients without a time limit (`Untimed`): `object_store` has none
and webdav.rs:112-117 sets none, SFTP and SMB set none, B2 and the drives do.

The server answers truthfully, or spends one of `MaxFaults`: a request that gets
no answer, half of one, 429 or 503. Tokens age once and are all revoked up to
`MaxDeaths` times. A share may be unmounted in the middle of a job. The tool
reads the endpoint's contents and nothing else changes them. The endpoint holds up
to four objects: `x`, its mirror, its parity and `y`; an object that is `bent` is a
pack damaged no further than its parity can repair. `StorageCallsAssumption` says
what a world may be: an operation the backend has, a configuration its kind can be
given, an archive tier only where there is one. `Steady` is an endpoint that is
there, takes the credentials and revokes its tokens once at most. An SFTP server that
does not take them says so when the connection is made ("denied").

Where the code falls short of a property, the property says so by name and gives
the backends: an operation that takes any failure for absence (`exists` of
OneDrive, Dropbox and the file backends), a listing that skips a folder it cannot
read (SFTP, local, SMB), a WebDAV answer that breaks off. These are listed as
hazards too. Of the root an endpoint is given, `ConnectedMeansReached` speaks only for
the kinds in `Rooted` (the object stores, Google Drive, SMB): WebDAV, SFTP, OneDrive
and Dropbox list a root that is not there as an empty one, and a local root is made by
the constructor (local.rs:34-42) before anybody looks for it.

### PackParity

A pack is a sequence of bytes cut into shards; `RepairPack` is `repair_pack`: parse
the header, find the shards whose checksum is off, refuse more of them than there
are parity shards, else reconstruct and cut to the length recorded. The checksum and
the erasure code are constants, of which the theorems assume what they name
(`ChecksumTells`, `IsErasureCode`). `restore_all`
decrypts its chunks itself and never repairs one: `repair_and_decrypt_chunk` is
reached through `restore_file` only, which the Recovery Tool does not call (a hazard
in `PROJECT.json` gives the lines).

### TreeSelection, RestorePaths, RecoveryWindow

A path is the sequence of its components. The code compares strings; among rules
that cover one path the longer string has more components, so depth stands for
length. `Included` is `ruleFor`, `PathSelected` the engine's `path_selected`, and
`Previewed` the size shown: three algorithms over one pair of rule sets.

In `RecoveryWindow`, `connect` and `browse` are the component state of the two
views, `form` the form that outlives them, `session` the backend and key, `calls`
the commands in flight. `Show` is App's `{#if}`: a view that leaves the screen
loses its state, its calls stay but their replies are applied to nothing
(`live`); what `rec_connect` and `rec_unlock` do to the session, and the phase
change of `onConnected`, happen nevertheless. `job` is the restore as the
checkpoint sees it: the first save, the progress task's saves in two steps, the
discard after success, whose failure the code ignores. A kill leaves the disk and
nothing else.

Left out: recents, labels, the destination and its free space, expansion of the
tree, the set details; two refreshes of one endpoint under way are one call. The
rules are edited before the restore (`Arranging`): the code hands the engine a
copy. Whether a call succeeds is open; `StorageCalls` has the reasons.

Four ghosts name where the code falls short, and the properties exempt them:
`overtaken` (a snapshot picked while another's files were being read), `raced` (two
connects overlapped), `late` (the progress task outlived its ten seconds) and `kept`
(the checkpoint of a restore that succeeded could not be removed). Without its
exemption TLC refutes each of these properties.

## 3. What the runs check

| run | instance | question and result |
|---|---|---|
| `packcache` | 3 workers, 3 packs of 1, 2 and 4 bytes, budget 3, 3 Notify objects | Downloads are single-flight (`SingleFlight`); queue, map and byte count agree (`LruIsReady`, `Accounting`); the budget is exceeded only by a pack that alone does (`Budget`); a waiter that armed in time is woken (`ArmedInTimeIsWoken`); the cache implements `PackFetch`. |
| `packcache_lost_wakeup` | same | **Violated**: `EveryWaiterHasAWaker`. A worker that lets go of the lock before it arms can miss the one wakeup. |
| `restore_engine` | 3 files over 2 packs (one may be gone), 2 permits, batches of 2, packs of 2 chunks downloaded whole, one task stuck at any point, one run | The result is what was restored (`OkMeansRestored`); a cancelled run ends even when paused, as long as one of its tasks can return (`CancelEndsTheRun`); a run that is not paused and of which no task is stuck ends (`RunEnds`); the engine implements `RestoreRun`. |
| `restore_resume` | 2 files, all overwrite modes, one file may exist beforehand, one cannot be synced, 2 runs, 2 faults | Over kills, power losses and deleted files, `OkMeansRestored` still holds, rows are durable (`RowsAreDurable`) and no recorded completion is lost (`ProgressIsKept`). |
| `cancel_without_fsync` | 2 files, 1 run | **Violated**: `RowsNeverOutliveData`. The cancel branch of the drain loop saves without syncing. |
| `skip_resume` | 2 files, 2 runs, Skip | **Violated**: `NoPartialFile`. A cancelled run leaves a partial file and the next run, in the mode the Recovery Tool uses, passes over it and reports Ok. |
| `session` | 2 restores | When restores follow one another the screen tells the truth and the last one can be stopped (`OneAtATime`); a terminal status stands (`TerminalStatusStands`) and comes (`StatusBecomesTerminal`); the screen unlocks (`ScreenUnlocks`); every run keeps `RestoreRun`. |
| `session_silent_loss` | 2 restores | **Violated**: `NothingLostSilently`. A restore whose senders were replaced gives files up and returns Ok. |
| `storage_calls` | twelve kinds of endpoint, four objects over two pages, 659 combinations of job, contents and configuration; 2 faults, 1 revocation | What an operation reports is so (`ErrorsTellTheTruth`); a listing that succeeds is whole (`ListsAreWhole`); an outage never shows (`OutagesAreRiddenOut`); the mirror stands in when it can (`CriticalReads`); every set is opened or counted (`SetsAreAccounted`), every readable pack is in the map (`PackMapIsWhole`); a chunk of a damaged pack is repaired or its damage reported (`ChunksAreRepaired`); connecting means reaching (`ConnectedMeansReached`); every call ends unless its request hangs, the test of a connection even then (`EveryCallEnds`). |
| `critical_missing` | the same | **Violated**: `MissingMeansBothMissing`. An index in an archive tier whose mirror is absent is reported missing. |
| `recovery_window` | 2 endpoints, 3 snapshots (nested folders, two drives, one file), 2 connects, 2 reads at a time, 1 kill | Tree, size and restore agree (`ScreenTellsTheRestore`); a click takes its subtree and nothing else (`ToggleTakesTheSubtree`); the tree shown is that of the snapshot picked (`TreeIsOfThePick`); what is browsed is what is connected (`BrowsedIsConnected`); an interrupted restore, and no finished one, has a checkpoint (`CheckpointFollowsTheRestore`); a pick is shown or fails (`EveryPickIsShown`). |
| `restore_two_drives` | the same, 1 connect | **Violated**: `DrivesStayApart`. `C:/f` and `D:/f` are restored to one path. |

Each violated property quotes a comment or requirement of the repository; the
findings in `PROJECT.json` give the lines. Some divergences have no run:

- The comment on the reclassification (lib.rs:1829-1831) announces "1 error + N
  skipped", while the code moves every error that names a missing pack, the first
  included, to the skips; the one error is the `Err` that restore_all returns.
  `Conclude` is the code.
- Connect.svelte:13 and 234-235 say that a test must succeed before Continue and that
  stale results do not enable it. `handleTestConnection` (341-342) sets the verdict
  whatever the form says by then, so a form changed under a test is connected
  untested (`TestReply` after `EditForm`). rec_connect probes what it is given, and
  `ConnectedMeansReached` holds of it.
- local.rs:79-81 and commands.rs:326-329 mean to refuse a local root that is not
  there. The constructor has created it by then; with local in `Rooted` TLC refutes
  `ConnectedMeansReached`.
- session.rs:53-56 says that the senders are "replaced on every `rec_start_restore`".
  When restores overlap, the end of the older clears those of the newer
  (commands.rs:1204-1206), which can no longer be stopped. `NewestCanBeStopped` in
  `RestoreSession` says so, and TLC refutes it on the instance of
  `session_silent_loss`; the cause is the same.

**Bounds.** Three workers are the least with a downloader, a waiter that armed
and one that has not; three packs of these sizes make the eviction loop evict
none, one and two. Three files with two permits leave one file queued, and
batches of two leave one completion over at the end of a run. `WholeFrom` of two
makes one pack one that goes through the cache, so that a task waits for another's
download; `MaxStuck` of one lets any one request hang, which holds up those behind
it; in the two-run instances nothing hangs, for they look at what is left on disk. `MaxRuns`,
`MaxFaults` and `MaxRestores` bound how often the user presses Restore and how
often something fails; two of each allow a fault in the run and one before its
resumption, and an old restore beside a new one. Two pages, two objects and a
mirror are the least with something to lose on a later page and a copy to fall
back on; two faults fail a call, then its retry or its mirror. The chunk worlds take every
combination of a pack and its parity being good, damaged or lost on four kinds of
endpoint. `MCStorageCalls` also does the repair itself: `ParityRepairs` evaluates
`PackParity` on every pack of up to three bits, every damage to it, and two shards
with their sum as parity. `IdCodes` is empty:
object names whose digits read as a status code are not looked at (with `{"404"}`
TLC refutes `ErrorsTellTheTruth`, a hazard of its own). Two connects and two
reads are the least that overlap; a folder in a folder with a file beside it is
the least tree with a rule under a rule under a rule. Deadlock is not checked
where the bounds let the system stop (`RestoreEngine`, `RestoreSession`).

**Fairness.** `PackCache!FairSpec` and `RestoreEngine!FairSpec` are weak
fairness of each task and of the engine: tokio polls every ready task, and tokio's
mutex and semaphore are first come first served. The storage owes no answer: a
request may hang (`Hang`, `Hangs`), because the clients of `object_store` and WebDAV
have no request timeout and the retries, which would begin after it, no end
(commands.rs:212-218, webdav.rs:112-117). The liveness properties say who is held up
by that: a cancelled run unless all of its tasks are `Blocked` where they do not watch
the flag, an uncancelled one if a task is `stuck`, a call that is `hung`. What is not
stuck has an answer, good or bad. The user is never fair: nobody has to cancel, resume
or press Restore. In `RestoreSession` the engine is fair unless it is paused: the
session's properties are about its own part, and take it that restore_all returns,
which `RunEnds` and `CancelEndsTheRun` establish for runs that are not held up so. In
`StorageCalls` the layers are weakly fair together: a request that does not hang is
answered or fails. In `RecoveryWindow` only the reply to `rec_list_snapshot_files` is
fair: it presumes that its request does not hang and that an endpoint that is down
comes back, for the default retries never give up.

**Mutants.** Next to a definition there may be a variant under the comment
"Mutant": a plausible mistake in that code. Replacing the definition by it makes
TLC find the property named in `PROJECT.json` violated.

## 4. What is proved

The eight `*Proofs` modules are checked by TLAPS for every value of the constants,
from the assumptions declared in `PackCache`, `RestoreEngine`, `RestoreSession`,
`RecoveryWindow` and `StorageCalls` (sizes, bounds, permits and the budget are
naturals, permits and the batch size not zero; the chunks of a file name packs; the
modes are the three of the code; the "none" values are not members of their sets; an
endpoint lists a snapshot it holds; in a tree nothing lies below a file, and no entry
has the empty path, which is the root the walks leave out; a world is one its kind of
endpoint can be). A theorem about `Spec` holds of `FairSpec` too. Every safety
invariant and action property that a passing run checks is the statement of one of
these theorems.

- **PackCache**: `TypeCorrect`, `SingleFlightHolds`, `LruIsReadyHolds`,
  `BudgetHolds`, `AccountingHolds` and `CacheImplementsPackFetch`. `SingleFlight`
  and `LruIsReady` are inductive together with the types: the queue names Ready slots only, so an
  eviction cannot touch the Pending slot of a download in flight, and a slot is
  Pending exactly while one worker owns it. The eviction loop is handled by a
  lemma on one run of it (what is left of the queue, that the byte count does
  not grow, and that it stops below the budget or with the queue empty).
  `Accounting` is a recursive sum over the queue. The proof works with any function
  that satisfies the equations of the sums (`Sums`), and shows by least
  counterexample (`UpTo`) that there is one, that the recursion computes it, and that
  no prefix is larger than the whole: so the saturating subtraction of the eviction
  loop never saturates, and an insertion and a promotion have sums of their own.
- **RestoreEngine**: `TypeCorrect`, `RowsAreDurableHolds`, `ProgressIsKeptHolds`
  and, from one more invariant, `OkMeansRestoredHolds`
  and the refinement `EngineImplementsRestoreRun`.
  The first three rest on `IInv`; none of them but the first is inductive alone.
  `Bookkeeping` places every completion of a run in the rows of the checkpoint file
  or in the pending batch, so whatever saves the batch saves all of them. `TaskFacts` says that a completed file is not one a task
  still writes, and that a pending one is whole on the disk, so that syncing it
  makes its row durable. `RowsBacked` demands of a row's file that it is synced
  even when its size is wrong, because the next power loss could otherwise give
  an unsynced one the right size and the wrong bytes. At a new run the place of a
  row's file may change; `CopyMeansRename` shows that it then fails
  verify-on-resume. The actions of a file task are handled together, by
  the lemma that each is a `WorkerStep`, and the four ways to save a batch by
  `SavedBacks`. `OkMeansRestored` speaks of all files and of the end of the run
  only, so `Told` carries what the engine learns on the way: the spawn loop passes
  over a file only if it is done or left alone; every other is heard of before
  `finalize`, and none that was cancelled while the senders are there; an error
  names nothing or a pack of its file. With `IInv`, a file that is complete has a
  backed row, and one that is not has told an error, which is either kept (no Ok)
  or names a missing pack of that file (`ConcludeTold`). The refinement has one lemma
  per action of `RestoreRun`; what it needs of `Told` is that `Conclude` has heard of
  every file, so that it cannot return over one lost to a cancel.
- **RestoreSession**: `TypeCorrect`, `OneAtATimeHolds`, `TerminalStatusStandsHolds`
  and `RunsKeepTheContractHolds`. `OneAtATime` is not inductive: it does not say
  who may still write the shared view. The strengthening `Alone` does: while
  restores do not overlap, every restore but the last is over, and the last one
  holds its senders and shows "running" until its own finalise block. With its
  senders in place a file can be lost only to a cancel, and then `Finish` has no
  Ok to return. The contract of each run holds of overlapping restores too: a step of
  another restore is to it a signal, a dropped sender or nothing (`SeenBy`).
- **Selection rules**: `ToggleTurnsTheSubtree` and `EngineAgreesWithTheTree`, for
  any path and any two sets of rules. Both rest on `CoversAreNested`: of two rules
  that cover one path, one lies under the other, so the longest is the deepest and
  a rule that covers a path from above covers all of its subtree. The engine's
  search for the longest rule needs a largest element of a bounded set of
  naturals; it comes from the well-foundedness of `<`.
- **RecoveryWindow**: `TypeCorrect`, `BrowsedIsConnectedHolds`,
  `TreeIsOfThePickHolds`, `CheckpointFollowsTheRestoreHolds`,
  `ToggleTakesTheSubtreeHolds` and
  `ScreenTellsTheRestoreHolds`: everything its run checks except
  `EveryPickIsShown`. `BrowsedIsConnected` is not inductive, because a connect in
  flight may change the session behind Browse. `Window` says why it does not: as
  long as connects do not overlap there is at most one, and none once Browse is
  the phase; every call of Browse asks the session's own endpoint; and a view off
  the screen keeps nothing, so nothing of an earlier endpoint is left to show.
  `ScreenTellsTheRestore` needs that the selection consists of rows of the tree on
  screen (`SelectionIsShown`); the exclusions need not, since `pickSnapshot`
  leaves them when an answer comes late.
- **Parity**: `RepairRestores` (damage to no more shards than there are parity
  shards gives the pack that was backed up), `IntactIsUntouched` and
  `BeyondRepairIsRefused`, for any geometry and size, from an erasure code and a
  checksum that tells the damaged shards from the original ones.
- **Storage, a call at a time** (`StorageCallsProofs`): `BaseIsInvariant`,
  `StorageCallsTypeOK`, `ConnectionsAreReal` and `ErrorsAreTrue`. The argument climbs
  the layers: what the phrases of a text say (`SaysLine` and the lemmas after it);
  what each handler makes of each answer, one lemma per backend and operation; what
  an answer tells of the endpoint (`Told` for objects, `Listed` for pages); where a
  result leaves the call and the job. `Base` places the call among those its job
  makes and the tokens among those issued, and says that a root is gone only after a
  fault; `Truth` adds that what a finished operation told is so.
- **Storage, the jobs** (`StorageJobsProofs`): `JobsKeepTheirBooks` and from it
  `ListingsAreWhole`, `OutagesDoNotShow`, `CriticalReadsFindTheCopy`,
  `SetsAreOpenedOrCounted`, `PackMapsAreWhole` and `DamagedChunksAreRepaired`. These
  properties speak of the end of a job and say nothing on the way. The invariant does:
  `Gathered`, the objects a listing has so far are those of the pages behind it;
  `Renewing`, while tokens are revoked once at most, a token held after a renewal is
  one the provider accepts; and what each job has written down (`MirrorFits`,
  `DiscoverFits`, `PackMapFits`, `ChunkFits`): the sets or packs not in `todo` are
  opened or counted as they should be, and a result that is held is true of the object
  it was asked of. TLC checked all of it on the instance of `storage_calls`, and with
  two revocations, before the proof. `CriticalReadsFindTheCopy` promises less than
  get_critical_decoded does: of a "not found" it says nothing, see `critical_missing`.

`ErrorsAreTrue` and the theorems on jobs assume `Legible`: no object name spells a
status code that is final. Without it they are false (an object called `...404...` is
reported missing when its server is busy), which is a hazard and not an artefact.

Only model-checked: the liveness properties (`ArmedInTimeIsWoken`,
`CancelEndsTheRun`, `RunEnds`, `StatusBecomesTerminal`, `ScreenUnlocks`,
`EveryCallEnds`, `EveryPickIsShown`), because the provers handle neither fairness nor
ENABLED; and `ParityRepairs`, that an actual code meets what the theorems on parity
assume.

## 5. Not modelled

Symlinks, sparse files, file metadata, directory creation and their order;
progress events and the counters shown; a panic inside a file task (the drain
loop ignores its `JoinError`); two jobs sharing one checkpoint file; an answer to
a poll that is delayed across a new restore. Of the storage: back-off durations
and the rate limiter (they delay and change no result), URLs, headers, XML and
JSON decoding, the operations the Recovery Tool never calls. Of the window:
rec_disconnect, rec_discard_checkpoint, rec_list_checkpoints and the Unlock view,
which nothing on screen reaches; the OAuth relay of Connect.

Pack footers and headers, manifests, key derivation and encryption, endpoint URLs and
the settings are sequential functions of bytes and strings without state that
outlives a call. Their correctness is arithmetic or parsing; the models take them as
succeeding or failing where they are called.

## 6. What is left

- The liveness properties stay with TLC. The invariants that a liveness argument
  would start from (who wakes a waiter, what a call waits for) could be proved.
- `RecoveryWindow` and `RestoreSession` show the session at two grains; that the
  first is an abstraction of the second is not shown.
- The ranges of a chunk and the footer of a pack are one step each; their arithmetic
  could be modelled as `PackParity` is.
