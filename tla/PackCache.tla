------------------------------ MODULE PackCache ------------------------------
(***************************************************************************)
(* The pack cache that the file workers of one restore share               *)
(* (BoundedPackCache) and the function through which they use it           *)
(* (get_or_download_pack), both in crates/bkp-restore/src/lib.rs.          *)
(*                                                                         *)
(* A worker asks for one pack at a time.  The cache mutex is held for the  *)
(* length of one action and never across an await, so each critical        *)
(* section is one atomic step; between two of them any other worker may    *)
(* run.  The gap that matters is the one between releasing the lock with a *)
(* Pending slot in hand and creating the Notified future: the two are      *)
(* separate steps here, LookupPending and Arm, as they are on a            *)
(* multi-threaded runtime.                                                 *)
(*                                                                         *)
(* A Notify object is a member of Notifies.  Allocating one takes a member *)
(* that nobody refers to any more, which is what Arc::new gives.           *)
(* notify_waiters wakes the futures created before the call and leaves no  *)
(* permit behind.  Progress counters (packs_downloaded) are left out: they *)
(* are displayed, never read.                                              *)
(***************************************************************************)
EXTENDS Integers, Sequences

CONSTANTS
    Workers,    \* the file workers of one restore_all
    Packs,      \* pack paths
    Notifies,   \* the pool Notify objects are allocated from
    NoNotify,   \* "no Notify object"
    NoPack,     \* "no pack", in PackFetch
    Size,       \* Size[k]: bytes in pack k
    MaxBytes    \* BoundedPackCache::max_bytes

ASSUME SizeAssumption     == Size \in [Packs -> Nat]
ASSUME MaxBytesAssumption == MaxBytes \in Nat
ASSUME NoneAssumption     == NoNotify \notin Notifies /\ NoPack \notin Packs

VARIABLES
    slot,       \* slot[k]: what `map` holds for k
    notify,     \* notify[k]: the Notify inside a Pending slot
    lru,        \* `lru`, oldest first
    readyBytes, \* `ready_bytes`
    pc,         \* pc[w]: where worker w stands in get_or_download_pack
    want,       \* want[w]: the pack it last asked for
    holds       \* holds[w]: its local `notify`

cacheVars  == <<slot, notify, lru, readyBytes>>
workerVars == <<pc, want, holds>>
vars       == <<cacheVars, workerVars>>

-----------------------------------------------------------------------------
(* PackEntry, with "absent" for a key the map does not hold. *)
SlotStates == {"absent", "pending", "ready"}

(* idle: outside the function; lookup: about to lock the cache; unarmed:   *)
(* holds a Pending slot's Notify, lock released, no Notified future yet;   *)
(* armed: awaiting notified(); download: in download_pack_resilient;       *)
(* fetched, failed: it returned, the lock is not yet retaken.              *)
WorkerStates ==
    {"idle", "lookup", "unarmed", "armed", "download", "fetched", "failed"}

(* Between insert_pending and the matching insert_ready or remove. *)
Owning == {"download", "fetched", "failed"}

SetOfSeq(s) == {s[i] : i \in 1 .. Len(s)}

(* VecDeque::remove at the position of k. *)
Without(s, k) ==
    LET p == CHOOSE i \in 1 .. Len(s) : s[i] = k
    IN  [i \in 1 .. Len(s) - 1 |-> IF i < p THEN s[i] ELSE s[i + 1]]

SaturatingSub(a, b) == IF b <= a THEN a - b ELSE 0

(* Notify objects some slot or some worker still refers to. *)
LiveNotifies ==
    {notify[k] : k \in Packs} \cup {holds[w] : w \in Workers}

(* packs_in_flight, the counter that gates the heartbeat task. *)
PacksInFlight == {w \in Workers : pc[w] = "download"}

-----------------------------------------------------------------------------
Init ==
    /\ slot = [k \in Packs |-> "absent"]
    /\ notify = [k \in Packs |-> NoNotify]
    /\ lru = <<>>
    /\ readyBytes = 0
    /\ pc = [w \in Workers |-> "idle"]
    /\ want \in [Workers -> Packs]
    /\ holds = [w \in Workers |-> NoNotify]

(* write_file_with_pack_cache needs a chunk of a multi-chunk pack. *)
Request(w) ==
    /\ pc[w] = "idle"
    /\ \E k \in Packs : want' = [want EXCEPT ![w] = k]
    /\ pc' = [pc EXCEPT ![w] = "lookup"]
    /\ UNCHANGED <<cacheVars, holds>>

(* Mutant: the key is pushed without being taken out of the queue first. *)
LookupReadyPushesOnly(w) ==
    /\ pc[w] = "lookup"
    /\ slot[want[w]] = "ready"
    /\ lru' = Append(lru, want[w])
    /\ pc' = [pc EXCEPT ![w] = "idle"]
    /\ UNCHANGED <<slot, notify, readyBytes, want, holds>>

(* guard.get finds Ready: promote the key and return the data. *)
LookupReady(w) ==
    /\ pc[w] = "lookup"
    /\ slot[want[w]] = "ready"
    /\ lru' = Append(Without(lru, want[w]), want[w])
    /\ pc' = [pc EXCEPT ![w] = "idle"]
    /\ UNCHANGED <<slot, notify, readyBytes, want, holds>>

(* Mutant: a Pending slot does not stop a second download. *)
LookupPendingDownloads(w) ==
    /\ pc[w] = "lookup"
    /\ slot[want[w]] = "pending"
    /\ holds' = [holds EXCEPT ![w] = notify[want[w]]]
    /\ pc' = [pc EXCEPT ![w] = "download"]
    /\ UNCHANGED <<cacheVars, want>>

(* guard.get finds Pending: clone the Notify and drop the lock. *)
LookupPending(w) ==
    /\ pc[w] = "lookup"
    /\ slot[want[w]] = "pending"
    /\ holds' = [holds EXCEPT ![w] = notify[want[w]]]
    /\ pc' = [pc EXCEPT ![w] = "unarmed"]
    /\ UNCHANGED <<cacheVars, want>>

(* guard.get finds nothing: insert a Pending slot and start the download. *)
LookupAbsent(w) ==
    /\ pc[w] = "lookup"
    /\ slot[want[w]] = "absent"
    /\ \E n \in Notifies \ LiveNotifies :
          /\ notify' = [notify EXCEPT ![want[w]] = n]
          /\ holds' = [holds EXCEPT ![w] = n]
    /\ slot' = [slot EXCEPT ![want[w]] = "pending"]
    /\ pc' = [pc EXCEPT ![w] = "download"]
    /\ UNCHANGED <<lru, readyBytes, want>>

(* notify.notified(): from here on the future sees notify_waiters. *)
Arm(w) ==
    /\ pc[w] = "unarmed"
    /\ pc' = [pc EXCEPT ![w] = "armed"]
    /\ UNCHANGED <<cacheVars, want, holds>>

(* Mutant: a cancelled download ends in a state nothing leads out of. *)
DownloadEndsOrCancels(w) ==
    /\ pc[w] = "download"
    /\ \E s \in {"fetched", "failed", "cancelled"} : pc' = [pc EXCEPT ![w] = s]
    /\ UNCHANGED <<cacheVars, want, holds>>

(* download_pack_resilient returns, with the pack or with an error (the    *)
(* backend failed, or a select! against cancel_rx fired).                  *)
DownloadEnds(w) ==
    /\ pc[w] = "download"
    /\ \E s \in {"fetched", "failed"} : pc' = [pc EXCEPT ![w] = s]
    /\ UNCHANGED <<cacheVars, want, holds>>

(* Mutant: notify_one where notify_waiters is needed. *)
ReturnAndNotifyOne(w) ==
    LET waiters == {v \in Workers : pc[v] = "armed" /\ holds[v] = holds[w]}
        woken   == IF waiters = {} THEN {} ELSE {CHOOSE v \in waiters : TRUE}
    IN  [v \in Workers |->
            IF v = w THEN "idle" ELSE IF v \in woken THEN "lookup" ELSE pc[v]]

(* pc after w's call returns and notify_waiters has woken those that armed *)
(* on its Notify.                                                          *)
ReturnAndNotify(w) ==
    [v \in Workers |->
        IF v = w THEN "idle"
        ELSE IF pc[v] = "armed" /\ holds[v] = holds[w] THEN "lookup"
        ELSE pc[v]]

(* The references to Notify n that remain once w and those it woke have    *)
(* dropped theirs.                                                         *)
DropNotify(w) ==
    [v \in Workers |->
        IF v = w \/ (pc[v] = "armed" /\ holds[v] = holds[w])
        THEN NoNotify ELSE holds[v]]

(* Mutant: one eviction at most. *)
EvictOnce(q, size, n, left) ==
    /\ left[0] = readyBytes
    /\ \A i \in 1 .. n :
          /\ left[i - 1] + size > MaxBytes
          /\ left[i] = SaturatingSub(left[i - 1], Size[q[i]])
    /\ left[0] + size > MaxBytes => n = 1 \/ Len(q) = 0
    /\ n <= 1

(* Mutant: an eviction does not give its bytes back. *)
EvictUncounted(q, size, n, left) ==
    /\ left[0] = readyBytes
    /\ \A i \in 1 .. n : left[i - 1] + size > MaxBytes /\ left[i] = left[i - 1]
    /\ left[n] + size > MaxBytes => n = Len(q)

(* One run of the eviction loop: left[i] is ready_bytes after i evictions  *)
(* from the front of queue q; the loop stops after n.                      *)
EvictionRun(q, size, n, left) ==
    /\ left[0] = readyBytes
    /\ \A i \in 1 .. n :
          /\ left[i - 1] + size > MaxBytes
          /\ left[i] = SaturatingSub(left[i - 1], Size[q[i]])
    /\ left[n] + size > MaxBytes => n = Len(q)

(* insert_ready for a key whose slot is Pending: evict from the front of   *)
(* the queue until the pack fits or the queue is empty, then append.       *)
InsertReady(k) ==
    \E n \in 0 .. Len(lru) : \E left \in [0 .. n -> 0 .. readyBytes] :
        /\ EvictionRun(lru, Size[k], n, left)
        /\ readyBytes' = left[n] + Size[k]
        /\ lru' = Append(SubSeq(lru, n + 1, Len(lru)), k)
        /\ slot' = [j \in Packs |->
                       IF j = k THEN "ready"
                       ELSE IF \E i \in 1 .. n : lru[i] = j THEN "absent"
                       ELSE slot[j]]

(* The Ok arm: publish the pack, wake the waiters, return it. *)
Publish(w) ==
    /\ pc[w] = "fetched"
    /\ InsertReady(want[w])
    /\ notify' = [notify EXCEPT ![want[w]] = NoNotify]
    /\ pc' = ReturnAndNotify(w)
    /\ holds' = DropNotify(w)
    /\ UNCHANGED want

(* Mutant: the error returns with the Pending slot in place. *)
AbandonKeepsSlot(w) ==
    /\ pc[w] = "failed"
    /\ pc' = ReturnAndNotify(w)
    /\ holds' = DropNotify(w)
    /\ UNCHANGED <<cacheVars, want>>

(* The Err arm: clear the Pending slot, wake the waiters, return the error.*)
Abandon(w) ==
    /\ pc[w] = "failed"
    /\ slot' = [slot EXCEPT ![want[w]] = "absent"]
    /\ notify' = [notify EXCEPT ![want[w]] = NoNotify]
    /\ pc' = ReturnAndNotify(w)
    /\ holds' = DropNotify(w)
    /\ UNCHANGED <<lru, readyBytes, want>>

(* What a worker inside the function does without being asked. *)
Step(w) ==
    \/ LookupReady(w)
    \/ LookupPending(w)
    \/ LookupAbsent(w)
    \/ Arm(w)
    \/ DownloadEnds(w)
    \/ Publish(w)
    \/ Abandon(w)

Next == \E w \in Workers : Request(w) \/ Step(w)

Spec == Init /\ [][Next]_vars

(* The runtime keeps polling a task that is ready, the backend's timeouts  *)
(* end every download, and tokio's mutex is first come, first served.      *)
(* Nothing obliges a file to need another chunk.                           *)
FairSpec == Spec /\ \A w \in Workers : WF_vars(Step(w))

-----------------------------------------------------------------------------
TypeOK ==
    /\ slot \in [Packs -> SlotStates]
    /\ notify \in [Packs -> Notifies \cup {NoNotify}]
    /\ lru \in Seq(Packs)
    /\ readyBytes \in Nat
    /\ pc \in [Workers -> WorkerStates]
    /\ want \in [Workers -> Packs]
    /\ holds \in [Workers -> Notifies \cup {NoNotify}]

(* At most one worker downloads a pack, and its slot is Pending exactly as *)
(* long as it does: nothing evicts, overwrites or forgets the slot of a    *)
(* download in flight.                                                     *)
SingleFlight ==
    /\ \A w \in Workers : pc[w] \in Owning =>
          slot[want[w]] = "pending" /\ notify[want[w]] = holds[w]
    /\ \A k \in Packs : slot[k] = "pending" =>
          \E w \in Workers : pc[w] \in Owning /\ want[w] = k
    /\ \A v, w \in Workers :
          pc[v] \in Owning /\ pc[w] \in Owning /\ want[v] = want[w] => v = w

(* The recency queue names each Ready pack once and nothing else, so the   *)
(* eviction loop can never pick a Pending slot or miss a Ready one.        *)
LruIsReady ==
    /\ SetOfSeq(lru) = {k \in Packs : slot[k] = "ready"}
    /\ \A i, j \in 1 .. Len(lru) : lru[i] = lru[j] => i = j

(* The cache exceeds its byte budget only for one pack that alone does. *)
Budget == readyBytes <= MaxBytes \/ Len(lru) = 1

(* ready_bytes is the size of what is cached, over any sequence of         *)
(* insertions, evictions and promotions.                                   *)
Accounting ==
    LET sum[i \in 0 .. Len(lru)] ==
            IF i = 0 THEN 0 ELSE sum[i - 1] + Size[lru[i]]
    IN  readyBytes = sum[Len(lru)]

(* An armed waiter listens on the Notify of a download that is in flight   *)
(* for its pack, or on one nobody will fire.  The second case is the lost  *)
(* wakeup.                                                                 *)
Stranded(w) ==
    /\ pc[w] = "armed"
    /\ \A d \in Workers : ~(pc[d] \in Owning /\ holds[d] = holds[w])

(* A worker that waits has a worker that will wake it: "concurrent callers *)
(* wait on the same Notify and re-check the cache when woken".             *)
EveryWaiterHasAWaker == \A w \in Workers : ~Stranded(w)

(* A waiter that armed while its download was in flight goes back to the   *)
(* cache, whether the download succeeds or fails.                          *)
ArmedInTimeIsWoken ==
    \A w \in Workers : (pc[w] = "armed" /\ ~Stranded(w)) ~> pc[w] # "armed"

(* get_or_download_pack implements PackFetch: every step of the cache and  *)
(* its workers starts, finishes or fails the one download of a pack, or    *)
(* changes nothing a caller can see.                                       *)
Fetch == INSTANCE PackFetch WITH
    cached   <- {k \in Packs : slot[k] = "ready"},
    fetching <- [w \in Workers |-> IF pc[w] \in Owning THEN want[w] ELSE NoPack]

ImplementsPackFetch == Fetch!Spec
=============================================================================
