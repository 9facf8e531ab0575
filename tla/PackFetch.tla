------------------------------ MODULE PackFetch ------------------------------
(***************************************************************************)
(* What get_or_download_pack promises its callers, without the lock, the   *)
(* Notify objects or the eviction order: "Return a cached copy of          *)
(* pack_path, downloading it at most once" (crates/bkp-restore/src/lib.rs).*)
(* A pack enters the cache only when the one worker that fetches it        *)
(* finishes; packs leave it only to make room at such a moment.            *)
(***************************************************************************)
CONSTANTS Workers, Packs, NoPack

VARIABLES
    cached,     \* the packs a caller is served without a download
    fetching    \* fetching[w]: the pack worker w downloads, or NoPack

vars == <<cached, fetching>>

Init ==
    /\ cached = {}
    /\ fetching = [w \in Workers |-> NoPack]

(* Nobody holds the pack and nobody fetches it: w does. *)
Start(w, k) ==
    /\ fetching[w] = NoPack
    /\ k \notin cached
    /\ \A v \in Workers : fetching[v] # k
    /\ fetching' = [fetching EXCEPT ![w] = k]
    /\ UNCHANGED cached

Finish(w) ==
    /\ fetching[w] # NoPack
    /\ \E kept \in SUBSET cached : cached' = kept \cup {fetching[w]}
    /\ fetching' = [fetching EXCEPT ![w] = NoPack]

Fail(w) ==
    /\ fetching[w] # NoPack
    /\ fetching' = [fetching EXCEPT ![w] = NoPack]
    /\ UNCHANGED cached

Next ==
    \E w \in Workers :
        \/ \E k \in Packs : Start(w, k)
        \/ Finish(w)
        \/ Fail(w)

Spec == Init /\ [][Next]_vars
=============================================================================
