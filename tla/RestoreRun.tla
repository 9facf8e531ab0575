------------------------------ MODULE RestoreRun ------------------------------
(***************************************************************************)
(* What one caller of RestoreEngine::restore_all may rely on, without the  *)
(* tasks, the checkpoint or the disk (crates/bkp-restore/src/lib.rs).  The *)
(* caller owns the two watch senders; files are given up (`lost`) only     *)
(* once it has cancelled or dropped them, and a run that has given files   *)
(* up returns Cancelled, unless it lost them to a dropped sender.          *)
(***************************************************************************)
VARIABLES
    running,    \* restore_all has been called and has not returned
    result,     \* what the last call returned
    lost,       \* some file of the run was given up as Cancelled
    cancel,     \* *cancel_rx.borrow()
    paused,     \* *pause_rx.borrow()
    hungup      \* the senders were dropped

signals == <<cancel, paused, hungup>>
vars    == <<running, result, lost, signals>>

Init ==
    /\ ~running /\ ~lost /\ result = "none"
    /\ cancel = FALSE /\ paused = FALSE /\ hungup = FALSE

(* The channels are the caller's: they may have been used before the call. *)
Begin ==
    /\ ~running
    /\ running' = TRUE /\ lost' = FALSE /\ result' = "none"
    /\ signals' \in BOOLEAN \X BOOLEAN \X BOOLEAN

Lose ==
    /\ running /\ (cancel \/ hungup)
    /\ lost' = TRUE
    /\ UNCHANGED <<running, result, signals>>

Finish ==
    /\ running
    /\ lost => hungup
    /\ result' \in {"ok", "incomplete", "error"}
    /\ running' = FALSE
    /\ UNCHANGED <<lost, signals>>

Cancelled ==
    /\ running /\ cancel
    /\ result' = "cancelled" /\ running' = FALSE /\ lost' = FALSE
    /\ UNCHANGED signals

(* The manifest or a destination is unusable: nothing was begun. *)
Reject ==
    /\ ~running
    /\ result' = "error"
    /\ UNCHANGED <<running, lost, signals>>

(* The process, or the task that runs restore_all, dies. *)
Die ==
    /\ running' = FALSE /\ result' = "none" /\ lost' = FALSE
    /\ signals' \in BOOLEAN \X BOOLEAN \X BOOLEAN

(* The caller is done with the result. *)
Forget ==
    /\ ~running
    /\ result' = "none"
    /\ UNCHANGED <<running, lost, signals>>

Signal ==
    /\ ~hungup
    /\ cancel' \in {cancel, TRUE} /\ paused' \in BOOLEAN /\ hungup' \in BOOLEAN
    /\ UNCHANGED <<running, result, lost>>

Next == Begin \/ Lose \/ Finish \/ Cancelled \/ Reject \/ Die \/ Forget \/ Signal

Spec == Init /\ [][Next]_vars
=============================================================================
