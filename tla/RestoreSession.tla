---------------------------- MODULE RestoreSession ----------------------------
(***************************************************************************)
(* The Recovery Tool around the engine: the shared Session and the         *)
(* commands that start, pause, resume and cancel a restore, the task that  *)
(* runs it and its supervisor (crates/bkp-recover/src/commands.rs), and    *)
(* the part of the window that decides when the user may press Restore     *)
(* (ui/src/App.svelte, ui/src/views/Browse.svelte).                        *)
(*                                                                         *)
(* restore_all is seen through the contract of RestoreRun: it may give     *)
(* files up once it is cancelled or its sender is dropped, and returns.    *)
(* Session's lock is held for the length of one action.  The counters of   *)
(* the progress view are left out; its status decides what the window and  *)
(* the user do.                                                            *)
(***************************************************************************)
EXTENDS Integers

CONSTANT MaxRestores    \* bound: how often Restore is pressed

ASSUME MaxRestoresAssumption == MaxRestores \in Nat

Restores == 1 .. MaxRestores

VARIABLES
    mounted,    \* Browse is on screen
    restoring,  \* Browse's `restoring`: the button is disabled, the timer polls
    newest,     \* the restore started last, or 0
    status,     \* Session::progress.status
    senders,    \* the restore whose senders Session holds, or 0
    task,       \* task[r]: where the task of restore r stands
    result,     \* result[r]: what restore_all returned to it
    lost,       \* lost[r]: some file of r was given up as Cancelled
    cancel,     \* cancel[r]: the last value of its cancel channel
    paused,     \* paused[r]: the last value of its pause channel
    overlapped  \* ghost: a restore was started before the last one was over

window   == <<mounted, restoring>>
session  == <<newest, status, senders>>
engines  == <<task, result, lost>>
channels == <<cancel, paused>>
vars     == <<window, session, engines, channels, overlapped>>

Terminal == {"complete", "error", "cancelled"}

(* none: not started; mapping: reads the pack indices; running: inside     *)
(* restore_all; returned: waits for the progress task; finalised, failed:  *)
(* ended, the supervisor has yet to look; over: nothing of it is left.     *)
TaskStates == {"none", "mapping", "running", "returned", "finalised", "failed", "over"}

Results == {"none", "ok", "incomplete", "error", "cancelled"}

Hungup(r) == senders # r

-----------------------------------------------------------------------------
Init ==
    /\ mounted = TRUE /\ restoring = FALSE
    /\ newest = 0 /\ status = "none" /\ senders = 0
    /\ task = [r \in Restores |-> "none"]
    /\ result = [r \in Restores |-> "none"]
    /\ lost = [r \in Restores |-> FALSE]
    /\ cancel = [r \in Restores |-> FALSE]
    /\ paused = [r \in Restores |-> FALSE]
    /\ overlapped = FALSE

(* startRestore and rec_start_restore: the only guard is the window's.     *)
(* Fresh channels replace whatever senders the session holds.              *)
StartRestore ==
    /\ mounted /\ ~restoring /\ newest < MaxRestores
    /\ newest' = newest + 1
    /\ restoring' = TRUE
    /\ status' = "running"
    /\ senders' = newest'
    /\ task' = [task EXCEPT ![newest'] = "mapping"]
    /\ overlapped' = (overlapped \/ \E r \in 1 .. newest : task[r] # "over")
    /\ UNCHANGED <<mounted, result, lost, channels>>

(* Mutant: the timer does not know a cancelled restore is over. *)
PollMissesCancelled ==
    /\ mounted /\ restoring /\ status \in {"complete", "error"}
    /\ restoring' = FALSE
    /\ UNCHANGED <<mounted, session, engines, channels, overlapped>>

(* The 500 ms timer finds a terminal status. *)
Poll ==
    /\ mounted /\ restoring /\ status \in Terminal
    /\ restoring' = FALSE
    /\ UNCHANGED <<mounted, session, engines, channels, overlapped>>

(* Settings or About takes Browse's place: its state goes with it. *)
LeaveBrowse ==
    /\ mounted
    /\ mounted' = FALSE /\ restoring' = FALSE
    /\ UNCHANGED <<session, engines, channels, overlapped>>

EnterBrowse ==
    /\ ~mounted
    /\ mounted' = TRUE
    /\ UNCHANGED <<restoring, session, engines, channels, overlapped>>

(* The buttons are shown while the timer reports a running restore. *)
Controls == mounted /\ restoring /\ senders # 0

PauseRestore ==
    /\ Controls
    /\ paused' = [paused EXCEPT ![senders] = TRUE]
    /\ UNCHANGED <<window, session, engines, cancel, overlapped>>

ResumeRestore ==
    /\ Controls
    /\ paused' = [paused EXCEPT ![senders] = FALSE]
    /\ UNCHANGED <<window, session, engines, cancel, overlapped>>

(* rec_cancel_restore also lifts the pause. *)
CancelRestore ==
    /\ Controls
    /\ cancel' = [cancel EXCEPT ![senders] = TRUE]
    /\ paused' = [paused EXCEPT ![senders] = FALSE]
    /\ UNCHANGED <<window, session, engines, overlapped>>

-----------------------------------------------------------------------------
(* build_pack_map_from_storage succeeds and restore_all is entered. *)
EnterEngine(r) ==
    /\ task[r] = "mapping"
    /\ task' = [task EXCEPT ![r] = "running"]
    /\ UNCHANGED <<window, session, result, lost, channels, overlapped>>

(* It fails: the task reports and returns, its senders stay. *)
MapFails(r) ==
    /\ task[r] = "mapping"
    /\ task' = [task EXCEPT ![r] = "finalised"]
    /\ status' = "error"
    /\ UNCHANGED <<window, newest, senders, result, lost, channels, overlapped>>

(* Mutant: files are given up for no reason. *)
LoseAnytime(r) ==
    /\ task[r] = "running"
    /\ lost' = [lost EXCEPT ![r] = TRUE]
    /\ UNCHANGED <<window, session, task, result, channels, overlapped>>

(* A fetch sees changed() return: the flag was set or the sender dropped.  *)
Lose(r) ==
    /\ task[r] = "running" /\ (cancel[r] \/ Hungup(r))
    /\ lost' = [lost EXCEPT ![r] = TRUE]
    /\ UNCHANGED <<window, session, task, result, channels, overlapped>>

(* Mutant: files lost to a cancel do not show in the result either. *)
FinishRegardless(r) ==
    /\ task[r] = "running"
    /\ \E x \in {"ok", "incomplete", "error"} : result' = [result EXCEPT ![r] = x]
    /\ task' = [task EXCEPT ![r] = "returned"]
    /\ UNCHANGED <<window, session, lost, channels, overlapped>>

(* restore_all returns.  Files lost to a dropped sender do not show in the *)
(* result: the drain loop passes over Err(Cancelled).                      *)
Finish(r) ==
    /\ task[r] = "running"
    /\ lost[r] => Hungup(r)
    /\ \E x \in {"ok", "incomplete", "error"} : result' = [result EXCEPT ![r] = x]
    /\ task' = [task EXCEPT ![r] = "returned"]
    /\ UNCHANGED <<window, session, lost, channels, overlapped>>

Cancelled(r) ==
    /\ task[r] = "running" /\ cancel[r]
    /\ result' = [result EXCEPT ![r] = "cancelled"]
    /\ lost' = [lost EXCEPT ![r] = FALSE]
    /\ task' = [task EXCEPT ![r] = "returned"]
    /\ UNCHANGED <<window, session, channels, overlapped>>

(* Mutant: the result is shown as it is. *)
FinaliseVerbatim(r) ==
    /\ task[r] = "returned"
    /\ task' = [task EXCEPT ![r] = "finalised"]
    /\ senders' = 0
    /\ status' = IF result[r] = "ok" THEN "complete" ELSE result[r]
    /\ UNCHANGED <<window, newest, result, lost, channels, overlapped>>

(* The finalise block, ten seconds after restore_all at the latest.  An    *)
(* error whose text contains "cancel" counts as a cancel.                  *)
Finalise(r) ==
    /\ task[r] = "returned"
    /\ task' = [task EXCEPT ![r] = "finalised"]
    /\ senders' = 0
    /\ \/ result[r] = "ok" /\ status' = "complete"
       \/ result[r] = "cancelled" /\ status' = "cancelled"
       \/ result[r] \in {"incomplete", "error"} /\ status' \in {"error", "cancelled"}
    /\ UNCHANGED <<window, newest, result, lost, channels, overlapped>>

(* The task panics. *)
Panic(r) ==
    /\ task[r] \in {"mapping", "running", "returned"}
    /\ task' = [task EXCEPT ![r] = "failed"]
    /\ result' = [result EXCEPT ![r] = "none"]
    /\ lost' = [lost EXCEPT ![r] = FALSE]
    /\ UNCHANGED <<window, session, channels, overlapped>>

(* Mutant: the supervisor only cleans up. *)
SuperviseSilently(r) ==
    /\ task[r] \in {"finalised", "failed"}
    /\ task' = [task EXCEPT ![r] = "over"]
    /\ senders' = 0
    /\ UNCHANGED <<window, newest, status, result, lost, channels, overlapped>>

(* Mutant: the supervisor does not look at the status it replaces. *)
SuperviseBlindly(r) ==
    /\ task[r] \in {"finalised", "failed"}
    /\ task' = [task EXCEPT ![r] = "over"]
    /\ senders' = 0
    /\ status' = "error"
    /\ UNCHANGED <<window, newest, result, lost, channels, overlapped>>

(* Whatever ended the task, the supervisor leaves a terminal status.  It   *)
(* looks at the one progress view there is.                                *)
Supervise(r) ==
    /\ task[r] \in {"finalised", "failed"}
    /\ task' = [task EXCEPT ![r] = "over"]
    /\ senders' = 0
    /\ status' = IF status \in Terminal THEN status ELSE "error"
    /\ UNCHANGED <<window, newest, result, lost, channels, overlapped>>

-----------------------------------------------------------------------------
User ==
    \/ StartRestore \/ LeaveBrowse \/ EnterBrowse
    \/ PauseRestore \/ ResumeRestore \/ CancelRestore

(* What r's task and its supervisor do of themselves; a paused engine      *)
(* waits.                                                                  *)
Runs(r)  == EnterEngine(r) \/ Finish(r) \/ Cancelled(r) \/ Finalise(r) \/ Supervise(r)
Waits(r) == task[r] = "running" /\ paused[r] /\ ~cancel[r]

Next ==
    \/ User
    \/ Poll
    \/ \E r \in Restores : Runs(r) \/ MapFails(r) \/ Lose(r) \/ Panic(r)

Spec == Init /\ [][Next]_vars

(* The runtime polls every ready task, the timer fires, and restore_all    *)
(* returns unless it is paused (RestoreEngine, RunEnds and                 *)
(* CancelEndsTheRun).                                                      *)
FairSpec ==
    /\ Spec
    /\ WF_vars(Poll)
    /\ \A r \in Restores : WF_vars(~Waits(r) /\ Runs(r))

-----------------------------------------------------------------------------
TypeOK ==
    /\ mounted \in BOOLEAN /\ restoring \in BOOLEAN /\ overlapped \in BOOLEAN
    /\ newest \in 0 .. MaxRestores /\ senders \in 0 .. MaxRestores
    /\ status \in {"none", "running"} \cup Terminal
    /\ task \in [Restores -> TaskStates]
    /\ result \in [Restores -> Results]
    /\ lost \in [Restores -> BOOLEAN]
    /\ cancel \in [Restores -> BOOLEAN] /\ paused \in [Restores -> BOOLEAN]

(* "complete" on the screen is about the restore started last, and that    *)
(* one ended with all its files.                                           *)
CompleteMeansRestored ==
    status = "complete" =>
        result[newest] = "ok" /\ ~lost[newest] /\ task[newest] \in {"finalised", "over"}

(* A restore that ends Ok has given no file up. *)
NothingLostSilently == \A r \in Restores : result[r] = "ok" => ~lost[r]

(* The senders the session holds are those of the restore started last, as *)
(* long as its engine may need them: it can be resumed and cancelled.      *)
NewestCanBeStopped ==
    newest # 0 /\ task[newest] \in {"mapping", "running"} => senders = newest

(* As long as restores follow one another, these statements hold: the  *)
(* commands, the finalise block and the supervisor, in any order, neither  *)
(* report a restore complete that is not nor leave one without its senders.*)
OneAtATime ==
    ~overlapped => CompleteMeansRestored /\ NothingLostSilently /\ NewestCanBeStopped

(* A terminal status stands until the next restore is started: the         *)
(* supervisor that comes after the finalise block does not replace it.     *)
TerminalStatusStands ==
    [][~overlapped /\ status \in Terminal /\ newest' = newest => status' = status]_vars

LeftPaused == newest # 0 /\ Waits(newest)

(* "The task CANNOT end without a terminal status, whatever killed it":    *)
(* the status of a restore becomes terminal, unless it is left paused.     *)
StatusBecomesTerminal ==
    status = "running" ~> (status \in Terminal \/ LeftPaused \/ overlapped)

(* The screen does not stay locked after the restore it is locked for. *)
ScreenUnlocks ==
    restoring ~> (~restoring \/ LeftPaused \/ overlapped)

(* Every restore is run the way RestoreRun says an engine behaves. *)
Run(r) == INSTANCE RestoreRun WITH
    running <- task[r] = "running",
    result  <- IF task[r] = "running" THEN "none" ELSE result[r],
    lost    <- lost[r],
    cancel  <- cancel[r],
    paused  <- paused[r],
    hungup  <- task[r] # "none" /\ Hungup(r)

RunsKeepTheContract ==
    /\ \A r \in Restores : Run(r)!Init
    /\ [][\A r \in Restores : Run(r)!Next \/ UNCHANGED Run(r)!vars]_vars
=============================================================================
