-------------------------- MODULE RestoreSessionProofs --------------------------
(***************************************************************************)
(* Theorems about RestoreSession for any number of restores.               *)
(*                                                                         *)
(* OneAtATime is not inductive: nothing in it says who may still touch the *)
(* one progress view and the one pair of senders.  Alone does: as long as  *)
(* restores do not overlap, every restore but the last is over, and the    *)
(* last one holds its senders and shows "running" until its own finalise   *)
(* block has run.  With its senders held, a file can be lost only to a     *)
(* cancel, and Finish then has no Ok to return.                            *)
(***************************************************************************)
EXTENDS RestoreSession, TLAPS

(* Restores begin in order, and one that has not entered its engine has no *)
(* result.                                                                 *)
InOrder ==
    /\ newest # 0 => task[newest] # "none"
    /\ \A r \in Restores : r > newest => task[r] = "none"

NoResultYet ==
    \A r \in Restores :
        /\ task[r] \in {"none", "mapping"} => result[r] = "none" /\ ~lost[r]
        /\ task[r] = "running" => result[r] = "none"

OthersAreOver == \A r \in Restores : r < newest => task[r] = "over"

(* The last restore up to the end of its finalise block. *)
LastIsShown ==
    newest # 0 /\ task[newest] \in {"mapping", "running", "returned"} =>
        status = "running" /\ senders = newest

CompleteIsLast ==
    status = "complete" =>
        newest # 0 /\ result[newest] = "ok" /\ task[newest] \in {"finalised", "over"}

Alone == OthersAreOver /\ LastIsShown /\ CompleteIsLast /\ NothingLostSilently

IInv == TypeOK /\ InOrder /\ NoResultYet /\ (~overlapped => Alone)

-----------------------------------------------------------------------------
(* No restore has begun. *)
LEMMA InitIInv == Init => IInv
<1> SUFFICES ASSUME Init PROVE IInv
  OBVIOUS
<1> USE MaxRestoresAssumption DEF Init, Restores
<1>1. TypeOK
  <2>1. mounted \in BOOLEAN /\ restoring \in BOOLEAN /\ overlapped \in BOOLEAN
    BY Zenon
  <2>2. newest \in 0 .. MaxRestores /\ senders \in 0 .. MaxRestores
    BY SMT
  <2>3. task \in [Restores -> TaskStates] /\ result \in [Restores -> Results]
    BY DEF TaskStates, Results
  <2>4. /\ lost \in [Restores -> BOOLEAN]
        /\ cancel \in [Restores -> BOOLEAN] /\ paused \in [Restores -> BOOLEAN]
    OBVIOUS
  <2> QED
    BY <2>1, <2>2, <2>3, <2>4 DEF TypeOK
<1>2. InOrder /\ NoResultYet
  BY DEF InOrder, NoResultYet
<1>3. OthersAreOver /\ LastIsShown /\ CompleteIsLast
  BY DEF OthersAreOver, LastIsShown, CompleteIsLast
<1>4. NothingLostSilently
  BY DEF NothingLostSilently
<1> QED
  BY <1>1, <1>2, <1>3, <1>4 DEF IInv, Alone

(* Every action keeps the types. *)
LEMMA NextTypeOK == TypeOK /\ [Next]_vars => TypeOK'
<1> SUFFICES ASSUME TypeOK, [Next]_vars PROVE TypeOK'
  OBVIOUS
<1> USE MaxRestoresAssumption DEF TypeOK, Restores, Terminal, TaskStates, Results
<1>1. CASE User
  <2>1. CASE StartRestore
    BY <2>1 DEF StartRestore, channels
  <2>2. CASE LeaveBrowse
    BY <2>2 DEF LeaveBrowse, session, engines, channels
  <2>3. CASE EnterBrowse
    BY <2>3 DEF EnterBrowse, session, engines, channels
  <2>4. CASE PauseRestore
    BY <2>4 DEF PauseRestore, Controls, window, session, engines
  <2>5. CASE ResumeRestore
    BY <2>5 DEF ResumeRestore, Controls, window, session, engines
  <2>6. CASE CancelRestore
    BY <2>6 DEF CancelRestore, Controls, window, session, engines
  <2> QED
    BY <1>1, <2>1, <2>2, <2>3, <2>4, <2>5, <2>6 DEF User
<1>2. CASE Poll
  BY <1>2 DEF Poll, session, engines, channels
<1>3. ASSUME NEW r \in Restores, Runs(r) \/ MapFails(r) \/ Lose(r) \/ Panic(r)
      PROVE  TypeOK'
  <2>1. CASE EnterEngine(r)
    BY <2>1 DEF EnterEngine, window, session, channels
  <2>2. CASE Finish(r)
    BY <2>2 DEF Finish, window, session, channels
  <2>3. CASE Cancelled(r)
    BY <2>3 DEF Cancelled, window, session, channels
  <2>4. CASE Finalise(r)
    BY <2>4 DEF Finalise, window, channels
  <2>5. CASE Supervise(r)
    BY <2>5 DEF Supervise, window, channels
  <2>6. CASE MapFails(r)
    BY <2>6 DEF MapFails, window, channels
  <2>7. CASE Lose(r)
    BY <2>7 DEF Lose, window, session, channels
  <2>8. CASE Panic(r)
    BY <2>8 DEF Panic, window, session, channels
  <2> QED
    BY <1>3, <2>1, <2>2, <2>3, <2>4, <2>5, <2>6, <2>7, <2>8 DEF Runs
<1>4. CASE UNCHANGED vars
  BY <1>4 DEF vars, window, session, engines, channels
<1> QED
  BY <1>1, <1>2, <1>3, <1>4 DEF Next

(* As long as restores do not overlap, whoever acts is the last one. *)
LEMMA ActorIsLast ==
    ASSUME IInv, ~overlapped, NEW r \in Restores, task[r] \notin {"none", "over"}
    PROVE  r = newest /\ newest # 0
<1>1. r > newest => task[r] = "none"
  BY DEF IInv, InOrder
<1>2. r < newest => task[r] = "over"
  BY DEF IInv, Alone, OthersAreOver
<1>3. r \in Nat /\ r # 0 /\ newest \in Nat
  BY MaxRestoresAssumption DEF Restores, IInv, TypeOK
<1> QED
  BY <1>1, <1>2, <1>3

(* Starting a restore when the last one is over keeps every restore alone. *)
LEMMA StartKeeps ==
    ASSUME IInv, StartRestore
    PROVE  InOrder' /\ NoResultYet' /\ (~overlapped' => Alone')
<1> USE MaxRestoresAssumption DEF Restores
<1>1. newest' \in Restores /\ newest' = newest + 1 /\ newest \in Nat
  BY DEF IInv, TypeOK, StartRestore
<1>2. /\ task' = [task EXCEPT ![newest'] = "mapping"]
      /\ UNCHANGED <<result, lost>>
      /\ status' = "running" /\ senders' = newest'
  BY DEF StartRestore
<1>3. task \in [Restores -> TaskStates]
  BY DEF IInv, TypeOK
<1>4. task[newest'] = "none"
  BY <1>1 DEF IInv, InOrder
<1>5. InOrder'
  BY <1>1, <1>2, <1>3 DEF IInv, InOrder
<1>6. NoResultYet'
  BY <1>1, <1>2, <1>3, <1>4 DEF IInv, NoResultYet
<1>7. ASSUME ~overlapped' PROVE Alone'
  <2>1. Alone /\ \A r \in 1 .. newest : task[r] = "over"
    BY <1>7 DEF StartRestore, IInv, TypeOK
  <2>2. OthersAreOver'
    BY <1>1, <1>2, <1>3, <2>1 DEF OthersAreOver
  <2>3. LastIsShown' /\ CompleteIsLast'
    BY <1>1, <1>2 DEF LastIsShown, CompleteIsLast
  <2>4. NothingLostSilently'
    BY <1>2, <2>1 DEF Alone, NothingLostSilently
  <2> QED
    BY <2>2, <2>3, <2>4 DEF Alone
<1> QED
  BY <1>5, <1>6, <1>7

(* A step of one restore's task or supervisor keeps every restore alone. *)
LEMMA TaskKeeps ==
    ASSUME IInv, NEW r \in Restores, Runs(r) \/ MapFails(r) \/ Lose(r) \/ Panic(r)
    PROVE  InOrder' /\ NoResultYet' /\ (~overlapped' => Alone')
<1> USE MaxRestoresAssumption DEF Restores
<1>1. /\ task \in [Restores -> TaskStates] /\ result \in [Restores -> Results]
      /\ lost \in [Restores -> BOOLEAN] /\ newest \in 0 .. MaxRestores
  BY DEF IInv, TypeOK
<1>2. newest' = newest /\ overlapped' = overlapped /\ task[r] \notin {"none", "over"}
  BY DEF Runs, EnterEngine, Finish, Cancelled, Finalise, Supervise, MapFails, Lose, Panic,
     session, window, channels
<1>3. \E t \in TaskStates \ {"none", "mapping"} : task' = [task EXCEPT ![r] = t]
  <2>1. Lose(r) => task' = [task EXCEPT ![r] = "running"]
    BY <1>1 DEF Lose
  <2> QED
    BY <2>1 DEF Runs, EnterEngine, Finish, Cancelled, Finalise, Supervise, MapFails, Panic,
       TaskStates
<1>4. InOrder'
  BY <1>1, <1>2, <1>3 DEF IInv, InOrder
<1>5. NoResultYet'
  <2>1. CASE EnterEngine(r)
    BY <1>1, <2>1 DEF EnterEngine, IInv, NoResultYet
  <2>2. CASE Finish(r)
    BY <1>1, <2>2 DEF Finish, IInv, NoResultYet
  <2>3. CASE Cancelled(r)
    BY <1>1, <2>3 DEF Cancelled, IInv, NoResultYet
  <2>4. CASE Finalise(r)
    BY <1>1, <2>4 DEF Finalise, IInv, NoResultYet
  <2>5. CASE Supervise(r)
    BY <1>1, <2>5 DEF Supervise, IInv, NoResultYet
  <2>6. CASE MapFails(r)
    BY <1>1, <2>6 DEF MapFails, IInv, NoResultYet
  <2>7. CASE Lose(r)
    BY <1>1, <2>7 DEF Lose, IInv, NoResultYet
  <2>8. CASE Panic(r)
    BY <1>1, <2>8 DEF Panic, IInv, NoResultYet
  <2> QED
    BY <2>1, <2>2, <2>3, <2>4, <2>5, <2>6, <2>7, <2>8 DEF Runs
<1>6. ASSUME ~overlapped' PROVE Alone'
  <2>1. Alone /\ r = newest /\ newest # 0
    BY <1>2, <1>6, ActorIsLast DEF IInv
  <2>2. OthersAreOver'
    BY <1>1, <1>2, <1>3, <2>1 DEF Alone, OthersAreOver
  <2> USE <1>1, <2>1 DEF Alone, LastIsShown, CompleteIsLast
  <2>3. LastIsShown' /\ CompleteIsLast'
    <3>1. CASE EnterEngine(r)
      BY <3>1 DEF EnterEngine, session
    <3>2. CASE Finish(r)
      BY <3>2 DEF Finish, session
    <3>3. CASE Cancelled(r)
      BY <3>3 DEF Cancelled, session
    <3>4. CASE Finalise(r)
      BY <3>4 DEF Finalise
    <3>5. CASE Supervise(r)
      BY <3>5 DEF Supervise
    <3>6. CASE MapFails(r)
      BY <3>6 DEF MapFails
    <3>7. CASE Lose(r)
      BY <3>7 DEF Lose, session
    <3>8. CASE Panic(r)
      BY <3>8 DEF Panic, session
    <3> QED
      BY <3>1, <3>2, <3>3, <3>4, <3>5, <3>6, <3>7, <3>8 DEF Runs
  <2>4. NothingLostSilently'
    <3> USE DEF NothingLostSilently
    <3>1. CASE EnterEngine(r) \/ Finalise(r) \/ Supervise(r) \/ MapFails(r)
      BY <3>1 DEF EnterEngine, Finalise, Supervise, MapFails
    <3>2. CASE Finish(r)
      <4>1. ~lost[r]
        BY <3>2 DEF Finish, Hungup
      <4> QED
        BY <3>2, <4>1 DEF Finish
    <3>3. CASE Cancelled(r)
      BY <3>3 DEF Cancelled
    <3>4. CASE Lose(r)
      BY <3>4 DEF Lose, IInv, NoResultYet
    <3>5. CASE Panic(r)
      BY <3>5 DEF Panic
    <3> QED
      BY <3>1, <3>2, <3>3, <3>4, <3>5 DEF Runs
  <2> QED
    BY <2>2, <2>3, <2>4
<1> QED
  BY <1>4, <1>5, <1>6

(* IInv is inductive. *)
LEMMA NextIInv == IInv /\ [Next]_vars => IInv'
<1> SUFFICES ASSUME IInv, [Next]_vars PROVE IInv'
  OBVIOUS
<1>1. TypeOK'
  BY NextTypeOK DEF IInv
<1>2. CASE StartRestore
  BY <1>1, <1>2, StartKeeps DEF IInv
<1>3. CASE \E r \in Restores : Runs(r) \/ MapFails(r) \/ Lose(r) \/ Panic(r)
  BY <1>1, <1>3, TaskKeeps DEF IInv
<1>4. CASE UNCHANGED <<session, engines, overlapped>>
  <2>1. UNCHANGED <<newest, status, senders, task, result, lost, overlapped>>
    BY <1>4 DEF session, engines
  <2>2. InOrder' /\ NoResultYet'
    BY <2>1 DEF IInv, InOrder, NoResultYet
  <2>3. Alone => Alone'
    BY <2>1 DEF Alone, OthersAreOver, LastIsShown, CompleteIsLast, NothingLostSilently
  <2> QED
    BY <1>1, <2>1, <2>2, <2>3 DEF IInv
<1> QED
  BY <1>2, <1>3, <1>4 DEF Next, User, Poll, LeaveBrowse, EnterBrowse, PauseRestore,
     ResumeRestore, CancelRestore, vars

LEMMA SpecIInv == Spec => []IInv
BY InitIInv, NextIInv, PTL DEF Spec

-----------------------------------------------------------------------------
(* The session's state is well-typed (rec_start_restore, its task and its  *)
(* supervisor).                                                            *)
THEOREM TypeCorrect == Spec => []TypeOK
<1>1. IInv => TypeOK
  BY DEF IInv
<1> QED
  BY <1>1, SpecIInv, PTL

(* However many restores follow one another, "complete" on the screen is   *)
(* true of the last one, no Ok hides a lost file, and the last one keeps   *)
(* the senders it is paused and cancelled through.                         *)
THEOREM OneAtATimeHolds == Spec => []OneAtATime
<1>1. IInv => OneAtATime
  <2> SUFFICES ASSUME IInv, ~overlapped
               PROVE  CompleteMeansRestored /\ NothingLostSilently /\ NewestCanBeStopped
    BY DEF OneAtATime
  <2>1. Alone
    BY DEF IInv
  <2>2. newest # 0 => newest \in Restores
    BY MaxRestoresAssumption DEF IInv, TypeOK, Restores
  <2>3. CompleteMeansRestored
    BY <2>1, <2>2 DEF Alone, CompleteIsLast, NothingLostSilently, CompleteMeansRestored
  <2>4. NewestCanBeStopped
    BY <2>1 DEF Alone, LastIsShown, NewestCanBeStopped
  <2> QED
    BY <2>1, <2>3, <2>4 DEF Alone
<1> QED
  BY <1>1, SpecIInv, PTL

(* A terminal status is replaced by the next restore and by nothing else:  *)
(* the finalise block and the supervisor write it once between them.       *)
THEOREM TerminalStatusStandsHolds == Spec => TerminalStatusStands
<1>1. IInv /\ [Next]_vars =>
          [~overlapped /\ status \in Terminal /\ newest' = newest => status' = status]_vars
  <2> SUFFICES ASSUME IInv, Next, ~overlapped, status \in Terminal, newest' = newest
               PROVE  status' = status
    OBVIOUS
  <2>1. CASE User \/ Poll
    BY <2>1 DEF User, Poll, StartRestore, LeaveBrowse, EnterBrowse, PauseRestore,
       ResumeRestore, CancelRestore, session, IInv, TypeOK
  <2>2. ASSUME NEW r \in Restores, Runs(r) \/ MapFails(r) \/ Lose(r) \/ Panic(r)
        PROVE  status' = status
    <3>1. MapFails(r) \/ Finalise(r) => FALSE
      <4> SUFFICES ASSUME task[r] \in {"mapping", "returned"} PROVE FALSE
        BY DEF MapFails, Finalise
      <4>1. r = newest /\ newest # 0
        BY ActorIsLast
      <4> QED
        BY <4>1 DEF IInv, Alone, LastIsShown, Terminal
    <3> QED
      BY <2>2, <3>1 DEF Runs, EnterEngine, Finish, Cancelled, Supervise, Lose, Panic, session
  <2> QED
    BY <2>1, <2>2 DEF Next
<1> QED
  BY <1>1, SpecIInv, PTL DEF Spec, TerminalStatusStands
-----------------------------------------------------------------------------
(* RunsKeepTheContract.  What restore q's run sees of a step that is not   *)
(* its own: its senders may be used, or dropped.                           *)
SeenBy(q) ==
    /\ task'[q] = task[q] /\ result'[q] = result[q] /\ lost'[q] = lost[q]
    /\ \/ senders = q /\ cancel'[q] \in {cancel[q], TRUE}
       \/ cancel'[q] = cancel[q] /\ paused'[q] = paused[q] /\ (senders' = senders \/ senders' # q)

Keeps(q) == Run(q)!Next \/ UNCHANGED Run(q)!vars

LEMMA SeenKeeps ==
    ASSUME TypeOK', NEW q \in Restores, SeenBy(q)
    PROVE  Keeps(q)
<1>1. CASE senders = q
  <2>1. paused'[q] \in BOOLEAN
    BY DEF TypeOK
  <2>2. Run(q)!Signal
    BY <1>1, <2>1 DEF SeenBy, Hungup, Run!Signal
  <2> QED
    BY <2>2 DEF Keeps, Run!Next
<1>2. CASE senders # q
  BY <1>2 DEF SeenBy, Keeps, Hungup, Run!vars, Run!signals
<1> QED
  BY <1>1, <1>2

(* The user's buttons and the window's timer.  A restore that starts takes *)
(* the senders from the one before.                                        *)
LEMMA UserKeeps ==
    ASSUME IInv, TypeOK', User \/ Poll, NEW q \in Restores
    PROVE  Keeps(q)
<1>1. /\ task \in [Restores -> TaskStates]
      /\ cancel \in [Restores -> BOOLEAN] /\ paused \in [Restores -> BOOLEAN]
  BY DEF IInv, TypeOK
<1>2. CASE StartRestore
  <2>1. /\ task' = [task EXCEPT ![newest'] = "mapping"] /\ senders' = newest'
        /\ UNCHANGED <<result, lost, cancel, paused>>
    BY <1>2 DEF StartRestore, channels
  <2>2. CASE q # newest'
    BY <1>1, <2>1, <2>2, SeenKeeps DEF SeenBy
  <2>3. CASE q = newest'
    <3>1. task[q] = "none"
      BY <1>2, <2>3, MaxRestoresAssumption DEF StartRestore, IInv, TypeOK, InOrder, Restores
    <3>2. task'[q] = "mapping" /\ senders' = q
      BY <1>1, <2>1, <2>3
    <3> QED
      BY <2>1, <3>1, <3>2 DEF Keeps, Hungup, Run!vars, Run!signals
  <2> QED
    BY <2>2, <2>3
<1>3. CASE LeaveBrowse \/ EnterBrowse \/ Poll
  BY <1>3, SeenKeeps DEF LeaveBrowse, EnterBrowse, Poll, SeenBy, session, engines, channels
<1>4. CASE PauseRestore \/ ResumeRestore \/ CancelRestore
  BY <1>1, <1>4, SeenKeeps DEF PauseRestore, ResumeRestore, CancelRestore, SeenBy, session, engines
<1> QED
  BY <1>2, <1>3, <1>4 DEF User

(* What restore r's own task does to its run. *)
LEMMA OwnKeeps ==
    ASSUME IInv, TypeOK', NEW r \in Restores, Runs(r) \/ MapFails(r) \/ Lose(r) \/ Panic(r)
    PROVE  Keeps(r)
<1>1. /\ task \in [Restores -> TaskStates] /\ result \in [Restores -> Results]
      /\ lost \in [Restores -> BOOLEAN]
      /\ cancel'[r] \in BOOLEAN /\ paused'[r] \in BOOLEAN
  BY DEF IInv, TypeOK
<1>2. task[r] = "mapping" => ~lost[r] /\ result[r] = "none"
  BY DEF IInv, NoResultYet
<1>3. CASE EnterEngine(r)
  <2>1. Run(r)!Begin
    BY <1>1, <1>2, <1>3 DEF EnterEngine, channels, Run!Begin, Run!signals
  <2> QED
    BY <2>1 DEF Keeps, Run!Next
<1>4. CASE MapFails(r)
  BY <1>1, <1>4 DEF MapFails, channels, Keeps, Hungup, Run!vars, Run!signals
<1>5. CASE Lose(r)
  <2>1. Run(r)!Lose
    BY <1>1, <1>5 DEF Lose, session, channels, Hungup, Run!Lose, Run!signals
  <2> QED
    BY <2>1 DEF Keeps, Run!Next
<1>6. CASE Finish(r)
  <2>1. Run(r)!Finish
    BY <1>1, <1>6 DEF Finish, session, channels, Hungup, Run!Finish, Run!signals
  <2> QED
    BY <2>1 DEF Keeps, Run!Next
<1>7. CASE Cancelled(r)
  <2>1. Run(r)!Cancelled
    BY <1>1, <1>7 DEF Cancelled, session, channels, Hungup, Run!Cancelled, Run!signals
  <2> QED
    BY <2>1 DEF Keeps, Run!Next
<1>8. CASE Panic(r)
  <2>1. Run(r)!Die
    BY <1>1, <1>8 DEF Panic, Run!Die, Run!signals
  <2> QED
    BY <2>1 DEF Keeps, Run!Next
<1>9. CASE Finalise(r) \/ Supervise(r)
  <2>1. CASE senders = r
    <3>1. Run(r)!Signal
      BY <1>1, <1>9, <2>1 DEF Finalise, Supervise, channels, Hungup, Run!Signal
    <3> QED
      BY <3>1 DEF Keeps, Run!Next
  <2>2. CASE senders # r
    <3>1. /\ task[r] \notin {"none", "running"} /\ task'[r] \notin {"none", "running"}
          /\ UNCHANGED <<result, lost, cancel, paused>> /\ senders' = 0 /\ r # 0
      BY <1>1, <1>9, MaxRestoresAssumption DEF Finalise, Supervise, channels, Restores
    <3> QED
      BY <2>2, <3>1 DEF Keeps, Hungup, Run!vars, Run!signals
  <2> QED
    BY <2>1, <2>2
<1> QED
  BY <1>3, <1>4, <1>5, <1>6, <1>7, <1>8, <1>9 DEF Runs

(* And to the runs of the others. *)
LEMMA OthersKeep ==
    ASSUME IInv, TypeOK', NEW r \in Restores, Runs(r) \/ MapFails(r) \/ Lose(r) \/ Panic(r),
           NEW q \in Restores, q # r
    PROVE  Keeps(q)
<1>1. /\ task \in [Restores -> TaskStates] /\ result \in [Restores -> Results]
      /\ lost \in [Restores -> BOOLEAN] /\ q # 0
  BY MaxRestoresAssumption DEF IInv, TypeOK, Restores
<1>2. /\ task'[q] = task[q] /\ result'[q] = result[q] /\ lost'[q] = lost[q]
      /\ cancel' = cancel /\ paused' = paused /\ senders' \in {senders, 0}
  BY <1>1 DEF Runs, EnterEngine, Finish, Cancelled, Finalise, Supervise, MapFails, Lose, Panic,
     session, channels
<1> QED
  BY <1>1, <1>2, SeenKeeps DEF SeenBy

(* Every restore the session starts is run as RestoreRun says an engine    *)
(* behaves, with the session as the caller that owns its senders.          *)
THEOREM RunsKeepTheContractHolds == Spec => RunsKeepTheContract
<1>1. Init => \A r \in Restores : Run(r)!Init
  BY DEF Init, Hungup, Run!Init
<1>2. IInv /\ IInv' /\ [Next]_vars =>
          [\A r \in Restores : Run(r)!Next \/ UNCHANGED Run(r)!vars]_vars
  <2> SUFFICES ASSUME IInv, IInv', Next, NEW q \in Restores PROVE Keeps(q)
    BY DEF Keeps
  <2>1. TypeOK'
    BY DEF IInv
  <2>2. CASE User \/ Poll
    BY <2>1, <2>2, UserKeeps
  <2>3. ASSUME NEW r \in Restores, Runs(r) \/ MapFails(r) \/ Lose(r) \/ Panic(r)
        PROVE  Keeps(q)
    BY <2>1, <2>3, OwnKeeps, OthersKeep
  <2> QED
    BY <2>2, <2>3 DEF Next
<1> QED
  BY <1>1, <1>2, SpecIInv, PTL DEF Spec, RunsKeepTheContract
=============================================================================
