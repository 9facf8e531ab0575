----------------------------- MODULE RecoveryWindow -----------------------------
(***************************************************************************)
(* The window of the Recovery Tool from the connection to the restore: the *)
(* views of ui/src (App, Connect, Browse, SnapshotFileTree), the commands  *)
(* they invoke (crates/bkp-recover/src/commands.rs) and the checkpoint a   *)
(* restore leaves on disk (checkpoint.rs).                                 *)
(*                                                                         *)
(* A command is a call in flight between its invocation and its reply; in  *)
(* between the user may do anything the window offers.  A view that leaves *)
(* the screen loses its state, and the reply to its call is applied to     *)
(* nothing - but what the command does to the session, and the callback    *)
(* that changes the phase, happen all the same.                            *)
(*                                                                         *)
(* Whether a call succeeds is open.  The restore itself is seen from       *)
(* outside: RestoreSession has its pauses and cancels.                     *)
(***************************************************************************)
EXTENDS RestorePaths

CONSTANTS
    Endpoints,   \* what the form of Connect may describe
    Snapshots,   \* of every endpoint
    Holds,       \* Holds[e]: the snapshots at endpoint e
    Newest,      \* Newest[e]: the one listed first
    Trees,       \* Trees[s]: the entries of snapshot s
    MaxConnects, \* bound: how often Continue is pressed
    MaxReading,  \* bound: how many snapshots are read at a time
    MaxKills     \* bound: how often the process is killed in a restore

ASSUME RecoveryWindowAssumption ==
    /\ {MaxConnects, MaxReading, MaxKills} \subseteq Nat
    /\ Holds \in [Endpoints -> SUBSET Snapshots]
    /\ \A e \in Endpoints : Newest[e] \in Holds[e]
    /\ "none" \notin Endpoints \cup Snapshots
    /\ \A s \in Snapshots : \A r \in Trees[s] :
          /\ r.path \in Seq(STRING) /\ r.path # <<>> /\ r.dir \in BOOLEAN
          /\ \A x \in Trees[s] : IsPathInside(x.path, r.path) => r.dir

VARIABLES
    phase,    \* App's phase: connect or browse
    modal,    \* Settings or About is shown in the view's place
    form,     \* the endpoint in the form; it outlives the view
    connect,  \* the state of Connect: what its last test said
    browse,   \* the state of Browse
    session,  \* backend and key in Session
    calls,    \* the commands in flight
    job,      \* the restore, and its checkpoint
    connects, kills, \* the budgets that are spent
    raced     \* ghost: a connect was started while another was in flight

vars == <<phase, modal, form, connect, browse, session, calls, job, connects, kills, raced>>

FreshConnect == "idle"

FreshBrowse ==
    [listed |-> "none", loadingSnaps |-> TRUE, snapsError |-> FALSE, picked |-> "none", shown |-> "none",
     loadingFiles |-> FALSE, filesError |-> FALSE, sel |-> {}, exc |-> {},
     restoring |-> FALSE, overtaken |-> FALSE]

NoJob ==
    [task |-> "none", snap |-> "none", endpoint |-> "none", result |-> "none",
     progress |-> "ended", late |-> FALSE, kept |-> FALSE, disk |-> TRUE, ckpt |-> "none"]

OnScreen(view) == phase = view /\ ~modal

Call(cmd, e, s) == [cmd |-> cmd, endpoint |-> e, snap |-> s, live |-> TRUE]
InFlight(cmd)   == {c \in calls : c.cmd = cmd /\ c.live}
ReadingFiles    == InFlight("files") \cup InFlight("first")
Connecting      == {c \in calls : c.cmd \in {"connect", "unlock"}}

(* A view's replies go with it; rec_connect and rec_unlock do not.         *)
Abandoned(cs) == {[c EXCEPT !.live = FALSE] : c \in {x \in cs : x.cmd \in {"connect", "unlock"}}}

(* Mutant: what Browse showed outlives it, as the form of Connect does. *)
ShowKeepsBrowse(view, covered, backend, cs) ==
    /\ phase' = view /\ modal' = covered
    /\ connect' = FreshConnect /\ browse' = [browse EXCEPT !.restoring = FALSE, !.loadingFiles = FALSE]
    /\ calls' = Abandoned(cs) \cup
                (IF view = "browse" /\ ~covered THEN {Call("list", backend, "none")} ELSE {})

(* {#if showSettings}...: the view on screen is built anew; Browse starts  *)
(* with loadSnapshots.                                                     *)
Show(view, covered, backend, cs) ==
    /\ phase' = view /\ modal' = covered
    /\ connect' = FreshConnect /\ browse' = FreshBrowse
    /\ calls' = Abandoned(cs) \cup
                (IF view = "browse" /\ ~covered THEN {Call("list", backend, "none")} ELSE {})

Init ==
    /\ phase = "connect" /\ modal = FALSE
    /\ form \in Endpoints
    /\ connect = FreshConnect /\ browse = FreshBrowse
    /\ session = [backend |-> "none", key |-> FALSE]
    /\ calls = {} /\ job = NoJob
    /\ connects = 0 /\ kills = 0 /\ raced = FALSE

OpenModal ==
    /\ ~modal
    /\ Show(phase, TRUE, session.backend, calls)
    /\ UNCHANGED <<form, session, job, connects, kills, raced>>

CloseModal ==
    /\ modal
    /\ Show(phase, FALSE, session.backend, calls)
    /\ UNCHANGED <<form, session, job, connects, kills, raced>>

Back ==
    /\ OnScreen("browse") /\ ~browse.restoring
    /\ Show("connect", FALSE, session.backend, calls)
    /\ UNCHANGED <<form, session, job, connects, kills, raced>>

(* Bound: the user connects, lists, picks and toggles before the one       *)
(* restore, and does no more than look once two connects have overlapped.  *)
Arranging == job.task = "none" /\ ~raced

-----------------------------------------------------------------------------
(* Connect.                                                                *)

(* A field, the kind of storage or a recent endpoint: each forgets what    *)
(* the last test said; a test that is under way goes on.                   *)
EditForm(e) ==
    /\ OnScreen("connect") /\ e # form
    /\ form' = e
    /\ connect' = "idle"
    /\ UNCHANGED <<phase, modal, browse, session, calls, job, connects, kills, raced>>

TestConnection ==
    /\ OnScreen("connect") /\ InFlight("test") = {}
    /\ calls' = calls \cup {Call("test", form, "none")}
    /\ UNCHANGED <<phase, modal, form, connect, browse, session, job, connects, kills, raced>>

(* rec_test_connection has answered for the endpoint it was given; the     *)
(* verdict stands for whatever the form says now.                          *)
TestReply(c) ==
    /\ c.cmd = "test"
    /\ connect' \in {"ok", "fail"}
    /\ calls' = calls \ {c}
    /\ UNCHANGED <<phase, modal, form, browse, session, job, connects, kills, raced>>

(* handleContinue, up to its first await. *)
Continue ==
    /\ OnScreen("connect") /\ connect = "ok"
    /\ InFlight("connect") \cup InFlight("unlock") = {}
    /\ connects < MaxConnects /\ Arranging
    /\ connects' = connects + 1
    /\ raced' = (raced \/ Connecting # {})
    /\ calls' = calls \cup {Call("connect", form, "none")}
    /\ UNCHANGED <<phase, modal, form, connect, browse, session, job, kills>>

(* Mutant: an error of rec_connect does not stop handleContinue. *)
ConnectReplyGoesOn(c) ==
    /\ c.cmd = "connect"
    /\ \/ session' = [session EXCEPT !.backend = c.endpoint]
       \/ UNCHANGED session
    /\ calls' = (calls \ {c}) \cup {[c EXCEPT !.cmd = "unlock"]}
    /\ UNCHANGED <<phase, modal, form, connect, browse, job, connects, kills, raced>>

(* rec_connect: the backend that answers becomes the session's. *)
ConnectReply(c) ==
    /\ c.cmd = "connect"
    /\ \/ /\ session' = [session EXCEPT !.backend = c.endpoint]
          /\ calls' = (calls \ {c}) \cup {[c EXCEPT !.cmd = "unlock"]}
       \/ /\ calls' = calls \ {c}
          /\ UNCHANGED session
    /\ UNCHANGED <<phase, modal, form, connect, browse, job, connects, kills, raced>>

(* rec_unlock, then onConnected: the phase changes even if Connect is gone *)
(* by now.  A key that is not 64 hex digits is refused.                    *)
UnlockReply(c) ==
    /\ c.cmd = "unlock"
    /\ \/ /\ session' = [session EXCEPT !.key = TRUE]
          /\ IF OnScreen("connect") THEN Show("browse", FALSE, session.backend, calls \ {c})
             ELSE /\ phase' = "browse"
                  /\ calls' = calls \ {c}
                  /\ UNCHANGED <<modal, connect, browse>>
       \/ /\ calls' = calls \ {c}
          /\ UNCHANGED <<phase, modal, connect, browse, session>>
    /\ UNCHANGED <<form, job, connects, kills, raced>>

-----------------------------------------------------------------------------
(* Browse.                                                                 *)

(* Mutant: the picked snapshot's files join what is on screen. *)
PickedKeepsTree(b, s) ==
    [b EXCEPT !.picked = s, !.loadingFiles = FALSE, !.filesError = FALSE,
              !.overtaken = @ \/ ReadingFiles # {}]

(* pickSnapshot, up to its await. *)
Picked(b, s) ==
    [b EXCEPT !.picked = s, !.shown = "none", !.loadingFiles = TRUE, !.filesError = FALSE,
              !.sel = {}, !.exc = {}, !.overtaken = @ \/ ReadingFiles # {}]

Refresh ==
    /\ OnScreen("browse") /\ ~browse.restoring /\ Arranging
    /\ browse' = [browse EXCEPT !.loadingSnaps = TRUE, !.snapsError = FALSE]
    /\ calls' = calls \cup {Call("list", session.backend, "none")}
    /\ UNCHANGED <<phase, modal, form, connect, session, job, connects, kills, raced>>

(* The first listing picks the first snapshot, and goes on loading until   *)
(* that snapshot's files are there.                                        *)
ListReply(c) ==
    /\ c.cmd = "list"
    /\ \/ LET seen  == [browse EXCEPT !.listed = c.endpoint]
              first == Newest[c.endpoint]
          IN  IF browse.picked = "none" /\ ~browse.restoring
              THEN /\ browse' = Picked(seen, first)
                   /\ calls' = (calls \ {c}) \cup {Call("first", session.backend, first)}
              ELSE /\ browse' = [seen EXCEPT !.loadingSnaps = FALSE]
                   /\ calls' = calls \ {c}
       \/ /\ browse' = [browse EXCEPT !.loadingSnaps = FALSE, !.snapsError = TRUE]
          /\ calls' = calls \ {c}
    /\ UNCHANGED <<phase, modal, form, connect, session, job, connects, kills, raced>>

PickSnapshot(s) ==
    /\ OnScreen("browse") /\ ~browse.restoring
    /\ ~browse.loadingSnaps /\ ~browse.snapsError
    /\ Arranging /\ Cardinality(ReadingFiles) < MaxReading
    /\ browse.listed # "none" /\ s \in Holds[browse.listed]
    /\ browse' = Picked(browse, s)
    /\ calls' = calls \cup {Call("files", session.backend, s)}
    /\ UNCHANGED <<phase, modal, form, connect, session, job, connects, kills, raced>>

(* loadSnapshots is over with the files it waited for. *)
WaitsOn(c) == browse.loadingSnaps /\ c.cmd # "first"

(* Mutant: only an answer ends the wait. *)
FilesReplyNoFinally(c) ==
    /\ c.cmd \in {"files", "first"}
    /\ \/ /\ c.snap \in Holds[c.endpoint]
          /\ browse' = [browse EXCEPT !.shown = c.snap, !.sel = Roots(ListSnapshotFiles(Trees[c.snap])),
                                      !.loadingFiles = FALSE, !.loadingSnaps = WaitsOn(c)]
       \/ UNCHANGED browse
    /\ calls' = calls \ {c}
    /\ UNCHANGED <<phase, modal, form, connect, session, job, connects, kills, raced>>

(* Whichever snapshot it was asked for, the answer is what is shown, and   *)
(* the exclusions stay.                                                    *)
FilesReply(c) ==
    /\ c.cmd \in {"files", "first"}
    /\ \/ /\ c.snap \in Holds[c.endpoint]
          /\ browse' = [browse EXCEPT !.shown = c.snap, !.sel = Roots(ListSnapshotFiles(Trees[c.snap])),
                                      !.loadingFiles = FALSE, !.loadingSnaps = WaitsOn(c)]
       \/ browse' = [browse EXCEPT !.filesError = TRUE, !.loadingFiles = FALSE,
                                      !.loadingSnaps = WaitsOn(c)]
    /\ calls' = calls \ {c}
    /\ UNCHANGED <<phase, modal, form, connect, session, job, connects, kills, raced>>

TreeOnScreen ==
    OnScreen("browse") /\ ~browse.loadingFiles /\ ~browse.filesError /\ browse.shown # "none"

(* The lock during a restore keeps the mouse away; the space bar still     *)
(* reaches the tree.                                                       *)
ToggleRow(row) ==
    /\ TreeOnScreen /\ Arranging
    /\ LET next == ToggleRule(row.path, browse.sel, browse.exc)
       IN  browse' = [browse EXCEPT !.sel = next.sel, !.exc = next.exc]
    /\ UNCHANGED <<phase, modal, form, connect, session, calls, job, connects, kills, raced>>

(* Clear, in the header of the tree. *)
ClearRules ==
    /\ TreeOnScreen /\ Arranging /\ browse.sel # {}
    /\ browse' = [browse EXCEPT !.sel = {}, !.exc = {}]
    /\ UNCHANGED <<phase, modal, form, connect, session, calls, job, connects, kills, raced>>

-----------------------------------------------------------------------------
(* The restore and its checkpoint.                                         *)

(* startRestore; one restore is looked at (bound).  It is given the rules  *)
(* on the screen; the destination, the free space and the settings are the *)
(* user's to arrange.                                                      *)
StartRestore ==
    /\ OnScreen("browse") /\ ~browse.restoring
    /\ browse.picked # "none" /\ browse.sel # {}
    /\ Arranging
    /\ browse' = [browse EXCEPT !.restoring = TRUE]
    /\ job' = [NoJob EXCEPT !.task = "saving", !.snap = browse.picked, !.endpoint = session.backend]
    /\ UNCHANGED <<phase, modal, form, connect, session, calls, connects, kills, raced>>

JobStep == UNCHANGED <<phase, modal, form, connect, browse, session, calls, connects, kills, raced>>

(* rec_start_restore fails: no session, a destination it cannot create.    *)
StartFails ==
    /\ job.task = "saving"
    /\ job' = NoJob
    /\ browse' = [browse EXCEPT !.restoring = FALSE]
    /\ UNCHANGED <<phase, modal, form, connect, session, calls, connects, kills, raced>>

(* The first checkpoint is on disk before the restore is spawned, unless   *)
(* it cannot be written, which is not looked at.                           *)
SaveInitial ==
    /\ job.task = "saving"
    /\ \E saved \in BOOLEAN :
          job' = [job EXCEPT !.ckpt = IF saved THEN "saved" ELSE "none", !.disk = saved,
                             !.task = "running", !.progress = "idle"]
    /\ JobStep

(* build_pack_map_from_storage fails: the task ends there. *)
MapFails ==
    /\ job.task = "running" /\ job.progress = "idle"
    /\ job' = [job EXCEPT !.task = "over", !.result = "failed", !.progress = "ended"]
    /\ JobStep

(* restore_all returns; a snapshot that is not there has no manifest. *)
EngineReturns ==
    /\ job.task = "running"
    /\ \E r \in {"ok", "failed"} :
          /\ r = "ok" => job.snap \in Holds[job.endpoint]
          /\ job' = [job EXCEPT !.task = "returned", !.result = r]
    /\ JobStep

(* The progress task, every sixteenth event: it reads the checkpoint, if   *)
(* there is one, ...                                                       *)
ProgressReads ==
    /\ job.progress = "idle" /\ job.ckpt = "saved"
    /\ job' = [job EXCEPT !.progress = "holding"]
    /\ JobStep

(* Mutant: save() writes the checkpoint in place. *)
ProgressWritesInPlace ==
    /\ job.progress = "holding"
    /\ job' = [job EXCEPT !.progress = "written", !.ckpt = "torn"]
    /\ JobStep

(* ... writes the new text beside it, ... *)
ProgressWrites ==
    /\ job.progress = "holding"
    /\ job' = [job EXCEPT !.progress = "written"]
    /\ JobStep

(* ... and renames it into place; where either fails, the old one stays.   *)
ProgressRenames ==
    /\ job.progress = "written"
    /\ \/ job' = [job EXCEPT !.progress = "idle", !.ckpt = "saved"]
       \/ job' = [job EXCEPT !.progress = "idle"]
    /\ JobStep

(* Every clone of the sender is gone. *)
ProgressEnds ==
    /\ job.progress = "idle" /\ job.task \in {"returned", "over"}
    /\ job' = [job EXCEPT !.progress = "ended"]
    /\ JobStep

(* After the progress task, or after ten seconds without it: a restore     *)
(* that succeeded discards its checkpoint, any other keeps it.  A file     *)
(* that cannot be removed stays, and nobody is told.                       *)
Finalise ==
    /\ job.task = "returned"
    /\ \E removed \in BOOLEAN :
          job' = [job EXCEPT !.task = "over", !.late = job.progress # "ended",
                             !.kept = job.result = "ok" /\ ~removed,
                             !.ckpt = IF job.result = "ok" /\ removed THEN "none" ELSE @]
    /\ JobStep

(* The poll finds a terminal status. *)
Poll ==
    /\ OnScreen("browse") /\ browse.restoring /\ job.task = "over"
    /\ browse' = [browse EXCEPT !.restoring = FALSE]
    /\ UNCHANGED <<phase, modal, form, connect, session, calls, job, connects, kills, raced>>

(* The process dies and is started again: the disk is all that is left.    *)
Kill ==
    /\ kills < MaxKills /\ job.task # "none"
    /\ kills' = kills + 1
    /\ phase' = "connect" /\ modal' = FALSE
    /\ form' \in Endpoints
    /\ connect' = FreshConnect /\ browse' = FreshBrowse
    /\ session' = [backend |-> "none", key |-> FALSE]
    /\ calls' = {} /\ raced' = FALSE
    /\ job' = IF job.task = "saving" THEN NoJob
              ELSE [job EXCEPT !.task = IF @ = "over" THEN @ ELSE "killed", !.progress = "ended"]
    /\ UNCHANGED connects

(* rec_list_checkpoints: what an interrupted restore could resume from. *)
Listed == IF job.ckpt = "saved" THEN {job} ELSE {}

-----------------------------------------------------------------------------
Reply(c) ==
    \/ ConnectReply(c) \/ UnlockReply(c)
    \/ c.live /\ (TestReply(c) \/ ListReply(c) \/ FilesReply(c))

Next ==
    \/ OpenModal \/ CloseModal \/ Back
    \/ \E e \in Endpoints : EditForm(e)
    \/ TestConnection \/ Continue
    \/ \E c \in calls : Reply(c)
    \/ Refresh \/ (\E s \in Snapshots : PickSnapshot(s))
    \/ (browse.shown # "none" /\ \E row \in Trees[browse.shown] : ToggleRow(row)) \/ ClearRules
    \/ StartRestore \/ StartFails \/ SaveInitial \/ MapFails \/ EngineReturns
    \/ ProgressReads \/ ProgressWrites \/ ProgressRenames \/ ProgressEnds
    \/ Finalise \/ Poll \/ Kill

(* rec_list_snapshot_files answers: with_retry rides an outage out, and    *)
(* the endpoint is taken to come back.                                     *)
Fairness ==
    \A s \in Snapshots : WF_vars(\E c \in calls : c.snap = s /\ FilesReply(c))

Spec == Init /\ [][Next]_vars /\ Fairness

-----------------------------------------------------------------------------
TypeOK ==
    /\ phase \in {"connect", "browse"} /\ modal \in BOOLEAN /\ raced \in BOOLEAN
    /\ form \in Endpoints
    /\ connect \in {"idle", "ok", "fail"}
    /\ session \in [backend : Endpoints \cup {"none"}, key : BOOLEAN]
    /\ calls \subseteq [cmd : {"test", "connect", "unlock", "list", "first", "files"}, endpoint : Endpoints,
                       snap : Snapshots \cup {"none"}, live : BOOLEAN]
    /\ browse.listed \in Endpoints \cup {"none"}
    /\ {browse.picked, browse.shown} \subseteq Snapshots \cup {"none"}
    /\ {browse.loadingSnaps, browse.snapsError, browse.loadingFiles, browse.filesError,
        browse.restoring, browse.overtaken} \subseteq BOOLEAN
    /\ job.task \in {"none", "saving", "running", "returned", "over", "killed"}
    /\ job.progress \in {"idle", "holding", "written", "ended"}
    /\ {job.disk, job.kept} \subseteq BOOLEAN /\ job.ckpt \in {"none", "saved", "torn"} /\ job.result \in {"none", "ok", "failed"}
    /\ connects \in 0 .. MaxConnects /\ kills \in 0 .. MaxKills

(* The tree and the size shown beside it tell what a restore of this       *)
(* selection would write: a full row all of its files, an empty one none,  *)
(* a file's own row exactly itself; the size counts no file that is left   *)
(* out, and misses none unless a selection lies under an exclusion.        *)
(* (treeSelection.ts and path_selected "must match case for case".)        *)
ScreenTellsTheRestore ==
    TreeOnScreen /\ browse.sel # {} =>
        LET rows    == ListSnapshotFiles(Trees[browse.shown])
            all     == {r.path : r \in rows}
            written == CollectFiles(Trees[browse.shown], browse.sel, browse.exc)
            counted == Previewed(rows, browse.sel, browse.exc)
        IN  /\ \A r \in rows :
                 LET state == StateFor(r, browse.sel, browse.exc, all)
                     files == {x.path : x \in {y \in rows : ~y.dir /\ IsAtOrUnder(y.path, r.path)}}
                 IN  /\ state = "full" => files \subseteq written
                     /\ state = "none" => files \cap written = {}
                     /\ state = "partial" => r.dir
            /\ counted \subseteq written
            /\ (\A s \in browse.sel : Covering(s, browse.exc) = {}) => counted = written

(* One click turns everything at or under the row to the opposite of what  *)
(* the row was, and nothing else (toggleRule: "this always changes the     *)
(* path's effective state").                                               *)
ToggleTakesTheSubtree ==
    [][\A s \in Snapshots : \A row \in Trees[s] : browse.shown = s /\ ToggleRow(row) =>
          \A r \in Trees[s] :
              Included(r.path, browse'.sel, browse'.exc) =
                 IF IsAtOrUnder(r.path, row.path) THEN ~Included(row.path, browse.sel, browse.exc)
                 ELSE Included(r.path, browse.sel, browse.exc)]_vars

(* The tree on screen is that of the snapshot that is picked, and would be *)
(* restored, unless a snapshot was picked while another's files were still *)
(* being read: then an answer may come after its time.                     *)
TreeIsOfThePick ==
    TreeOnScreen /\ ~browse.overtaken => browse.shown = browse.picked

(* What Browse lists and restores from is the endpoint the session is      *)
(* connected to, as long as two connects never overlapped.                 *)
BrowsedIsConnected ==
    OnScreen("browse") /\ ~raced =>
        /\ session.key
        /\ browse.listed \in {"none", session.backend}
        /\ browse.picked # "none" => browse.picked \in Holds[session.backend]
        /\ browse.restoring => job.endpoint = session.backend

(* A restore that began and has not succeeded - failed, cancelled or       *)
(* killed at any moment - is listed, if its first checkpoint could be      *)
(* written; one that has succeeded is forgotten, unless its file cannot be *)
(* removed or its progress task outlived the ten seconds it is waited for. *)
CheckpointFollowsTheRestore ==
    /\ /\ job.disk
       /\ job.task \in {"running", "returned", "killed"} \/ (job.task = "over" /\ job.result = "failed")
       => Listed = {job}
    /\ job.task = "over" /\ job.result = "ok" /\ ~job.late /\ ~job.kept => Listed = {}

(* A picked snapshot's tree is shown, or an error, unless the user goes    *)
(* elsewhere: no answer leaves the pane waiting.                           *)
EveryPickIsShown ==
    \A s \in Snapshots :
        browse.picked = s /\ browse.loadingFiles
            ~> browse.shown = s \/ browse.filesError \/ browse.picked # s

(* What the comment of sanitize_cross_platform_subpath promises: files of  *)
(* different drives are restored to different places.                      *)
DrivesStayApart ==
    TreeOnScreen /\ browse.sel # {} =>
        \A f, g \in CollectFiles(Trees[browse.shown], browse.sel, browse.exc) :
            {f[1], g[1]} \subseteq Drives /\ f[1] # g[1] =>
                ResolveDest("custom", f, {}) # ResolveDest("custom", g, {})
=============================================================================
