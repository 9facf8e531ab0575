-------------------------- MODULE RecoveryWindowProofs --------------------------
(***************************************************************************)
(* Theorems of RecoveryWindow for any endpoints, snapshots and trees and   *)
(* any number of connects, readings and kills.                             *)
(*                                                                         *)
(* BrowsedIsConnected is not inductive: a connect that is still under way  *)
(* may change the session behind Browse.  Window says why it does not:     *)
(* without overlap there is one connect at most, none once Browse is the   *)
(* phase, every call of Browse asks the session's own endpoint, and a view *)
(* off the screen keeps nothing.  TreeIsOfThePick needs every reading to   *)
(* be of the pick until a pick overtakes one; and what the screen tells of *)
(* a restore, that rules are rows of the tree.                             *)
(***************************************************************************)
EXTENDS RecoveryWindow, TreeSelectionProofs

Maybe(S) == S \cup {"none"}

Connects == {"idle", "ok", "fail"}

Browses ==
    [listed : Maybe(Endpoints), loadingSnaps : BOOLEAN, snapsError : BOOLEAN,
     picked : Maybe(Snapshots), shown : Maybe(Snapshots),
     loadingFiles : BOOLEAN, filesError : BOOLEAN, sel : SUBSET Paths, exc : SUBSET Paths,
     restoring : BOOLEAN, overtaken : BOOLEAN]

Sessions == [backend : Maybe(Endpoints), key : BOOLEAN]

Calls ==
    [cmd : {"test", "connect", "unlock", "list", "first", "files"}, endpoint : Endpoints,
     snap : Maybe(Snapshots), live : BOOLEAN]

Jobs ==
    [task : {"none", "saving", "running", "returned", "over", "killed"},
     snap : Maybe(Snapshots), endpoint : Maybe(Endpoints), result : {"none", "ok", "failed"},
     progress : {"idle", "holding", "written", "ended"}, late : BOOLEAN, kept : BOOLEAN,
     disk : BOOLEAN, ckpt : {"none", "saved"}]

Types ==
    /\ phase \in {"connect", "browse"} /\ modal \in BOOLEAN /\ raced \in BOOLEAN
    /\ form \in Endpoints
    /\ connect \in Connects /\ browse \in Browses /\ session \in Sessions
    /\ calls \subseteq Calls /\ job \in Jobs
    /\ connects \in 0 .. MaxConnects /\ kills \in 0 .. MaxKills

(* Before the first connect nothing but tests and connects is under way. *)
Connected ==
    session.backend = "none" =>
        phase = "connect" /\ \A c \in calls : c.cmd \in {"test", "connect"}

ReadCmds == {"list", "first", "files"}

(* Browse keeps nothing while it is off the screen, and its calls go with  *)
(* it; so do the tests of Connect, and its state.                          *)
OffScreen ==
    /\ ~OnScreen("browse") => browse = FreshBrowse /\ \A c \in calls : c.cmd \notin ReadCmds
    /\ ~OnScreen("connect") => connect = FreshConnect /\ \A c \in calls : c.cmd # "test"
    /\ \A c \in calls : c.cmd \in ReadCmds \cup {"test"} => c.live

(* While connects do not overlap, the session is settled once Browse is up. *)
Settled ==
    ~raced =>
        /\ \A c, d \in Connecting : c = d
        /\ phase = "browse" => Connecting = {} /\ session.key
        /\ \A c \in calls : c.cmd \in ReadCmds => c.endpoint = session.backend
        /\ browse.listed \in {"none", session.backend}
        /\ browse.picked # "none" => browse.picked \in Holds[session.backend]
        /\ browse.restoring => job.endpoint = session.backend

(* While no pick overtakes a reading, what is read is what is picked.      *)
Reading ==
    ~browse.overtaken =>
        /\ \A c \in ReadingFiles : c.snap = browse.picked
        /\ browse.shown \in {"none", browse.picked}

(* The checkpoint at each stage of the restore. *)
Kept ==
    /\ job.task \in {"running", "returned", "killed"} /\ job.disk => job.ckpt = "saved"
    /\ job.task \in {"returned", "over"} => job.result \in {"ok", "failed"}
    /\ job.task = "over" /\ job.result = "failed" /\ job.disk => job.ckpt = "saved"
    /\ job.task = "over" /\ job.result = "ok" /\ ~job.late /\ ~job.kept =>
          job.ckpt = "none" /\ job.progress = "ended"

-----------------------------------------------------------------------------
(* A tree's paths are sequences of components, and so are its roots. *)
LEMMA RootsArePaths ==
    ASSUME NEW s \in Snapshots
    PROVE  Roots(ListSnapshotFiles(Trees[s])) \in SUBSET Paths
BY RecoveryWindowAssumption DEF Roots, ListSnapshotFiles, Paths

(* A click adds no rule but the path clicked on. *)
LEMMA ToggleKeepsPaths ==
    ASSUME NEW P \in Paths, NEW sel \in SUBSET Paths, NEW exc \in SUBSET Paths
    PROVE  LET next == ToggleRule(P, sel, exc)
           IN  next.sel \in SUBSET Paths /\ next.exc \in SUBSET Paths
BY DEF ToggleRule, WithoutDescendants

(* What is listed first is one of the snapshots that are listed. *)
LEMMA NewestIsASnapshot ==
    ASSUME NEW e \in Endpoints
    PROVE  Newest[e] \in Snapshots /\ Newest[e] \in Holds[e]
BY RecoveryWindowAssumption

LEMMA NoneIsNone == "none" \notin Endpoints /\ "none" \notin Snapshots
BY RecoveryWindowAssumption

(* Types of what a view, and a restore, starts with. *)
LEMMA FreshTypes == FreshConnect \in Connects /\ FreshBrowse \in Browses /\ NoJob \in Jobs
<1>1. FreshConnect \in Connects
  BY SMT DEF FreshConnect, Connects, Maybe
<1>2. FreshBrowse \in Browses
  BY SMT DEF FreshBrowse, Browses, Maybe
<1>3. NoJob \in Jobs
  BY SMT DEF NoJob, Jobs, Maybe
<1> QED
  BY <1>1, <1>2, <1>3

(* A call carries what it was invoked with. *)
LEMMA CallTypes ==
    ASSUME NEW cmd \in {"test", "connect", "unlock", "list", "first", "files"},
           NEW e \in Endpoints, NEW s \in Maybe(Snapshots)
    PROVE  /\ Call(cmd, e, s) \in Calls
           /\ Call(cmd, e, s).cmd = cmd /\ Call(cmd, e, s).endpoint = e
           /\ Call(cmd, e, s).snap = s /\ Call(cmd, e, s).live
BY SMT DEF Call, Calls

(* Changing fields to values of their types keeps a record's type. *)
LEMMA CallUpdates ==
    ASSUME NEW c \in Calls, NEW b \in BOOLEAN
    PROVE  /\ [c EXCEPT !.live = b] \in Calls /\ [c EXCEPT !.live = b].cmd = c.cmd
           /\ [c EXCEPT !.cmd = "unlock"] \in Calls /\ [c EXCEPT !.cmd = "unlock"].cmd = "unlock"
BY SMT DEF Calls

LEMMA SessionUpdates ==
    ASSUME NEW s \in Sessions, NEW e \in Maybe(Endpoints), NEW b \in BOOLEAN
    PROVE  /\ [s EXCEPT !.backend = e] \in Sessions /\ [s EXCEPT !.key = b] \in Sessions
           /\ [backend |-> "none", key |-> b] \in Sessions
BY SMT DEF Sessions, Maybe

LEMMA BrowseUpdates ==
    ASSUME NEW b \in Browses, NEW e \in Maybe(Endpoints), NEW s \in Maybe(Snapshots),
           NEW x \in BOOLEAN, NEW y \in BOOLEAN, NEW z \in BOOLEAN,
           NEW sel \in SUBSET Paths, NEW exc \in SUBSET Paths
    PROVE  /\ [b EXCEPT !.listed = e] \in Browses
           /\ [b EXCEPT !.loadingSnaps = x] \in Browses
           /\ [b EXCEPT !.loadingSnaps = x, !.snapsError = y] \in Browses
           /\ [b EXCEPT !.restoring = x] \in Browses
           /\ [b EXCEPT !.sel = sel, !.exc = exc] \in Browses
           /\ [b EXCEPT !.shown = s, !.sel = sel, !.loadingFiles = x, !.loadingSnaps = y] \in Browses
           /\ [b EXCEPT !.filesError = x, !.loadingFiles = y, !.loadingSnaps = z] \in Browses
<1>1. [b EXCEPT !.listed = e] \in Browses
  BY SMT DEF Browses
<1>2. [b EXCEPT !.loadingSnaps = x] \in Browses
  BY SMT DEF Browses
<1>3. [b EXCEPT !.loadingSnaps = x, !.snapsError = y] \in Browses
  BY ZenonT(30) DEF Browses
<1>4. [b EXCEPT !.restoring = x] \in Browses
  BY SMT DEF Browses
<1>5. [b EXCEPT !.sel = sel, !.exc = exc] \in Browses
  BY ZenonT(30) DEF Browses
<1>6. [b EXCEPT !.shown = s, !.sel = sel, !.loadingFiles = x, !.loadingSnaps = y] \in Browses
  BY ZenonT(30) DEF Browses
<1>7. [b EXCEPT !.filesError = x, !.loadingFiles = y, !.loadingSnaps = z] \in Browses
  BY ZenonT(30) DEF Browses
<1> QED
  BY <1>1, <1>2, <1>3, <1>4, <1>5, <1>6, <1>7

(* Of the calls of a view that goes, only the connects go on. *)
LEMMA AbandonedTypes ==
    ASSUME NEW cs \in SUBSET Calls
    PROVE  /\ Abandoned(cs) \in SUBSET Calls
           /\ \A c \in Abandoned(cs) :
                 /\ c.cmd \in {"connect", "unlock"}
                 /\ \E x \in cs : c = [x EXCEPT !.live = FALSE] /\ c.cmd = x.cmd
<1>1. \A x \in cs : [x EXCEPT !.live = FALSE] \in Calls /\ [x EXCEPT !.live = FALSE].cmd = x.cmd
  BY CallUpdates
<1>2. \A c \in Abandoned(cs) : \E x \in cs : x.cmd \in {"connect", "unlock"} /\ c = [x EXCEPT !.live = FALSE]
  BY DEF Abandoned
<1> QED
  BY <1>1, <1>2

(* What a view is built with. *)
LEMMA ShowTypes ==
    ASSUME NEW view \in {"connect", "browse"}, NEW covered \in BOOLEAN, NEW backend,
           NEW cs \in SUBSET Calls, view = "browse" => backend \in Endpoints,
           Show(view, covered, backend, cs)
    PROVE  /\ phase' = view /\ modal' = covered
           /\ connect' = FreshConnect /\ browse' = FreshBrowse
           /\ calls' \in SUBSET Calls
<1>1. view = "browse" => Call("list", backend, "none") \in Calls
  BY CallTypes DEF Maybe
<1> QED
  BY <1>1, AbandonedTypes DEF Show

(* Every action keeps the types.  Before the first connect no view asks the *)
(* session for anything.                                                   *)
LEMMA InitTypes == Init => Types
<1> SUFFICES ASSUME Init PROVE Types
  OBVIOUS
<1>1. connect \in Connects /\ browse \in Browses /\ job \in Jobs
  BY FreshTypes DEF Init
<1>2. session \in Sessions
  BY SMT DEF Init, Sessions, Maybe
<1>3. connects \in 0 .. MaxConnects /\ kills \in 0 .. MaxKills
  BY RecoveryWindowAssumption, SMT DEF Init
<1> QED
  BY <1>1, <1>2, <1>3, Zenon DEF Init, Types

JobActs ==
    \/ SaveInitial \/ MapFails \/ EngineReturns
    \/ ProgressReads \/ ProgressWrites \/ ProgressRenames \/ ProgressEnds \/ Finalise

(* The restore keeps the types, and touches nothing but the job. *)
LEMMA JobTypes ==
    ASSUME Types, JobActs
    PROVE  Types'
<1>1. JobStep
  BY DEF JobActs, SaveInitial, MapFails, EngineReturns, ProgressReads, ProgressWrites,
         ProgressRenames, ProgressEnds, Finalise
<1>2. job' \in Jobs
  <2>0. job \in Jobs
    BY DEF Types
  <2>1. CASE SaveInitial
    <3>1. PICK saved \in BOOLEAN, on \in {"saved", "none"} :
              job' = [job EXCEPT !.ckpt = on, !.disk = saved, !.task = "running", !.progress = "idle"]
      BY <2>1 DEF SaveInitial
    <3> QED
      BY <2>0, <3>1, Zenon DEF Jobs
  <2>2. CASE MapFails
    BY <2>0, <2>2, Zenon DEF MapFails, Jobs
  <2>3. CASE EngineReturns
    <3>1. PICK r \in {"ok", "failed"} : job' = [job EXCEPT !.task = "returned", !.result = r]
      BY <2>3 DEF EngineReturns
    <3> QED
      BY <2>0, <3>1, Zenon DEF Jobs
  <2>4. CASE ProgressReads \/ ProgressWrites \/ ProgressEnds
    BY <2>0, <2>4, Zenon DEF ProgressReads, ProgressWrites, ProgressEnds, Jobs
  <2>5. CASE ProgressRenames
    BY <2>0, <2>5, Zenon DEF ProgressRenames, Jobs
  <2>6. CASE Finalise
    <3>1. PICK late \in BOOLEAN, kept \in BOOLEAN, on \in {"saved", "none"} :
              job' = [job EXCEPT !.task = "over", !.late = late, !.kept = kept, !.ckpt = on]
      <4>1. job.ckpt \in {"saved", "none"}
        BY <2>0 DEF Jobs
      <4> QED
        BY <2>6, <4>1 DEF Finalise
    <3> QED
      BY <2>0, <3>1, Zenon DEF Jobs
  <2> QED
    BY <2>1, <2>2, <2>3, <2>4, <2>5, <2>6 DEF JobActs
<1> QED
  BY <1>1, <1>2 DEF JobStep, Types

ViewActs == OpenModal \/ CloseModal \/ Back \/ Kill

ConnectActs ==
    \/ (\E e \in Endpoints : EditForm(e)) \/ TestConnection \/ Continue
    \/ \E c \in calls : ConnectReply(c) \/ UnlockReply(c) \/ (c.live /\ TestReply(c))

BrowseActs ==
    \/ Refresh \/ (\E s \in Snapshots : PickSnapshot(s))
    \/ \E c \in calls : c.live /\ (ListReply(c) \/ FilesReply(c))
    \/ (browse.shown # "none" /\ \E row \in Trees[browse.shown] : ToggleRow(row)) \/ ClearRules
    \/ StartRestore \/ StartFails \/ Poll

(* Every step is one of four kinds. *)
LEMMA ActionsOfNext == Next => ViewActs \/ ConnectActs \/ BrowseActs \/ JobActs
BY Zenon DEF Next, Reply, ViewActs, ConnectActs, BrowseActs, JobActs

(* A view or a call that needs the session has one. *)
LEMMA BackendTypes ==
    ASSUME Types, Connected
    PROVE  /\ session.backend \in Maybe(Endpoints)
           /\ phase = "browse" => session.backend \in Endpoints
           /\ \A c \in calls : /\ c \in Calls /\ c.endpoint \in Endpoints
                               /\ c.cmd \notin {"test", "connect"} => session.backend \in Endpoints
<1>1. session.backend \in Maybe(Endpoints)
  BY DEF Types, Sessions
<1>2. \A c \in calls : c \in Calls /\ c.endpoint \in Endpoints
  BY DEF Types, Calls
<1> QED
  BY <1>1, <1>2 DEF Connected, Maybe

(* The types, for the steps that put up a view. *)
LEMMA ViewTypes ==
    ASSUME Types, Connected, ViewActs
    PROVE  Types'
<1>b. phase = "browse" => session.backend \in Endpoints
  BY BackendTypes
<1>c. phase \in {"connect", "browse"} /\ calls \in SUBSET Calls
  BY DEF Types
<1>1. CASE OpenModal
  <2>1. Show(phase, TRUE, session.backend, calls)
    BY <1>1 DEF OpenModal
  <2>2. /\ phase' = phase /\ modal' = TRUE /\ calls' \in SUBSET Calls
        /\ connect' = FreshConnect /\ browse' = FreshBrowse
    BY <2>1, <1>b, <1>c, ShowTypes
  <2> QED
    BY <1>1, <2>2, FreshTypes DEF OpenModal, Types
<1>2. CASE CloseModal
  <2>1. Show(phase, FALSE, session.backend, calls)
    BY <1>2 DEF CloseModal
  <2>2. /\ phase' = phase /\ modal' = FALSE /\ calls' \in SUBSET Calls
        /\ connect' = FreshConnect /\ browse' = FreshBrowse
    BY <2>1, <1>b, <1>c, ShowTypes
  <2> QED
    BY <1>2, <2>2, FreshTypes DEF CloseModal, Types
<1>3. CASE Back
  <2>1. Show("connect", FALSE, session.backend, calls)
    BY <1>3 DEF Back
  <2>2. /\ phase' = "connect" /\ modal' = FALSE /\ calls' \in SUBSET Calls
        /\ connect' = FreshConnect /\ browse' = FreshBrowse
    BY <2>1, <1>c, ShowTypes
  <2> QED
    BY <1>3, <2>2, FreshTypes DEF Back, Types
<1>4. CASE Kill
  <2>1. job' \in Jobs
    <3>1. CASE job.task = "saving"
      BY <1>4, <3>1, FreshTypes DEF Kill
    <3>2. CASE job.task # "saving"
      <4>1. PICK t \in {"over", "killed"} : job' = [job EXCEPT !.task = t, !.progress = "ended"]
        BY <1>4, <3>2 DEF Kill
      <4>2. job \in Jobs
        BY DEF Types
      <4> QED
        BY <4>1, <4>2, Zenon DEF Jobs
    <3> QED
      BY <3>1, <3>2
  <2>2. session' \in Sessions
    BY <1>4, SessionUpdates DEF Kill, Maybe, Types
  <2>3. kills' \in 0 .. MaxKills
    BY <1>4, RecoveryWindowAssumption, SMT DEF Kill, Types
  <2>4. connect' \in Connects /\ browse' \in Browses /\ calls' = {} /\ form' \in Endpoints
        /\ phase' = "connect" /\ modal' = FALSE /\ raced' = FALSE /\ connects' = connects
    BY <1>4, FreshTypes DEF Kill
  <2> QED
    BY <2>1, <2>2, <2>3, <2>4 DEF Types
<1> QED
  BY <1>1, <1>2, <1>3, <1>4 DEF ViewActs

(* The types, for the steps of Connect. *)
LEMMA ConnectTypes ==
    ASSUME Types, Connected, ConnectActs
    PROVE  Types'
<1>t. /\ form \in Endpoints /\ form \in Maybe(Endpoints) /\ connect \in Connects /\ session \in Sessions
      /\ calls \in SUBSET Calls /\ "none" \in Maybe(Endpoints) /\ "none" \in Maybe(Snapshots)
  BY DEF Types, Maybe
<1>1. ASSUME NEW e \in Endpoints, EditForm(e)
      PROVE  Types'
  <2>1. connect' \in Connects
    BY <1>1 DEF EditForm, Connects
  <2> QED
    BY <1>1, <2>1 DEF EditForm, Types
<1>2. CASE TestConnection
  <2>1. calls' \in SUBSET Calls
    BY <1>2, <1>t, CallTypes DEF TestConnection
  <2> QED
    BY <1>2, <2>1 DEF TestConnection, Types
<1>3. CASE Continue
  <2>1. calls' \in SUBSET Calls
    BY <1>3, <1>t, CallTypes DEF Continue
  <2>2. connects' \in 0 .. MaxConnects
    BY <1>3, RecoveryWindowAssumption, SMT DEF Continue, Types
  <2>3. raced' \in BOOLEAN
    BY <1>3, Zenon DEF Continue
  <2> QED
    BY <1>3, <2>1, <2>2, <2>3 DEF Continue, Types
<1>4. ASSUME NEW c \in calls, ConnectReply(c)
      PROVE  Types'
  <2>1. calls' \in SUBSET Calls
    <3>1. [c EXCEPT !.cmd = "unlock"] \in Calls
      BY <1>t, CallUpdates
    <3> QED
      BY <1>4, <3>1, <1>t DEF ConnectReply
  <2>2. session' \in Sessions
    <3>1. c.endpoint \in Maybe(Endpoints)
      BY <1>t DEF Calls, Maybe
    <3> QED
      BY <1>4, <3>1, <1>t, SessionUpdates DEF ConnectReply
  <2> QED
    BY <1>4, <2>1, <2>2 DEF ConnectReply, Types
<1>5. ASSUME NEW c \in calls, UnlockReply(c)
      PROVE  Types'
  <2>1. session' \in Sessions
    <3>1. session' = [session EXCEPT !.key = TRUE] \/ session' = session
      BY <1>5, Zenon DEF UnlockReply
    <3>2. [session EXCEPT !.key = TRUE] \in Sessions
      BY <1>t, SessionUpdates
    <3> QED
      BY <3>1, <3>2, <1>t
  <2>2. session.backend \in Endpoints
    BY <1>5, BackendTypes DEF UnlockReply
  <2>3. /\ phase' \in {"connect", "browse"} /\ modal' \in BOOLEAN
        /\ connect' \in Connects /\ browse' \in Browses /\ calls' \in SUBSET Calls
    <3>1. CASE Show("browse", FALSE, session.backend, calls \ {c})
      BY <3>1, <1>t, <2>2, ShowTypes, FreshTypes
    <3>2. CASE phase' = "browse" /\ calls' = calls \ {c} /\ UNCHANGED <<modal, connect, browse>>
      BY <3>2, <1>t DEF Types
    <3>3. CASE calls' = calls \ {c} /\ UNCHANGED <<phase, modal, connect, browse, session>>
      BY <3>3, <1>t DEF Types
    <3> QED
      BY <1>5, <3>1, <3>2, <3>3, Zenon DEF UnlockReply
  <2> QED
    BY <1>5, <2>1, <2>3 DEF UnlockReply, Types
<1>6. ASSUME NEW c \in calls, TestReply(c)
      PROVE  Types'
  <2>1. connect' \in Connects
    BY <1>6 DEF TestReply, Connects
  <2> QED
    BY <1>6, <2>1 DEF TestReply, Types
<1> QED
  BY <1>1, <1>2, <1>3, <1>4, <1>5, <1>6, Zenon DEF ConnectActs

(* pickSnapshot empties the tree before it asks for the new one. *)
LEMMA PickedTypes ==
    ASSUME NEW b \in Browses, NEW s \in Snapshots
    PROVE  /\ Picked(b, s) \in Browses
           /\ Picked(b, s).picked = s /\ Picked(b, s).shown = "none"
           /\ Picked(b, s).listed = b.listed /\ Picked(b, s).restoring = b.restoring
           /\ ~Picked(b, s).overtaken => ~b.overtaken /\ ReadingFiles = {}
<1> DEFINE late == b.overtaken \/ ReadingFiles # {}
<1>1. b.overtaken \in BOOLEAN /\ late \in BOOLEAN
  BY Zenon DEF Browses
<1>2. Picked(b, s) = [b EXCEPT !.picked = s, !.shown = "none", !.loadingFiles = TRUE, !.filesError = FALSE,
                               !.sel = {}, !.exc = {}, !.overtaken = late]
  BY DEF Picked
<1>3. ~late => ~b.overtaken /\ ReadingFiles = {}
  BY Zenon
<1> HIDE DEF late
<1>4. Picked(b, s) \in Browses
  <2>1. s \in Maybe(Snapshots) /\ {} \in SUBSET Paths
    BY DEF Maybe
  <2> QED
    BY <1>1, <1>2, <2>1, ZenonT(30) DEF Browses, Maybe
<1>5. /\ Picked(b, s).picked = s /\ Picked(b, s).shown = "none"
      /\ Picked(b, s).listed = b.listed /\ Picked(b, s).restoring = b.restoring
      /\ Picked(b, s).overtaken = late
  BY <1>2, Zenon DEF Browses
<1> QED
  BY <1>3, <1>4, <1>5, Zenon

(* The types, for the steps of Browse. *)
LEMMA BrowseTypes ==
    ASSUME Types, Connected, BrowseActs
    PROVE  Types'
<1>t. /\ browse \in Browses /\ calls \in SUBSET Calls /\ job \in Jobs
      /\ "none" \in Maybe(Endpoints) /\ "none" \in Maybe(Snapshots)
  BY DEF Types, Maybe
<1>1. CASE Refresh
  <2>1. browse' \in Browses
    BY <1>1, <1>t, BrowseUpdates, Zenon DEF Refresh
  <2>2. calls' \in SUBSET Calls
    <3>1. session.backend \in Endpoints
      BY <1>1, BackendTypes DEF Refresh, OnScreen
    <3> QED
      BY <1>1, <3>1, <1>t, CallTypes DEF Refresh
  <2> QED
    BY <1>1, <2>1, <2>2 DEF Refresh, Types
<1>2. ASSUME NEW s \in Snapshots, PickSnapshot(s)
      PROVE  Types'
  <2>1. browse' \in Browses
    BY <1>2, <1>t, PickedTypes DEF PickSnapshot
  <2>2. calls' \in SUBSET Calls
    <3>1. session.backend \in Endpoints /\ s \in Maybe(Snapshots)
      BY <1>2, BackendTypes DEF PickSnapshot, OnScreen, Maybe
    <3> QED
      BY <1>2, <3>1, <1>t, CallTypes DEF PickSnapshot
  <2> QED
    BY <1>2, <2>1, <2>2 DEF PickSnapshot, Types
<1>3. ASSUME NEW c \in calls, ListReply(c)
      PROVE  Types'
  <2>1. c.endpoint \in Endpoints /\ session.backend \in Endpoints
    BY <1>3, BackendTypes DEF ListReply
  <2>2. Newest[c.endpoint] \in Snapshots /\ Newest[c.endpoint] \in Maybe(Snapshots)
    BY <2>1, NewestIsASnapshot DEF Maybe
  <2> DEFINE seen == [browse EXCEPT !.listed = c.endpoint]
  <2>3. seen \in Browses
    BY <2>1, <1>t, BrowseUpdates DEF Maybe
  <2>4. CASE /\ browse' = Picked(seen, Newest[c.endpoint])
             /\ calls' = (calls \ {c}) \cup {Call("first", session.backend, Newest[c.endpoint])}
    <3>1. browse' \in Browses
      BY <2>2, <2>3, <2>4, PickedTypes
    <3>2. calls' \in SUBSET Calls
      BY <2>1, <2>2, <2>4, <1>t, CallTypes
    <3> QED
      BY <1>3, <3>1, <3>2 DEF ListReply, Types
  <2>5. CASE browse' = [seen EXCEPT !.loadingSnaps = FALSE] /\ calls' = calls \ {c}
    <3>1. browse' \in Browses
      <4> HIDE DEF seen
      <4> QED
        BY <2>3, <2>5, <1>t, BrowseUpdates
    <3> QED
      BY <1>3, <2>5, <3>1 DEF ListReply, Types
  <2>6. CASE browse' = [browse EXCEPT !.loadingSnaps = FALSE, !.snapsError = TRUE] /\ calls' = calls \ {c}
    <3>1. browse' \in Browses
      BY <2>6, <1>t, BrowseUpdates, Zenon
    <3> QED
      BY <1>3, <2>6, <3>1 DEF ListReply, Types
  <2> QED
    BY <1>3, <2>4, <2>5, <2>6, Zenon DEF ListReply
<1>4. ASSUME NEW c \in calls, FilesReply(c)
      PROVE  Types'
  <2>1. c \in Calls /\ c.endpoint \in Endpoints
    BY <1>t DEF Calls
  <2>2. WaitsOn(c) \in BOOLEAN
    BY <1>t, Zenon DEF WaitsOn, Browses
  <2>3. browse' \in Browses
    <3>1. ASSUME c.snap \in Holds[c.endpoint],
                 browse' = [browse EXCEPT !.shown = c.snap, !.sel = Roots(ListSnapshotFiles(Trees[c.snap])),
                                          !.loadingFiles = FALSE, !.loadingSnaps = WaitsOn(c)]
          PROVE  browse' \in Browses
      <4>1. c.snap \in Snapshots /\ c.snap \in Maybe(Snapshots)
        BY <2>1, <3>1, RecoveryWindowAssumption DEF Maybe
      <4>2. Roots(ListSnapshotFiles(Trees[c.snap])) \in SUBSET Paths
        BY <4>1, RootsArePaths
      <4> QED
        BY <1>t, <2>2, <3>1, <4>1, <4>2, BrowseUpdates, Zenon
    <3>2. CASE browse' = [browse EXCEPT !.filesError = TRUE, !.loadingFiles = FALSE, !.loadingSnaps = WaitsOn(c)]
      BY <1>t, <2>2, <3>2, BrowseUpdates, Zenon
    <3> QED
      BY <1>4, <3>1, <3>2, Zenon DEF FilesReply
  <2> QED
    BY <1>4, <2>3 DEF FilesReply, Types
<1>5. ASSUME browse.shown # "none", NEW row \in Trees[browse.shown], ToggleRow(row)
      PROVE  Types'
  <2>1. row.path \in Paths
    <3>1. browse.shown \in Snapshots
      BY <1>t, <1>5 DEF Browses, Maybe
    <3> QED
      BY <3>1, RecoveryWindowAssumption DEF Paths
  <2>2. browse.sel \in SUBSET Paths /\ browse.exc \in SUBSET Paths
    BY <1>t DEF Browses
  <2>3. browse' \in Browses
    BY <1>5, <1>t, <2>1, <2>2, ToggleKeepsPaths, BrowseUpdates, Zenon DEF ToggleRow
  <2> QED
    BY <1>5, <2>3 DEF ToggleRow, Types
<1>6. CASE ClearRules
  <2>1. browse' \in Browses
    <3>1. {} \in SUBSET Paths
      OBVIOUS
    <3> QED
      BY <1>6, <1>t, <3>1, BrowseUpdates, Zenon DEF ClearRules
  <2> QED
    BY <1>6, <2>1 DEF ClearRules, Types
<1>7. CASE StartRestore
  <2>1. browse' \in Browses
    BY <1>7, <1>t, BrowseUpdates, Zenon DEF StartRestore
  <2>2. job' \in Jobs
    <3>1. /\ NoJob \in Jobs /\ browse.picked \in Maybe(Snapshots)
          /\ session.backend \in Maybe(Endpoints)
      BY <1>t, FreshTypes, BackendTypes DEF Browses
    <3> QED
      BY <1>7, <3>1, Zenon DEF StartRestore, Jobs
  <2> QED
    BY <1>7, <2>1, <2>2 DEF StartRestore, Types
<1>8. CASE StartFails
  <2>1. browse' \in Browses
    BY <1>8, <1>t, BrowseUpdates, Zenon DEF StartFails
  <2> QED
    BY <1>8, <2>1, FreshTypes DEF StartFails, Types
<1>9. CASE Poll
  <2>1. browse' \in Browses
    BY <1>9, <1>t, BrowseUpdates, Zenon DEF Poll
  <2> QED
    BY <1>9, <2>1 DEF Poll, Types
<1> QED
  BY <1>1, <1>2, <1>3, <1>4, <1>5, <1>6, <1>7, <1>8, <1>9, Zenon DEF BrowseActs

(* The types, for every step. *)
LEMMA NextTypes == Types /\ Connected /\ [Next]_vars => Types'
<1> SUFFICES ASSUME Types, Connected, [Next]_vars PROVE Types'
  OBVIOUS
<1>1. CASE UNCHANGED vars
  BY <1>1 DEF vars, Types
<1> QED
  BY <1>1, ActionsOfNext, ViewTypes, ConnectTypes, BrowseTypes, JobTypes

-----------------------------------------------------------------------------
(* The window: what the views, their calls and the session have in common. *)
Window == Connected /\ OffScreen /\ Settled /\ Reading

(* What a fresh view says of the things the invariant is about. *)
LEMMA FreshFields ==
    /\ FreshBrowse.listed = "none" /\ FreshBrowse.picked = "none" /\ FreshBrowse.shown = "none"
    /\ FreshBrowse.restoring = FALSE /\ [FreshBrowse EXCEPT !.restoring = FALSE] = FreshBrowse
<1>1. /\ FreshBrowse.listed = "none" /\ FreshBrowse.picked = "none" /\ FreshBrowse.shown = "none"
      /\ FreshBrowse.restoring = FALSE
  BY Zenon DEF FreshBrowse
<1>2. [FreshBrowse EXCEPT !.restoring = FALSE] = FreshBrowse
  <2>1. ASSUME NEW b \in Browses, b.restoring = FALSE
        PROVE  [b EXCEPT !.restoring = FALSE] = b
    BY <2>1 DEF Browses
  <2> QED
    BY <1>1, <2>1, FreshTypes
<1> QED
  BY <1>1, <1>2

(* The calls a view starts with. *)
LEMMA ShowCalls ==
    ASSUME NEW view, NEW covered, NEW backend, NEW cs \in SUBSET Calls,
           view = "browse" => backend \in Endpoints,
           Show(view, covered, backend, cs)
    PROVE  \A c \in calls' :
               \/ /\ c.cmd \in {"connect", "unlock"}
                  /\ \E x \in cs : x.cmd = c.cmd /\ c = [x EXCEPT !.live = FALSE]
               \/ /\ view = "browse" /\ ~covered
                  /\ c.cmd = "list" /\ c.endpoint = backend /\ c.live
<1>1. view = "browse" =>
          /\ Call("list", backend, "none").cmd = "list" /\ Call("list", backend, "none").endpoint = backend
          /\ Call("list", backend, "none").live
  BY CallTypes DEF Maybe
<1>2. ASSUME NEW c \in calls', c \notin Abandoned(cs)
      PROVE  view = "browse" /\ ~covered /\ c = Call("list", backend, "none")
  BY <1>2, Zenon DEF Show
<1> QED
  BY <1>1, <1>2, AbandonedTypes

(* A view that is built anew has nothing behind it. *)
LEMMA ShowKeeps ==
    ASSUME Types, Window, NEW view \in {"connect", "browse"}, NEW covered \in BOOLEAN,
           NEW cs \in SUBSET calls, Show(view, covered, session.backend, cs),
           session'.backend = session.backend, raced' = raced,
           view = "browse" => session.backend \in Endpoints,
           ~raced /\ view = "browse" => session'.key /\ \A c \in cs : c.cmd \notin {"connect", "unlock"}
    PROVE  Window'
<1>1. cs \in SUBSET Calls
  BY DEF Types
<1>2. phase' = view /\ modal' = covered /\ connect' = FreshConnect /\ browse' = FreshBrowse
  BY DEF Show
<1>3. \A c \in calls' :
          \/ /\ c.cmd \in {"connect", "unlock"}
             /\ \E x \in cs : x.cmd = c.cmd /\ c = [x EXCEPT !.live = FALSE]
          \/ /\ view = "browse" /\ ~covered
             /\ c.cmd = "list" /\ c.endpoint = session.backend /\ c.live
  BY <1>1, ShowCalls
<1>4. Connected'
  <2>1. session.backend = "none" => \A c \in calls : c.cmd \in {"test", "connect"}
    BY DEF Window, Connected
  <2> QED
    BY <1>2, <1>3, <2>1, NoneIsNone DEF Connected
<1>5. OffScreen'
  BY <1>2, <1>3 DEF OffScreen, OnScreen, ReadCmds
<1>6. Settled'
  <2> SUFFICES ASSUME ~raced' PROVE Settled'
    BY DEF Settled
  <2>1. \A c, d \in cs : c.cmd \in {"connect", "unlock"} /\ d.cmd \in {"connect", "unlock"} => c = d
    BY DEF Window, Settled, Connecting
  <2>2. \A c, d \in Connecting' : c = d
    BY <1>3, <2>1 DEF Connecting
  <2>3. phase' = "browse" => Connecting' = {} /\ session'.key
    BY <1>2, <1>3 DEF Connecting
  <2>4. \A c \in calls' : c.cmd \in ReadCmds => c.endpoint = session'.backend
    BY <1>3 DEF ReadCmds
  <2>5. browse'.listed = "none" /\ browse'.picked = "none" /\ ~browse'.restoring
    BY <1>2, FreshFields
  <2> QED
    BY <2>2, <2>3, <2>4, <2>5 DEF Settled
<1>7. Reading'
  BY <1>2, <1>3, FreshFields DEF Reading, ReadingFiles, InFlight
<1> QED
  BY <1>4, <1>5, <1>6, <1>7 DEF Window

(* Nothing is on screen that could be wrong. *)
LEMMA InitWindow == Init => Window
<1> SUFFICES ASSUME Init PROVE Window
  OBVIOUS
<1>1. /\ phase = "connect" /\ calls = {} /\ connect = FreshConnect /\ browse = FreshBrowse
      /\ session.backend = "none"
  BY DEF Init
<1> QED
  BY <1>1, FreshFields
     DEF Window, Connected, OffScreen, Settled, Reading, OnScreen, Connecting, ReadingFiles, InFlight

(* A modal, a way back and a kill build a view anew. *)
LEMMA ViewWindow ==
    ASSUME Types, Window, ViewActs
    PROVE  Window'
<1>1. phase \in {"connect", "browse"} /\ (phase = "browse" => session.backend \in Endpoints)
  BY BackendTypes DEF Types, Window
<1>2. ~raced /\ phase = "browse" => session.key /\ \A c \in calls : c.cmd \notin {"connect", "unlock"}
  BY DEF Window, Settled, Connecting
<1>3. CASE OpenModal
  <2>1. Show(phase, TRUE, session.backend, calls) /\ UNCHANGED <<session, raced>>
    BY <1>3 DEF OpenModal
  <2> QED
    BY <1>1, <1>2, <2>1, ShowKeeps
<1>4. CASE CloseModal
  <2>1. Show(phase, FALSE, session.backend, calls) /\ UNCHANGED <<session, raced>>
    BY <1>4 DEF CloseModal
  <2> QED
    BY <1>1, <1>2, <2>1, ShowKeeps
<1>5. CASE Back
  <2>1. Show("connect", FALSE, session.backend, calls) /\ UNCHANGED <<session, raced>>
    BY <1>5 DEF Back
  <2> QED
    BY <1>1, <1>2, <2>1, ShowKeeps
<1>6. CASE Kill
  <2>1. /\ phase' = "connect" /\ calls' = {} /\ connect' = FreshConnect /\ browse' = FreshBrowse
        /\ session'.backend = "none" /\ modal' = FALSE
    BY <1>6 DEF Kill
  <2> QED
    BY <2>1, FreshFields
       DEF Window, Connected, OffScreen, Settled, Reading, OnScreen, Connecting, ReadingFiles, InFlight
<1> QED
  BY <1>3, <1>4, <1>5, <1>6 DEF ViewActs

(* A change of the form takes the verdict with it.                         *)
LEMMA EditKeeps ==
    ASSUME Types, Window, NEW e \in Endpoints, EditForm(e)
    PROVE  Window'
<1>1. /\ UNCHANGED <<phase, modal, browse, session, calls, job, raced>> /\ OnScreen("connect")
  BY DEF EditForm
<1>2. Connected'
  BY <1>1 DEF Window, Connected
<1>3. OffScreen'
  BY <1>1 DEF Window, OffScreen, OnScreen
<1>4. Settled'
  BY <1>1 DEF Window, Settled, Connecting
<1>5. Reading'
  BY <1>1 DEF Window, Reading, ReadingFiles, InFlight
<1> QED
  BY <1>2, <1>3, <1>4, <1>5 DEF Window

(* A test is begun for what the form says. *)
LEMMA TestKeeps ==
    ASSUME Types, Window, TestConnection
    PROVE  Window'
<1> DEFINE new == Call("test", form, "none")
<1>1. new.cmd = "test" /\ new.endpoint = form /\ new.live
  BY CallTypes DEF Types, Maybe
<1>2. /\ UNCHANGED <<phase, modal, form, connect, browse, session, job, raced>> /\ OnScreen("connect")
      /\ calls' = calls \cup {new}
  BY DEF TestConnection
<1> HIDE DEF new
<1>3. Connected'
  BY <1>1, <1>2 DEF Window, Connected
<1>4. OffScreen'
  BY <1>1, <1>2 DEF Window, OffScreen, OnScreen, ReadCmds
<1>5. Settled'
  <2>1. Connecting' = Connecting
    BY <1>1, <1>2 DEF Connecting
  <2> QED
    BY <1>1, <1>2, <2>1 DEF Window, Settled, ReadCmds
<1>6. Reading'
  BY <1>1, <1>2 DEF Window, Reading, ReadingFiles, InFlight
<1> QED
  BY <1>3, <1>4, <1>5, <1>6 DEF Window

(* The first connect of a session is the only one under way. *)
LEMMA ContinueKeeps ==
    ASSUME Types, Window, Continue
    PROVE  Window'
<1> DEFINE new == Call("connect", form, "none")
<1>1. new.cmd = "connect" /\ new.endpoint = form
  BY CallTypes DEF Types, Maybe
<1>2. /\ UNCHANGED <<phase, modal, form, connect, browse, session, job>> /\ OnScreen("connect")
      /\ calls' = calls \cup {new} /\ (~raced' => ~raced /\ Connecting = {})
  BY DEF Continue
<1> HIDE DEF new
<1>3. Connected'
  BY <1>1, <1>2 DEF Window, Connected
<1>4. OffScreen'
  BY <1>1, <1>2 DEF Window, OffScreen, OnScreen, ReadCmds
<1>5. Settled'
  <2>1. ~raced' => Connecting' = {new} /\ phase' = "connect"
    BY <1>1, <1>2 DEF Connecting, OnScreen
  <2> QED
    BY <1>1, <1>2, <2>1 DEF Window, Settled, ReadCmds
<1>6. Reading'
  BY <1>1, <1>2 DEF Window, Reading, ReadingFiles, InFlight
<1> QED
  BY <1>3, <1>4, <1>5, <1>6 DEF Window

(* A verdict is Connect's alone. *)
LEMMA TestReplyKeeps ==
    ASSUME Types, Window, NEW c \in calls, c.live, TestReply(c)
    PROVE  Window'
<1>3. /\ UNCHANGED <<phase, modal, form, browse, session, job, raced>>
      /\ calls' = calls \ {c} /\ c.cmd = "test"
  BY DEF TestReply
<1>4. Connected'
  BY <1>3 DEF Window, Connected
<1>5. OffScreen'
  BY <1>3 DEF Window, OffScreen, OnScreen, ReadCmds
<1>6. Settled'
  BY <1>3 DEF Window, Settled, Connecting
<1>7. Reading'
  BY <1>3 DEF Window, Reading, ReadingFiles, InFlight
<1> QED
  BY <1>4, <1>5, <1>6, <1>7 DEF Window

(* rec_connect answers while the window is still Connect's, unless connects *)
(* have overlapped: nothing on screen has come from another endpoint.      *)
LEMMA ConnectReplyKeeps ==
    ASSUME Types, Window, NEW c \in calls, ConnectReply(c)
    PROVE  Window'
<1> DEFINE next == [c EXCEPT !.cmd = "unlock"]
<1>1. c.endpoint \in Endpoints /\ next.cmd = "unlock"
  BY CallUpdates DEF Types, Calls
<1>2. /\ UNCHANGED <<phase, modal, form, connect, browse, job, raced>> /\ c.cmd = "connect"
      /\ calls' \in SUBSET ((calls \ {c}) \cup {next})
      /\ \/ session'.backend = c.endpoint
         \/ UNCHANGED session /\ calls' = calls \ {c}
  BY DEF ConnectReply, Types, Sessions
<1> HIDE DEF next
<1>3. Connected'
  BY <1>1, <1>2, NoneIsNone DEF Window, Connected
<1>4. OffScreen'
  BY <1>1, <1>2 DEF Window, OffScreen, OnScreen, ReadCmds
<1>5. Settled'
  <2> SUFFICES ASSUME ~raced' PROVE Settled'
    BY DEF Settled
  <2>1. Connecting = {c} /\ phase # "browse"
    BY <1>2 DEF Window, Settled, Connecting
  <2>2. Connecting' \in SUBSET {next}
    BY <1>1, <1>2, <2>1 DEF Connecting
  <2>3. browse = FreshBrowse /\ \A d \in calls : d.cmd \notin ReadCmds
    BY <2>1 DEF Window, OffScreen, OnScreen
  <2> QED
    BY <1>1, <1>2, <2>1, <2>2, <2>3, FreshFields DEF Settled, ReadCmds
<1>6. Reading'
  BY <1>1, <1>2 DEF Window, Reading, ReadingFiles, InFlight
<1> QED
  BY <1>3, <1>4, <1>5, <1>6 DEF Window

(* rec_unlock is the last of the connects, and Browse comes up on it. *)
LEMMA UnlockReplyKeeps ==
    ASSUME Types, Window, NEW c \in calls, UnlockReply(c)
    PROVE  Window'
<1>1. c.cmd = "unlock" /\ raced' = raced /\ form' = form /\ job' = job /\ session.backend \in Endpoints
  BY BackendTypes DEF UnlockReply, Window
<1>2. ~raced => phase = "connect" /\ \A d \in calls \ {c} : d.cmd \notin {"connect", "unlock"}
  BY <1>1 DEF Window, Settled, Connecting, Types
<1>3. CASE session' = [session EXCEPT !.key = TRUE] /\ Show("browse", FALSE, session.backend, calls \ {c})
  <2>1. session'.backend = session.backend /\ session'.key
    BY <1>3 DEF Types, Sessions
  <2> QED
    BY <1>1, <1>2, <1>3, <2>1, ShowKeeps
<1>4. CASE /\ session' = [session EXCEPT !.key = TRUE] /\ ~OnScreen("connect")
           /\ phase' = "browse" /\ calls' = calls \ {c} /\ UNCHANGED <<modal, connect, browse>>
  <2>1. session'.backend = session.backend /\ session'.key
    BY <1>4 DEF Types, Sessions
  <2>2. Connected'
    BY <1>1, <2>1, NoneIsNone DEF Connected
  <2>3. OffScreen'
    <3>1. OnScreen("connect")' = FALSE /\ (~OnScreen("browse")' => ~OnScreen("browse"))
      BY <1>4 DEF OnScreen, Types
    <3> QED
      BY <1>4, <3>1 DEF Window, OffScreen
  <2>4. Settled'
    BY <1>1, <1>2, <1>4, <2>1 DEF Window, Settled, Connecting
  <2>5. Reading'
    BY <1>1, <1>4 DEF Window, Reading, ReadingFiles, InFlight
  <2> QED
    BY <2>2, <2>3, <2>4, <2>5 DEF Window
<1>5. CASE calls' = calls \ {c} /\ UNCHANGED <<phase, modal, connect, browse, session>>
  <2>1. Connected'
    BY <1>5 DEF Window, Connected
  <2>2. OffScreen'
    BY <1>5 DEF Window, OffScreen, OnScreen
  <2>3. Settled'
    BY <1>1, <1>5 DEF Window, Settled, Connecting
  <2>4. Reading'
    BY <1>5 DEF Window, Reading, ReadingFiles, InFlight
  <2> QED
    BY <2>1, <2>2, <2>3, <2>4 DEF Window
<1> QED
  BY <1>3, <1>4, <1>5, Zenon DEF UnlockReply

(* All that Connect does. *)
LEMMA ConnectWindow ==
    ASSUME Types, Window, ConnectActs
    PROVE  Window'
BY EditKeeps, TestKeeps, ContinueKeeps, TestReplyKeeps, ConnectReplyKeeps, UnlockReplyKeeps, Zenon
   DEF ConnectActs

(* What Browse's own calls and choices leave as they found it. *)
LEMMA BrowseFrame ==
    ASSUME Types, Window, UNCHANGED <<phase, modal, form, connect, raced>>,
           session'.backend = session.backend, session'.key = session.key,
           \A c \in calls' : c \in calls \/ (c.cmd \in ReadCmds /\ c.live),
           OnScreen("browse")
    PROVE  /\ Connected' /\ OffScreen'
           /\ ~raced' => ~raced /\ Connecting' \in SUBSET Connecting
<1>1. Connected'
  BY NoneIsNone DEF Window, Connected, OnScreen
<1>2. OffScreen'
  BY DEF Window, OffScreen, OnScreen, ReadCmds
<1>4. Connecting' \in SUBSET Connecting
  BY DEF Connecting, ReadCmds
<1> QED
  BY <1>1, <1>2, <1>4

(* A second listing is of the same endpoint. *)
LEMMA RefreshKeeps ==
    ASSUME Types, Window, Refresh
    PROVE  Window'
<1> DEFINE new == Call("list", session.backend, "none")
<1>1. new.cmd = "list" /\ new.endpoint = session.backend /\ new.live
  BY BackendTypes, CallTypes DEF Refresh, OnScreen, Window, Maybe
<1>2. /\ UNCHANGED <<phase, modal, form, connect, session, job, raced>> /\ OnScreen("browse")
      /\ calls' = calls \cup {new}
      /\ browse' = [browse EXCEPT !.loadingSnaps = TRUE, !.snapsError = FALSE]
  BY DEF Refresh
<1>3. /\ browse'.listed = browse.listed /\ browse'.picked = browse.picked /\ browse'.shown = browse.shown
      /\ browse'.restoring = browse.restoring /\ browse'.overtaken = browse.overtaken
  BY <1>2, Zenon DEF Types, Browses
<1> HIDE DEF new
<1>4. /\ Connected' /\ OffScreen'
      /\ ~raced' => ~raced /\ Connecting' \in SUBSET Connecting
  BY <1>1, <1>2, BrowseFrame DEF ReadCmds
<1>5. Settled'
  BY <1>1, <1>2, <1>3, <1>4 DEF Window, Settled
<1>6. Reading'
  BY <1>1, <1>2, <1>3 DEF Window, Reading, ReadingFiles, InFlight
<1> QED
  BY <1>4, <1>5, <1>6 DEF Window

(* pickSnapshot, by hand or after the first listing: what is being read is *)
(* the pick, unless something was being read already.                      *)
LEMMA PickKeeps ==
    ASSUME Types, Window, NEW b \in Browses, NEW s \in Snapshots, NEW cmd \in {"files", "first"},
           NEW old \in SUBSET calls,
           UNCHANGED <<phase, modal, form, connect, session, job, raced>>, OnScreen("browse"),
           browse' = Picked(b, s), calls' = old \cup {Call(cmd, session.backend, s)},
           b.overtaken = browse.overtaken, b.restoring = browse.restoring,
           ~raced => b.listed = session.backend /\ s \in Holds[session.backend]
    PROVE  Window'
<1> DEFINE new == Call(cmd, session.backend, s)
<1>1. new.cmd = cmd /\ new.endpoint = session.backend /\ new.snap = s /\ new.live
  BY BackendTypes, CallTypes DEF OnScreen, Window, Maybe
<1>2. /\ browse'.picked = s /\ browse'.shown = "none" /\ browse'.listed = b.listed
      /\ browse'.restoring = browse.restoring
      /\ ~browse'.overtaken => ReadingFiles = {}
  BY PickedTypes
<1>3. calls' = old \cup {new}
  OBVIOUS
<1> HIDE DEF new
<1>4. /\ Connected' /\ OffScreen'
      /\ ~raced' => ~raced /\ Connecting' \in SUBSET Connecting
  BY <1>1, <1>3, BrowseFrame DEF ReadCmds
<1>5. Settled'
  BY <1>1, <1>2, <1>3, <1>4 DEF Window, Settled
<1>6. Reading'
  <2>1. ~browse'.overtaken => \A c \in ReadingFiles' : c = new
    BY <1>1, <1>2, <1>3 DEF ReadingFiles, InFlight
  <2> QED
    BY <1>1, <1>2, <2>1 DEF Reading
<1> QED
  BY <1>4, <1>5, <1>6 DEF Window

LEMMA PickSnapshotKeeps ==
    ASSUME Types, Window, NEW s \in Snapshots, PickSnapshot(s)
    PROVE  Window'
<1>1. ~raced => browse.listed = session.backend /\ s \in Holds[session.backend]
  BY DEF PickSnapshot, Window, Settled
<1> QED
  BY <1>1, PickKeeps DEF PickSnapshot, Types

(* The listing is of the session's endpoint, and so is what it picks. *)
LEMMA ListReplyKeeps ==
    ASSUME Types, Window, NEW c \in calls, c.live, ListReply(c)
    PROVE  Window'
<1> DEFINE seen == [browse EXCEPT !.listed = c.endpoint]
           first == Newest[c.endpoint]
<1>1. c.cmd = "list" /\ c.endpoint \in Endpoints /\ OnScreen("browse")
  BY DEF ListReply, Types, Calls, Window, OffScreen, ReadCmds
<1>2. UNCHANGED <<phase, modal, form, connect, session, job, raced>>
  BY DEF ListReply
<1>3. /\ seen \in Browses /\ seen.listed = c.endpoint
      /\ seen.picked = browse.picked /\ seen.shown = browse.shown
      /\ seen.restoring = browse.restoring /\ seen.overtaken = browse.overtaken
  <2>1. browse \in Browses /\ c.endpoint \in Maybe(Endpoints)
    BY <1>1 DEF Types, Maybe
  <2>2. seen \in Browses
    BY <2>1, SMT DEF Browses
  <2> QED
    BY <2>1, <2>2, Zenon DEF Browses
<1>4. ~raced => c.endpoint = session.backend
  BY <1>1 DEF Window, Settled, ReadCmds
<1>5. CASE browse' = Picked(seen, first) /\ calls' = (calls \ {c}) \cup {Call("first", session.backend, first)}
  <2>1. first \in Snapshots /\ first \in Holds[c.endpoint]
    BY <1>1, NewestIsASnapshot
  <2> HIDE DEF seen, first
  <2> QED
    BY <1>1, <1>2, <1>3, <1>4, <1>5, <2>1, PickKeeps
<1>6. ASSUME calls' = calls \ {c},
             \/ browse' = [seen EXCEPT !.loadingSnaps = FALSE]
             \/ browse' = [browse EXCEPT !.loadingSnaps = FALSE, !.snapsError = TRUE]
      PROVE  Window'
  <2>1. /\ browse'.listed \in {browse.listed, c.endpoint}
        /\ browse'.picked = browse.picked /\ browse'.shown = browse.shown
        /\ browse'.restoring = browse.restoring /\ browse'.overtaken = browse.overtaken
    <3>1. CASE browse' = [seen EXCEPT !.loadingSnaps = FALSE]
      <4> HIDE DEF seen
      <4> QED
        BY <1>3, <3>1, Zenon DEF Browses
    <3>2. CASE browse' = [browse EXCEPT !.loadingSnaps = FALSE, !.snapsError = TRUE]
      BY <3>2, Zenon DEF Types, Browses
    <3> QED
      BY <1>6, <3>1, <3>2
  <2>2. /\ Connected' /\ OffScreen'
        /\ ~raced' => ~raced /\ Connecting' \in SUBSET Connecting
    BY <1>1, <1>2, <1>6, BrowseFrame
  <2>3. Settled'
    BY <1>2, <1>4, <1>6, <2>1, <2>2 DEF Window, Settled
  <2>4. Reading'
    BY <1>2, <1>6, <2>1 DEF Window, Reading, ReadingFiles, InFlight
  <2> QED
    BY <2>2, <2>3, <2>4 DEF Window
<1> QED
  BY <1>5, <1>6, Zenon DEF ListReply

(* The answer to the only reading is the answer to the pick. *)
LEMMA FilesReplyKeeps ==
    ASSUME Types, Window, NEW c \in calls, c.live, FilesReply(c)
    PROVE  Window'
<1>1. /\ UNCHANGED <<phase, modal, form, connect, session, job, raced>>
      /\ calls' = calls \ {c} /\ c \in ReadingFiles /\ OnScreen("browse")
  BY DEF FilesReply, ReadingFiles, InFlight, Window, OffScreen, ReadCmds
<1>2. /\ browse'.listed = browse.listed /\ browse'.picked = browse.picked
      /\ browse'.shown \in {browse.shown, c.snap}
      /\ browse'.restoring = browse.restoring /\ browse'.overtaken = browse.overtaken
  <2>1. CASE browse' = [browse EXCEPT !.shown = c.snap, !.sel = Roots(ListSnapshotFiles(Trees[c.snap])),
                                      !.loadingFiles = FALSE, !.loadingSnaps = WaitsOn(c)]
    BY <2>1, Zenon DEF Types, Browses
  <2>2. CASE browse' = [browse EXCEPT !.filesError = TRUE, !.loadingFiles = FALSE, !.loadingSnaps = WaitsOn(c)]
    BY <2>2, Zenon DEF Types, Browses
  <2> QED
    BY <2>1, <2>2, Zenon DEF FilesReply
<1>3. /\ Connected' /\ OffScreen'
      /\ ~raced' => ~raced /\ Connecting' \in SUBSET Connecting
  BY <1>1, BrowseFrame
<1>4. Settled'
  BY <1>1, <1>2, <1>3 DEF Window, Settled
<1>5. Reading'
  <2>1. ReadingFiles' \in SUBSET ReadingFiles
    BY <1>1 DEF ReadingFiles, InFlight
  <2> QED
    BY <1>1, <1>2, <2>1 DEF Window, Reading
<1> QED
  BY <1>3, <1>4, <1>5 DEF Window

(* The rules, the start of the restore and its end. *)
LEMMA RestKeeps ==
    ASSUME Types, Window,
           \/ browse.shown # "none" /\ \E row \in Trees[browse.shown] : ToggleRow(row)
           \/ ClearRules \/ StartRestore \/ Poll
    PROVE  Window'
<1>1. /\ UNCHANGED <<phase, modal, form, connect, session, calls, raced>> /\ OnScreen("browse")
      /\ browse'.restoring =>
            job'.endpoint = session.backend \/ (browse.restoring /\ job'.endpoint = job.endpoint)
  <2>1. CASE browse.shown # "none" /\ \E row \in Trees[browse.shown] : ToggleRow(row)
    <3>1. PICK sel, exc : browse' = [browse EXCEPT !.sel = sel, !.exc = exc]
      BY <2>1 DEF ToggleRow
    <3>2. browse'.restoring = browse.restoring
      BY <3>1, Zenon DEF Types, Browses
    <3> QED
      BY <2>1, <3>2 DEF ToggleRow, TreeOnScreen
  <2>2. CASE ClearRules
    <3>1. browse'.restoring = browse.restoring
      BY <2>2, Zenon DEF ClearRules, Types, Browses
    <3> QED
      BY <2>2, <3>1 DEF ClearRules, TreeOnScreen
  <2>3. CASE StartRestore
    <3>1. job'.endpoint = session.backend
      BY <2>3, FreshTypes, Zenon DEF StartRestore, Jobs
    <3> QED
      BY <2>3, <3>1 DEF StartRestore
  <2>4. CASE Poll
    <3>1. browse'.restoring = FALSE
      BY <2>4, Zenon DEF Poll, Types, Browses
    <3> QED
      BY <2>4, <3>1 DEF Poll
  <2> QED
    BY <2>1, <2>2, <2>3, <2>4
<1>2. /\ browse'.listed = browse.listed /\ browse'.picked = browse.picked
      /\ browse'.shown = browse.shown /\ browse'.overtaken = browse.overtaken
  <2>1. ASSUME NEW row, ToggleRow(row)
        PROVE  \E sel, exc : browse' = [browse EXCEPT !.sel = sel, !.exc = exc]
    BY <2>1 DEF ToggleRow
  <2>2. \/ \E sel, exc : browse' = [browse EXCEPT !.sel = sel, !.exc = exc]
        \/ \E x \in BOOLEAN : browse' = [browse EXCEPT !.restoring = x]
    BY <2>1 DEF ClearRules, StartRestore, Poll
  <2> QED
    BY <2>2, Zenon DEF Types, Browses
<1>3. /\ Connected' /\ OffScreen'
      /\ ~raced' => ~raced /\ Connecting' \in SUBSET Connecting
  BY <1>1, BrowseFrame
<1>4. Settled'
  BY <1>1, <1>2, <1>3 DEF Window, Settled
<1>5. Reading'
  BY <1>1, <1>2 DEF Window, Reading, ReadingFiles, InFlight
<1> QED
  BY <1>3, <1>4, <1>5 DEF Window

(* A restore that does not begin leaves Browse free, on screen or not. *)
LEMMA StartFailsKeeps ==
    ASSUME Types, Window, StartFails
    PROVE  Window'
<1>1. /\ UNCHANGED <<phase, modal, form, connect, session, calls, raced>>
      /\ browse' = [browse EXCEPT !.restoring = FALSE]
  BY DEF StartFails
<1>2. /\ browse'.listed = browse.listed /\ browse'.picked = browse.picked
      /\ browse'.shown = browse.shown /\ browse'.overtaken = browse.overtaken /\ ~browse'.restoring
  BY <1>1, Zenon DEF Types, Browses
<1>3. Connected'
  BY <1>1 DEF Window, Connected
<1>4. OffScreen'
  <2>1. browse = FreshBrowse => browse' = FreshBrowse
    BY <1>1, FreshFields
  <2> QED
    BY <1>1, <2>1 DEF Window, OffScreen, OnScreen
<1>5. Settled'
  BY <1>1, <1>2 DEF Window, Settled, Connecting
<1>6. Reading'
  BY <1>1, <1>2 DEF Window, Reading, ReadingFiles, InFlight
<1> QED
  BY <1>3, <1>4, <1>5, <1>6 DEF Window

(* All that Browse does. *)
LEMMA BrowseWindow ==
    ASSUME Types, Window, BrowseActs
    PROVE  Window'
BY RefreshKeeps, PickSnapshotKeeps, ListReplyKeeps, FilesReplyKeeps, RestKeeps, StartFailsKeeps, Zenon
   DEF BrowseActs

(* What touches only the job. *)
LEMMA SameWindow ==
    ASSUME Window, UNCHANGED <<phase, modal, form, connect, browse, session, calls, raced>>,
           job'.endpoint = job.endpoint
    PROVE  Window'
<1>1. Connected'
  BY DEF Window, Connected
<1>2. OffScreen'
  BY DEF Window, OffScreen, OnScreen
<1>3. Settled'
  BY DEF Window, Settled, Connecting
<1>4. Reading'
  BY DEF Window, Reading, ReadingFiles, InFlight
<1> QED
  BY <1>1, <1>2, <1>3, <1>4 DEF Window

-----------------------------------------------------------------------------
(* The restore and its checkpoint. *)
LEMMA InitKept == Init => Kept
<1> SUFFICES ASSUME Init PROVE Kept
  OBVIOUS
<1>1. job.task = "none"
  BY Zenon DEF Init, NoJob
<1> QED
  BY <1>1 DEF Kept

(* Each step of the restore leaves the checkpoint its stage calls for. *)
LEMMA JobKeeps ==
    ASSUME Types, Kept, JobActs
    PROVE  Kept' /\ job'.endpoint = job.endpoint
<1>0. job \in Jobs
  BY DEF Types
<1>1. CASE SaveInitial
  <2>1. PICK saved \in BOOLEAN :
            job' = [job EXCEPT !.ckpt = IF saved THEN "saved" ELSE "none", !.disk = saved,
                               !.task = "running", !.progress = "idle"]
    BY <1>1 DEF SaveInitial
  <2>2. /\ job'.task = "running" /\ job'.disk = saved /\ job'.endpoint = job.endpoint
        /\ saved => job'.ckpt = "saved"
    BY <1>0, <2>1, Zenon DEF Jobs
  <2> QED
    BY <2>2 DEF Kept
<1>2. CASE MapFails
  <2>1. /\ job.task = "running" /\ job'.task = "over" /\ job'.result = "failed"
        /\ job'.disk = job.disk /\ job'.ckpt = job.ckpt /\ job'.endpoint = job.endpoint
    BY <1>0, <1>2, Zenon DEF MapFails, Jobs
  <2> QED
    BY <2>1 DEF Kept
<1>3. CASE EngineReturns
  <2>1. PICK r \in {"ok", "failed"} : job' = [job EXCEPT !.task = "returned", !.result = r]
    BY <1>3 DEF EngineReturns
  <2>2. /\ job'.task = "returned" /\ job'.result = r
        /\ job'.disk = job.disk /\ job'.ckpt = job.ckpt /\ job'.endpoint = job.endpoint
    BY <1>0, <2>1, Zenon DEF Jobs
  <2> QED
    BY <1>3, <2>2 DEF Kept, EngineReturns
<1>4. CASE ProgressReads \/ ProgressWrites \/ ProgressEnds
  <2>1. /\ job'.task = job.task /\ job'.result = job.result /\ job'.late = job.late /\ job'.kept = job.kept
        /\ job'.disk = job.disk /\ job'.ckpt = job.ckpt /\ job'.endpoint = job.endpoint
        /\ job.progress # "ended"
    BY <1>0, <1>4, Zenon DEF ProgressReads, ProgressWrites, ProgressEnds, Jobs
  <2> QED
    BY <2>1 DEF Kept
<1>5. CASE ProgressRenames
  <2>1. /\ job'.task = job.task /\ job'.result = job.result /\ job'.late = job.late /\ job'.kept = job.kept
        /\ job'.disk = job.disk /\ job'.ckpt \in {job.ckpt, "saved"} /\ job'.endpoint = job.endpoint
        /\ job.progress = "written"
    BY <1>0, <1>5, Zenon DEF ProgressRenames, Jobs
  <2> QED
    BY <2>1 DEF Kept
<1>6. CASE Finalise
  <2>1. job.task = "returned"
    BY <1>6 DEF Finalise
  <2>2. /\ job'.task = "over" /\ job'.result = job.result /\ job'.disk = job.disk
        /\ job'.progress = job.progress /\ job'.endpoint = job.endpoint
        /\ job'.late = (job.progress # "ended")
        /\ job.result = "ok" /\ ~job'.kept => job'.ckpt = "none"
        /\ job.result # "ok" => job'.ckpt = job.ckpt
    <3>0. PICK removed \in BOOLEAN :
              job' = [job EXCEPT !.task = "over", !.late = job.progress # "ended",
                                 !.kept = job.result = "ok" /\ ~removed,
                                 !.ckpt = IF job.result = "ok" /\ removed THEN "none" ELSE @]
      BY <1>6 DEF Finalise
    <3> DEFINE late == job.progress # "ended"
               kept == job.result = "ok" /\ ~removed
               left == IF job.result = "ok" /\ removed THEN "none" ELSE job.ckpt
    <3>1. job' = [job EXCEPT !.task = "over", !.late = late, !.kept = kept, !.ckpt = left]
      BY <3>0
    <3> HIDE DEF late, kept, left
    <3>2. /\ job'.task = "over" /\ job'.result = job.result /\ job'.disk = job.disk
          /\ job'.progress = job.progress /\ job'.endpoint = job.endpoint
          /\ job'.late = late /\ job'.kept = kept /\ job'.ckpt = left
      BY <1>0, <3>1, Zenon DEF Jobs
    <3> QED
      BY <3>2 DEF late, kept, left
  <2> QED
    BY <2>1, <2>2 DEF Kept
<1> QED
  BY <1>1, <1>2, <1>3, <1>4, <1>5, <1>6 DEF JobActs

(* Everything else leaves the job alone, begins it, gives it up or kills it. *)
LEMMA OthersKeep ==
    ASSUME Types, Kept, ViewActs \/ ConnectActs \/ BrowseActs
    PROVE  Kept'
<1>0. job \in Jobs /\ NoJob.task = "none"
  BY Zenon DEF Types, NoJob
<1>1. CASE Kill
  <2>1. CASE job.task = "saving"
    BY <1>0, <1>1, <2>1 DEF Kill, Kept
  <2>2. CASE job.task # "saving"
    <3>1. job' = [job EXCEPT !.task = IF job.task = "over" THEN "over" ELSE "killed", !.progress = "ended"]
      BY <1>1, <2>2, Zenon DEF Kill
    <3>2. /\ job'.task = IF job.task = "over" THEN "over" ELSE "killed"
          /\ job'.result = job.result /\ job'.late = job.late /\ job'.kept = job.kept /\ job'.disk = job.disk
          /\ job'.ckpt = job.ckpt /\ job'.progress = "ended"
      BY <1>0, <3>1, Zenon DEF Jobs
    <3>3. job.task \in {"running", "returned", "over", "killed"}
      BY <1>0, <1>1, <2>2 DEF Kill, Jobs
    <3> QED
      BY <3>2, <3>3 DEF Kept
  <2> QED
    BY <2>1, <2>2
<1>2. CASE StartRestore
  <2>1. job'.task = "saving"
    BY <1>2, FreshTypes, Zenon DEF StartRestore, Jobs
  <2> QED
    BY <2>1 DEF Kept
<1>3. CASE StartFails
  BY <1>0, <1>3 DEF StartFails, Kept
<1>4. CASE UNCHANGED job
  BY <1>4 DEF Kept
<1>5. ViewActs => Kill \/ UNCHANGED job
  BY DEF ViewActs, OpenModal, CloseModal, Back
<1>6. ConnectActs => UNCHANGED job
  BY DEF ConnectActs, EditForm, TestConnection, Continue, ConnectReply, UnlockReply, TestReply
<1>7. BrowseActs => StartRestore \/ StartFails \/ UNCHANGED job
  BY DEF BrowseActs, Refresh, PickSnapshot, ListReply, FilesReply, ToggleRow, ClearRules, Poll
<1> QED
  BY <1>1, <1>2, <1>3, <1>4, <1>5, <1>6, <1>7

-----------------------------------------------------------------------------
(* What is selected is a row of the tree on screen; an exclusion may be    *)
(* left from another tree.                                                 *)
SelectionIsShown ==
    browse.shown # "none" => browse.sel \subseteq {r.path : r \in Trees[browse.shown]}

LEMMA SelectionStays ==
    ASSUME SelectionIsShown, browse'.sel = browse.sel, browse'.shown = browse.shown
    PROVE  SelectionIsShown'
BY Zenon DEF SelectionIsShown

(* Rules are made of rows: by the first selection of all roots, and by     *)
(* clicks.                                                                 *)
LEMMA NextSelection == Types /\ SelectionIsShown /\ [Next]_vars => SelectionIsShown'
<1> SUFFICES ASSUME Types, SelectionIsShown, [Next]_vars PROVE SelectionIsShown'
  OBVIOUS
<1>0. browse \in Browses
  BY DEF Types
<1>1. CASE UNCHANGED browse
  BY <1>1, SelectionStays
<1>2. CASE browse' = FreshBrowse
  BY <1>2, FreshFields DEF SelectionIsShown
<1>3. ASSUME NEW b \in Browses, NEW s \in Snapshots, browse' = Picked(b, s)
      PROVE  SelectionIsShown'
  BY <1>3, PickedTypes DEF SelectionIsShown
<1>4. CASE \/ \E x \in BOOLEAN : browse' = [browse EXCEPT !.restoring = x]
           \/ \E x \in BOOLEAN : browse' = [browse EXCEPT !.loadingSnaps = x]
           \/ \E x, y \in BOOLEAN : browse' = [browse EXCEPT !.loadingSnaps = x, !.snapsError = y]
           \/ \E x, y, z \in BOOLEAN :
                  browse' = [browse EXCEPT !.filesError = x, !.loadingFiles = y, !.loadingSnaps = z]
  <2>1. browse'.sel = browse.sel /\ browse'.shown = browse.shown
    BY <1>0, <1>4, Zenon DEF Browses
  <2> QED
    BY <2>1, SelectionStays
<1>5. CASE ViewActs
  <2>1. browse' = FreshBrowse
    BY <1>5 DEF ViewActs, OpenModal, CloseModal, Back, Kill, Show
  <2> QED
    BY <1>2, <2>1
<1>6. CASE ConnectActs
  <2>1. browse' = FreshBrowse \/ UNCHANGED browse
    BY <1>6 DEF ConnectActs, EditForm, TestConnection, Continue, ConnectReply, UnlockReply, TestReply, Show
  <2> QED
    BY <1>1, <1>2, <2>1
<1>7. CASE JobActs
  BY <1>1, <1>7 DEF JobActs, SaveInitial, MapFails, EngineReturns, ProgressReads, ProgressWrites,
                    ProgressRenames, ProgressEnds, Finalise, JobStep
<1>8. CASE BrowseActs
  <2>1. CASE Refresh \/ StartRestore \/ StartFails \/ Poll
    BY <1>4, <2>1, Zenon DEF Refresh, StartRestore, StartFails, Poll
  <2>2. ASSUME NEW s \in Snapshots, PickSnapshot(s)
        PROVE  SelectionIsShown'
    BY <1>0, <1>3, <2>2 DEF PickSnapshot
  <2>3. ASSUME NEW c \in calls, ListReply(c)
        PROVE  SelectionIsShown'
    <3> DEFINE seen == [browse EXCEPT !.listed = c.endpoint]
    <3>1. c.endpoint \in Endpoints
      BY DEF Types, Calls
    <3>2. Newest[c.endpoint] \in Snapshots
      BY <3>1, NewestIsASnapshot
    <3>3. seen \in Browses /\ seen.sel = browse.sel /\ seen.shown = browse.shown
      <4>1. c.endpoint \in Maybe(Endpoints)
        BY <3>1 DEF Maybe
      <4>2. seen \in Browses
        BY <1>0, <4>1, SMT DEF Browses
      <4> QED
        BY <1>0, <4>2, Zenon DEF Browses
    <3>4. CASE browse' = Picked(seen, Newest[c.endpoint])
      <4> HIDE DEF seen
      <4> QED
        BY <1>3, <3>2, <3>3, <3>4
    <3>5. CASE browse' = [seen EXCEPT !.loadingSnaps = FALSE]
      <4>1. browse'.sel = browse.sel /\ browse'.shown = browse.shown
        <5> HIDE DEF seen
        <5> QED
          BY <3>3, <3>5, Zenon DEF Browses
      <4> QED
        BY <4>1, SelectionStays
    <3>6. CASE browse' = [browse EXCEPT !.loadingSnaps = FALSE, !.snapsError = TRUE]
      BY <1>4, <3>6, Zenon
    <3> QED
      BY <2>3, <3>4, <3>5, <3>6, Zenon DEF ListReply
  <2>4. ASSUME NEW c \in calls, FilesReply(c)
        PROVE  SelectionIsShown'
    <3>1. WaitsOn(c) \in BOOLEAN
      BY <1>0, Zenon DEF WaitsOn, Browses
    <3>2. CASE browse' = [browse EXCEPT !.shown = c.snap, !.sel = Roots(ListSnapshotFiles(Trees[c.snap])),
                                        !.loadingFiles = FALSE, !.loadingSnaps = WaitsOn(c)]
      <4>1. browse'.shown = c.snap /\ browse'.sel = Roots(ListSnapshotFiles(Trees[c.snap]))
        BY <1>0, <3>2, Zenon DEF Browses
      <4> QED
        BY <4>1 DEF SelectionIsShown, Roots, ListSnapshotFiles
    <3>3. CASE browse' = [browse EXCEPT !.filesError = TRUE, !.loadingFiles = FALSE, !.loadingSnaps = WaitsOn(c)]
      BY <1>4, <3>1, <3>3, Zenon
    <3> QED
      BY <2>4, <3>2, <3>3, Zenon DEF FilesReply
  <2>5. ASSUME browse.shown # "none", NEW row \in Trees[browse.shown], ToggleRow(row)
        PROVE  SelectionIsShown'
    <3> DEFINE next == ToggleRule(row.path, browse.sel, browse.exc)
    <3>1. next.sel \subseteq browse.sel \cup {row.path}
      BY DEF ToggleRule, WithoutDescendants
    <3>2. browse' = [browse EXCEPT !.sel = next.sel, !.exc = next.exc]
      BY <2>5 DEF ToggleRow
    <3>3. browse'.sel = next.sel /\ browse'.shown = browse.shown
      <4> HIDE DEF next
      <4> QED
        BY <1>0, <3>2, Zenon DEF Browses
    <3> HIDE DEF next
    <3> QED
      BY <2>5, <3>1, <3>3 DEF SelectionIsShown
  <2>6. CASE ClearRules
    <3>1. browse'.sel = {}
      BY <1>0, <2>6, Zenon DEF ClearRules, Browses
    <3> QED
      BY <3>1 DEF SelectionIsShown
  <2> QED
    BY <1>8, <2>1, <2>2, <2>3, <2>4, <2>5, <2>6, Zenon DEF BrowseActs
<1>9. CASE UNCHANGED vars
  BY <1>1, <1>9 DEF vars
<1> QED
  BY <1>5, <1>6, <1>7, <1>8, <1>9, ActionsOfNext

-----------------------------------------------------------------------------
IInv == Types /\ Window /\ Kept /\ SelectionIsShown

(* The invariant holds at first, ... *)
LEMMA InitIInv == Init => IInv
<1>1. Init => SelectionIsShown
  BY FreshFields DEF Init, SelectionIsShown
<1> QED
  BY <1>1, InitTypes, InitWindow, InitKept DEF IInv

(* ... is kept by every step, ... *)
LEMMA NextIInv == IInv /\ [Next]_vars => IInv'
<1> SUFFICES ASSUME IInv, [Next]_vars PROVE IInv'
  OBVIOUS
<1>1. Types /\ Window /\ Kept /\ Connected /\ SelectionIsShown
  BY DEF IInv, Window
<1>2. Types' /\ SelectionIsShown'
  BY <1>1, NextTypes, NextSelection
<1>3. CASE ViewActs \/ ConnectActs \/ BrowseActs
  BY <1>1, <1>2, <1>3, ViewWindow, ConnectWindow, BrowseWindow, OthersKeep DEF IInv
<1>4. CASE JobActs
  <2>1. UNCHANGED <<phase, modal, form, connect, browse, session, calls, raced>>
    BY <1>4 DEF JobActs, SaveInitial, MapFails, EngineReturns, ProgressReads, ProgressWrites,
                ProgressRenames, ProgressEnds, Finalise, JobStep
  <2> QED
    BY <1>1, <1>2, <1>4, <2>1, JobKeeps, SameWindow DEF IInv
<1>5. CASE UNCHANGED vars
  <2>1. UNCHANGED <<phase, modal, form, connect, browse, session, calls, job, raced>>
    BY <1>5 DEF vars
  <2>2. Kept'
    BY <1>1, <2>1 DEF Kept
  <2> QED
    BY <1>1, <1>2, <2>1, <2>2, SameWindow DEF IInv
<1> QED
  BY <1>3, <1>4, <1>5, ActionsOfNext

(* ... and so always holds. *)
LEMMA SpecIInv == Spec => []IInv
BY InitIInv, NextIInv, PTL DEF Spec

-----------------------------------------------------------------------------
(* Every variable keeps its type, whatever the endpoints, the snapshots    *)
(* and their trees: no restore leaves a torn checkpoint.                   *)
THEOREM TypeCorrect == Spec => []TypeOK
<1>1. IInv => TypeOK
  <2> SUFFICES ASSUME Types PROVE TypeOK
    BY DEF IInv
  <2>1. /\ browse.listed \in Maybe(Endpoints)
        /\ browse.picked \in Maybe(Snapshots) /\ browse.shown \in Maybe(Snapshots)
        /\ browse.loadingSnaps \in BOOLEAN /\ browse.snapsError \in BOOLEAN
        /\ browse.loadingFiles \in BOOLEAN /\ browse.filesError \in BOOLEAN
        /\ browse.restoring \in BOOLEAN /\ browse.overtaken \in BOOLEAN
    BY Zenon DEF Types, Browses
  <2>2. /\ job.task \in {"none", "saving", "running", "returned", "over", "killed"}
        /\ job.progress \in {"idle", "holding", "written", "ended"}
        /\ job.disk \in BOOLEAN /\ job.kept \in BOOLEAN /\ job.ckpt \in {"none", "saved"}
        /\ job.result \in {"none", "ok", "failed"}
    BY Zenon DEF Types, Jobs
  <2>3. /\ connect \in {"idle", "ok", "fail"}
        /\ session \in [backend : Endpoints \cup {"none"}, key : BOOLEAN]
        /\ calls \subseteq [cmd : {"test", "connect", "unlock", "list", "first", "files"},
                            endpoint : Endpoints, snap : Snapshots \cup {"none"}, live : BOOLEAN]
    BY Zenon DEF Types, Connects, Sessions, Calls, Maybe
  <2>4. /\ phase \in {"connect", "browse"} /\ modal \in BOOLEAN /\ raced \in BOOLEAN /\ form \in Endpoints
        /\ connects \in 0 .. MaxConnects /\ kills \in 0 .. MaxKills
    BY Zenon DEF Types
  <2>5. {browse.loadingSnaps, browse.snapsError, browse.loadingFiles, browse.filesError,
         browse.restoring, browse.overtaken} \subseteq BOOLEAN
    BY <2>1, Zenon
  <2>6. {browse.picked, browse.shown} \subseteq Snapshots \cup {"none"}
    BY <2>1, Zenon DEF Maybe
  <2>7. browse.listed \in Endpoints \cup {"none"} /\ job.ckpt \in {"none", "saved", "torn"}
    BY <2>1, <2>2, Zenon DEF Maybe
  <2> QED
    BY <2>2, <2>3, <2>4, <2>5, <2>6, <2>7, Zenon DEF TypeOK
<1> QED
  BY <1>1, SpecIInv, PTL

(* What Browse lists and restores from is the endpoint the session is      *)
(* connected to, however often the window connects, as long as two         *)
(* connects never overlap (rec_connect, rec_unlock, onConnected).          *)
THEOREM BrowsedIsConnectedHolds == Spec => []BrowsedIsConnected
<1>1. IInv => BrowsedIsConnected
  BY DEF IInv, Window, Settled, BrowsedIsConnected, OnScreen
<1> QED
  BY <1>1, SpecIInv, PTL

(* The tree on screen is the picked snapshot's, unless a pick overtook     *)
(* the reading of another (pickSnapshot).                                  *)
THEOREM TreeIsOfThePickHolds == Spec => []TreeIsOfThePick
<1>1. IInv => TreeIsOfThePick
  BY DEF IInv, Window, Reading, TreeIsOfThePick, TreeOnScreen
<1> QED
  BY <1>1, SpecIInv, PTL

(* A restore that has not succeeded is listed, one that has is forgotten   *)
(* (rec_start_restore, checkpoint.rs).                                     *)
THEOREM CheckpointFollowsTheRestoreHolds == Spec => []CheckpointFollowsTheRestore
<1>1. IInv => CheckpointFollowsTheRestore
  BY DEF IInv, Kept, CheckpointFollowsTheRestore, Listed
<1> QED
  BY <1>1, SpecIInv, PTL

(* One click turns the subtree and nothing else (toggleRule). *)
THEOREM ToggleTakesTheSubtreeHolds == Spec => ToggleTakesTheSubtree
<1>1. IInv /\ [Next]_vars =>
          [\A s \in Snapshots : \A row \in Trees[s] : browse.shown = s /\ ToggleRow(row) =>
              \A r \in Trees[s] :
                  Included(r.path, browse'.sel, browse'.exc) =
                     IF IsAtOrUnder(r.path, row.path) THEN ~Included(row.path, browse.sel, browse.exc)
                     ELSE Included(r.path, browse.sel, browse.exc)]_vars
  <2> SUFFICES ASSUME IInv, NEW s \in Snapshots, NEW row \in Trees[s], ToggleRow(row),
                      NEW r \in Trees[s]
               PROVE  Included(r.path, browse'.sel, browse'.exc) =
                         IF IsAtOrUnder(r.path, row.path) THEN ~Included(row.path, browse.sel, browse.exc)
                         ELSE Included(r.path, browse.sel, browse.exc)
    OBVIOUS
  <2>1. row.path \in Paths /\ r.path \in Paths
    BY RecoveryWindowAssumption DEF Paths
  <2>2. browse \in Browses /\ browse.sel \in SUBSET Paths /\ browse.exc \in SUBSET Paths
    BY DEF IInv, Types, Browses
  <2> DEFINE next == ToggleRule(row.path, browse.sel, browse.exc)
  <2>3. browse' = [browse EXCEPT !.sel = next.sel, !.exc = next.exc]
    BY DEF ToggleRow
  <2>4. Included(r.path, next.sel, next.exc) =
           IF IsAtOrUnder(r.path, row.path) THEN ~Included(row.path, browse.sel, browse.exc)
           ELSE Included(r.path, browse.sel, browse.exc)
    BY <2>1, <2>2, ToggleTurnsTheSubtree
  <2> HIDE DEF next
  <2>5. browse'.sel = next.sel /\ browse'.exc = next.exc
    BY <2>2, <2>3, Zenon DEF Browses
  <2> QED
    BY <2>4, <2>5, Zenon
<1> QED
  BY <1>1, SpecIInv, PTL DEF Spec, ToggleTakesTheSubtree

(* The check boxes and the size shown tell what a restore of the selection *)
(* would write, for every tree and after any clicks (treeSelection.ts and  *)
(* path_selected).                                                         *)
THEOREM ScreenTellsTheRestoreHolds == Spec => []ScreenTellsTheRestore
<1>1. IInv => ScreenTellsTheRestore
  <2> SUFFICES ASSUME IInv, TreeOnScreen, browse.sel # {} PROVE ScreenTellsTheRestore
    BY DEF ScreenTellsTheRestore
  <2> DEFINE rows    == ListSnapshotFiles(Trees[browse.shown])
             sel     == browse.sel
             exc     == browse.exc
             all     == {r.path : r \in rows}
             written == CollectFiles(Trees[browse.shown], sel, exc)
             counted == Previewed(rows, sel, exc)
  <2>1. sel \in SUBSET Paths /\ exc \in SUBSET Paths /\ sel \subseteq all
    BY DEF IInv, Types, Browses, SelectionIsShown, TreeOnScreen, ListSnapshotFiles
  <2>2. \A r \in rows : /\ r.path \in Paths /\ r.dir \in BOOLEAN
                         /\ \A x \in rows : IsPathInside(x.path, r.path) => r.dir
    <3>1. browse.shown \in Snapshots
      BY DEF IInv, Types, Browses, Maybe, TreeOnScreen
    <3> QED
      BY <3>1, RecoveryWindowAssumption DEF Paths, ListSnapshotFiles
  <2>3. \A p : p \in written <=> \E x \in rows : ~x.dir /\ x.path = p /\ Included(p, sel, exc)
    <3>1. \A x \in rows : PathSelected(x.path, sel, exc) <=> Included(x.path, sel, exc)
      BY <2>1, <2>2, EngineAgreesWithTheTree
    <3> QED
      BY <3>1 DEF CollectFiles, ListSnapshotFiles
  <2>4. \A p : p \in counted <=>
            \E x \in rows : ~x.dir /\ x.path = p /\ PathMatchesAny(p, sel, TRUE) /\ ~PathMatchesAny(p, exc, FALSE)
    BY DEF Previewed
  <2>5. \A x \in rows : ~x.dir => \A s \in sel : ~IsPathInside(s, x.path)
    BY <2>1, <2>2
  <2>6. ASSUME NEW r \in rows
        PROVE  LET state == StateFor(r, sel, exc, all)
                   files == {x.path : x \in {y \in rows : ~y.dir /\ IsAtOrUnder(y.path, r.path)}}
               IN  /\ state = "full" => files \subseteq written
                   /\ state = "none" => files \cap written = {}
                   /\ state = "partial" => r.dir
    <3> DEFINE state == StateFor(r, sel, exc, all)
    <3>1. \A x \in rows : IsAtOrUnder(x.path, r.path) =>
              /\ state = "full" => Included(x.path, sel, exc)
              /\ state = "none" => ~Included(x.path, sel, exc)
              /\ state = "partial" => r.dir
      <4> HIDE DEF rows, sel, exc
      <4> QED
        BY <2>1, <2>2, RowTellsTheFiles
    <3>2. IsAtOrUnder(r.path, r.path)
      BY DEF IsAtOrUnder
    <3> HIDE DEF rows, sel, exc, all, written, state
    <3> QED
      BY <2>3, <3>1, <3>2 DEF state
  <2>7. counted \subseteq written
    <3> HIDE DEF rows, sel, exc, all, written, counted
    <3> QED
      BY <2>1, <2>2, <2>3, <2>4, <2>5, PreviewIsOfTheFiles
  <2>8. (\A s \in sel : Covering(s, exc) = {}) => counted = written
    <3> HIDE DEF rows, sel, exc, all, written, counted
    <3>1. ASSUME \A s \in sel : Covering(s, exc) = {}, NEW p \in written
          PROVE  p \in counted
      <4>1. PICK x \in rows : ~x.dir /\ x.path = p /\ Included(p, sel, exc)
        BY <2>3
      <4>2. p \in Paths /\ \A s \in sel : ~IsPathInside(s, p)
        BY <2>2, <2>5, <4>1
      <4>3. PathMatchesAny(p, sel, TRUE) /\ ~PathMatchesAny(p, exc, FALSE)
        BY <2>1, <3>1, <4>1, <4>2, PreviewIsOfTheFiles
      <4> QED
        BY <2>4, <4>1, <4>3
    <3> QED
      BY <2>7, <3>1
  <2> QED
    BY <2>6, <2>7, <2>8 DEF ScreenTellsTheRestore
<1> QED
  BY <1>1, SpecIInv, PTL
=============================================================================
