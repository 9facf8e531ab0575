----------------------------- MODULE StorageCalls -----------------------------
(***************************************************************************)
(* How the recovery tool reads a storage endpoint: one caller, the stack   *)
(* it calls through, and a server that may fail.                           *)
(*                                                                         *)
(*   job        what the caller does with the results: the functions of    *)
(*              crates/bkp-restore, crates/bkp-recover and backend.rs that *)
(*              make one or several calls, or a single operation           *)
(*   with_retry RetryBackend (crates/bkp-storage/src/retry.rs)             *)
(*   with_token the token of the drives, B2's authorisation (oauth.rs)     *)
(*   handler    the backend's operation (ObjectStores, Drives, FileShares) *)
(*   server     answers a request truthfully, or, within the fault budget, *)
(*              not at all, half, or with 429 / 503; where the client of a *)
(*              kind sets no time limit, it may never answer               *)
(*                                                                         *)
(* The endpoint holds up to four objects: x, its mirror x.bak, its parity  *)
(* x.par, and y, which a listing finds on its second page or in its second *)
(* folder.  An object is good, cold (in an archive tier), bent (a pack     *)
(* damaged no further than its parity can repair, as PackParity has it),   *)
(* bad (undecodable) or absent.                                            *)
(***************************************************************************)
EXTENDS ObjectStores, Drives, FileShares

CONSTANTS
    MaxFaults,  \* bound: requests that fail for no reason of the endpoint's
    MaxDeaths,  \* bound: how often the provider revokes every token
    Worlds      \* the endpoints, their contents and the jobs to look at

OAuth   == {"googledrive", "onedrive", "dropbox"}
Stores  == {"s3", "s3_compat", "azure", "gcs", "b2"}
Http    == Stores \cup OAuth \cup {"webdav"}
Files   == {"local", "sftp", "smb", "smb_direct"}
Tiered  == {"s3", "azure"}

(* The clients that give a request no time limit; B2's and the drives' do, *)
(* and a local file needs none.                                            *)
Untimed == (Stores \ {"b2"}) \cup {"webdav", "sftp", "smb", "smb_direct"}

Names   == {"x", "x.bak", "x.par", "y"}

(* The operations a backend implements itself, and the jobs made of them.  *)
Ops(k) == {"get", "range", "exists", "size", "list"}
    \cup (IF k \notin {"webdav", "sftp"} THEN {"hash"} ELSE {})
    \cup (IF k \in {"s3", "s3_compat", "azure", "gcs"} \cup OAuth THEN {"listsizes"} ELSE {})
    \cup (IF k \in {"s3", "azure", "b2"} THEN {"accessible", "initiate"} ELSE {})

Jobs(k) == Ops(k) \cup {"connect", "test", "critical", "discover", "packmap", "chunk"}

(* What an endpoint of the kind can be given: all it needs ("ends"), none  *)
(* of it but the environment has some ("env"), part of it, an account      *)
(* without its key ("keyless"), or nothing.                                *)
Confs(k) == {"ends"}
    \cup (IF k \in {"s3", "s3_compat", "azure", "gcs"} THEN {"env"} ELSE {})
    \cup (IF k \in {"s3", "s3_compat", "azure", "dropbox", "webdav"} THEN {"half"} ELSE {})
    \cup (IF k = "azure" THEN {"keyless"} ELSE {})
    \cup (IF k \in {"b2", "googledrive", "sftp", "smb", "smb_direct"} THEN {} ELSE {"none"})

Typed(w) ==
    /\ w \in [kind : Http \cup Files, job : Jobs(w.kind), conf : Confs(w.kind), good : BOOLEAN, root : BOOLEAN,
              objs : [Names -> {"good", "bent", "bad", "absent", "cold"}], ranges : BOOLEAN,
              meta : SUBSET {"size", "hash"}]
    /\ w.kind \in Tiered \/ \A n \in Names : w.objs[n] # "cold"
    /\ w.conf = "keyless" => ~w.good

ASSUME StorageCallsAssumption ==
    /\ MaxFaults \in Nat /\ MaxDeaths \in Nat
    /\ \A w \in Worlds : Typed(w)

Bak(n)   == IF n = "x" THEN "x.bak" ELSE "y.bak"
PageOf(n) == IF n = "y" THEN 2 ELSE 1

VARIABLES
    world,    \* kind of endpoint, job, configuration, contents
    root,     \* the bucket, folder or share the endpoint names is there
    call,     \* the call in progress
    book,     \* what the job keeps between its calls
    outcome,  \* what the job came to
    cached,   \* TokenCache::cached, or B2's AuthState
    tokens,   \* how many were issued, which of them the provider accepts
    other,    \* a refresh of another call under way: its token, or 0
    faults, deaths, aged  \* the budgets that are spent

vars == <<world, root, call, book, outcome, cached, tokens, other, faults, deaths, aged>>

kind == world.kind
job  == world.job

Pending == [tag |-> "none", val |-> {}, text |-> {}, stage |-> 0]
Done    == outcome.tag # "none"

(* A call at its first request. *)
Fresh(op, arg) ==
    [op |-> op, arg |-> arg, stage |-> 0, page |-> 1, got |-> {}, tries |-> 0, again |-> FALSE, tok |-> 0,
     at |-> IF kind \in OAuth \/ (kind = "b2" /\ op # "build") THEN "token" ELSE "ask"]

Idle == [Fresh("none", "x") EXCEPT !.at = "idle"]

FirstCall ==
    CASE job \in {"connect", "test"} -> [Fresh("build", "x") EXCEPT !.at = "build"]
      [] job = "critical" -> Fresh("get", "x")
      [] job \in {"discover", "packmap"} -> Fresh("list", "x")
      [] job = "chunk" -> Fresh("range", "x")
      [] OTHER -> Fresh(job, "x")

Init ==
    /\ world \in Worlds
    /\ root = world.root
    /\ outcome = Pending
    /\ book = [todo |-> {}, took |-> {}, lost |-> {}, held |-> Pending, part |-> 0]
    /\ LET issued == IF kind \in OAuth \cup {"b2"} /\ job \notin {"connect", "test"} THEN 1 ELSE 0 IN
         /\ cached = [tok |-> issued, fresh |-> issued = 1]
         /\ tokens = [issued |-> issued, alive |-> 1 .. issued]
    /\ call = FirstCall
    /\ other = 0 /\ faults = 0 /\ deaths = 0 /\ aged = FALSE

-----------------------------------------------------------------------------
(* The server.  What a request is for decides the shape of its answer. *)
Request(op, stage) ==
    CASE op = "build" -> IF stage = 0 THEN "authorize" ELSE "buckets"
      [] op \in {"get", "range"} -> IF kind = "googledrive" /\ stage = 0 THEN "find" ELSE "read"
      [] op \in {"exists", "size", "hash", "probe"} ->
           IF kind \in {"b2", "googledrive"} THEN "find"
           ELSE IF op = "hash" /\ kind \in Files THEN "read" ELSE "head"
      [] op \in {"list", "listsizes"} -> IF kind = "smb_direct" /\ stage = 0 THEN "head" ELSE "page"
      [] op = "accessible" -> IF kind = "azure" THEN "head" ELSE "read"
      [] op = "initiate" -> "post"

Answer(code, has) == [code |-> code, has |-> has, body |-> {}, more |-> FALSE]

Yes == IF kind \in Files THEN "ok" ELSE "200"
No  == CASE kind \in Files -> "enoent" [] kind = "dropbox" -> "409" [] OTHER -> "404"

State(n) == IF n \in Names THEN world.objs[n] ELSE "absent"
Present(n) == root /\ State(n) # "absent"

(* The object a call is about; a probe and a listing are about the root. *)
(* An unmounted file system leaves its mount point behind.                 *)
Target ==
    CASE call.op = "probe" -> root \/ (kind \in {"local", "smb"} /\ world.root)
      [] call.op \in {"list", "listsizes"} -> root
      [] OTHER -> Present(call.arg)

Props(n) == {"there"} \cup world.meta \cup (IF State(n) = "cold" THEN {"cold"} ELSE {})

Cold ==
    IF kind = "azure" THEN [Answer("409", {}) EXCEPT !.body = {"blobarchived"}]
    ELSE [Answer("403", {}) EXCEPT !.body = {"invalidobjectstate"}]

Page == {n \in Names : PageOf(n) = call.page /\ Present(n)}

Contents ==
    IF State(call.arg) = "cold" THEN Cold
    ELSE IF kind \in Files \/ call.op \notin {"range", "accessible"} THEN Answer(Yes, {State(call.arg)})
    ELSE IF world.ranges THEN Answer("206", {State(call.arg)})
    ELSE Answer("200", {State(call.arg), "whole"})

Honest ==
    LET req == Request(call.op, call.stage)
        IfThere(a) == IF Target THEN a ELSE Answer(No, {}) IN
    CASE req = "authorize" -> Answer("200", {})
      [] req = "buckets" -> Answer("200", IF root THEN {"there"} ELSE {})
      [] req = "find" -> Answer("200", IF Target /\ call.op # "probe" THEN Props(call.arg) ELSE {})
      [] req = "page" -> IfThere([Answer(IF kind = "webdav" THEN "207" ELSE Yes, Page) EXCEPT !.more = call.page = 1])
      [] req = "head" -> IfThere(Answer(Yes, Props(call.arg)))
      [] req = "read" -> IfThere(Contents)
      [] req = "post" -> IfThere(Answer("202", {}))

Accepted == IF call.tok # 0 THEN call.tok \in tokens.alive ELSE world.good

Refusal ==
    CASE kind = "sftp" -> Answer("denied", {})
      [] kind \in Files \ {"sftp"} -> Answer("drop", {})
      [] kind \in {"s3", "s3_compat", "azure"} -> Answer("403", {})
      [] OTHER -> Answer("401", {})

(* What a request may meet instead of its answer. *)
Faulty ==
    LET req == Request(call.op, call.stage) IN
    CASE kind = "sftp" -> {Answer("refused", {}), Answer("drop", {})}
      [] kind \in Files \ {"sftp"} -> {Answer("drop", {})}
      [] OTHER -> {Answer(s, {}) : s \in {"drop", "429", "503"}}
                  \cup (IF req \in {"read", "page", "find"} THEN {Answer("cut", {})} ELSE {})
                  \cup (IF kind = "webdav" /\ req = "page" THEN {Answer("207", {})} ELSE {})

-----------------------------------------------------------------------------
(* The backend's handler. *)
Handle(a) ==
    IF call.op = "build" THEN B2Authorize(a, call) ELSE
    CASE kind = "s3" -> S3(call.op, a, call)
      [] kind = "s3_compat" -> S3Compat(call.op, a, call)
      [] kind = "azure" -> Azure(call.op, a, call)
      [] kind = "gcs" -> Gcs(call.op, a, call)
      [] kind = "b2" -> B2(call.op, a, call)
      [] kind = "googledrive" -> Drive(call.op, a, call)
      [] kind = "onedrive" -> OneDrive(call.op, a, call)
      [] kind = "dropbox" -> Dropbox(call.op, a, call)
      [] kind = "webdav" -> WebDav(call.op, a, call)
      [] kind = "sftp" -> Sftp(call.op, a, call)
      [] kind = "local" -> Local(call.op, a, call)
      [] kind \in {"smb", "smb_direct"} -> Smb(call.op, a, call, kind)

(* The constructor of the backend, from what the endpoint was given. *)
New ==
    CASE kind = "s3" -> S3New(world.conf)
      [] kind = "s3_compat" -> S3CompatNew(world.conf)
      [] kind = "azure" -> AzureNew(world.conf)
      [] kind = "gcs" -> GcsNew(world.conf)
      [] kind = "googledrive" -> DriveNew(world.conf)
      [] kind = "onedrive" -> OneDriveNew(world.conf)
      [] kind = "dropbox" -> DropboxNew(world.conf)
      [] kind = "webdav" -> WebDavNew(world.conf)
      [] kind = "local" -> LocalNew(world.conf)
      [] OTHER -> Ok({})

-----------------------------------------------------------------------------
(* The jobs. *)
Finish(r) == outcome' = r /\ call' = Idle

(* Both copies failed: prim and bak are what their reads came to, "ok" for *)
(* one that was read but does not decode.                                  *)
CriticalError(prim, bak) ==
    LET absent(r) == r.tag = "err" /\ ClassifyError(r.text) = "storage_missing_object" IN
    IF absent(prim) /\ absent(bak) THEN prim
    ELSE IF prim.tag = "ok" \/ bak.tag = "ok" THEN Err({NotStorage}) ELSE bak

(* Mutant: a primary that does not decode is not looked up again. *)
NeedsBakOnError(r) == r.tag = "err"

(* The primary could not be read or does not decode. *)
NeedsBak(r) == "good" \notin r.val

(* get_critical_decoded: the mirror is read only after the primary failed, *)
(* and what both came to is the result.                                    *)
WantsMirror(r) == call.arg \in {"x", "y"} /\ NeedsBak(r)

ReadMirror(r) ==
    /\ call' = Fresh("get", Bak(call.arg))
    /\ book' = [book EXCEPT !.held = r]
    /\ UNCHANGED outcome

Critical(r) == IF call.arg \notin {"x", "y"} /\ NeedsBak(r) THEN CriticalError(book.held, r) ELSE r

Name == IF call.arg \in {"x", "x.bak"} THEN "x" ELSE "y"

(* Mutant: a reply is made whatever could be decoded. *)
DiscoverReplyAlways(took, lost) == Ok(took)

(* discover_snapshots' reply: an error only when sets were found and none  *)
(* of them could be decoded.                                               *)
DiscoverReply(took, lost) == IF took = {} /\ lost # {} THEN Err({NotStorage}) ELSE Ok(took)

(* The next set, or the reply. *)
DiscoverNext(b) ==
    /\ book' = b
    /\ IF b.todo = {}
         THEN Finish(DiscoverReply(b.took, b.lost))
         ELSE \E n \in b.todo : call' = Fresh("get", n) /\ UNCHANGED outcome

Discover(r) ==
    IF call.op = "list" THEN
      IF r.tag = "err" THEN Finish(r) /\ UNCHANGED book
      ELSE DiscoverNext([book EXCEPT !.todo = {n \in {"x", "y"} : n \in r.val \/ Bak(n) \in r.val}])
    ELSE IF WantsMirror(r) THEN ReadMirror(r)
    ELSE DiscoverNext([book EXCEPT
           !.todo = @ \ {Name}, !.held = Pending,
           !.took = IF Critical(r).tag = "ok" THEN @ \cup {Name} ELSE @,
           !.lost = IF Critical(r).tag = "err" THEN @ \cup {Name} ELSE @])

(* The next pack, or the map. *)
PackMapNext(b) ==
    /\ book' = b
    /\ IF b.todo = {} THEN Finish(Ok(b.took))
       ELSE \E n \in b.todo : call' = Fresh("size", n) /\ UNCHANGED outcome

(* build_pack_map_from_storage: a pack takes three calls, its size, the    *)
(* footer and the index, and whatever goes wrong with it skips it.         *)
PackMap(r) ==
    LET rest == [book EXCEPT !.todo = @ \ {call.arg}, !.part = 0] IN
    IF call.op = "list" THEN
      IF r.tag = "err" THEN Finish(r) /\ UNCHANGED book
      ELSE PackMapNext([book EXCEPT !.todo = r.val \cap {"x", "y"}])
    ELSE IF r.tag = "err" \/ (call.op = "range" /\ r.val # {"good"}) THEN PackMapNext(rest)
    ELSE IF call.op = "range" /\ book.part = 1 THEN PackMapNext([rest EXCEPT !.took = @ \cup {call.arg}])
    ELSE
      /\ call' = Fresh("range", call.arg)
      /\ book' = [book EXCEPT !.part = IF call.op = "range" THEN 1 ELSE 0]
      /\ UNCHANGED outcome

(* repair_pack goes through: an intact pack it hands back as it is.        *)
Repairs(pack, par) == pack.val \in {{"good"}, {"bent"}} /\ par.val = {"good"}

(* Mutant: what the repair failed of is reported. *)
ChunkErrorOfRepair(r) == IF r.tag = "err" THEN r ELSE Err({NotStorage})

(* Whatever the repair fails of, the damage itself is reported. *)
ChunkError(r) == Err({NotStorage})

(* fetch_chunk_ranged: bytes that do not decrypt are looked for in the     *)
(* pack as its parity repairs it.                                          *)
Chunk(r) ==
    IF call.op = "range" THEN
      /\ UNCHANGED book
      /\ IF r.tag = "err" \/ r.val = {"good"} THEN Finish(r)
         ELSE call' = Fresh("get", "x.par") /\ UNCHANGED outcome
    ELSE IF r.tag = "err" THEN Finish(ChunkError(r)) /\ UNCHANGED book
    ELSE IF call.arg = "x.par" THEN
      /\ call' = Fresh("get", "x")
      /\ book' = [book EXCEPT !.held = r]
      /\ UNCHANGED outcome
    ELSE
      /\ Finish(IF Repairs(r, book.held) THEN Ok({"good"}) ELSE ChunkError(r))
      /\ UNCHANGED book

(* Mutant: rec_connect goes straight to the listing. *)
AfterBuildList == "list"

(* list cannot tell an empty root from a missing one: access comes first.  *)
AfterBuild == "probe"

(* rec_connect and rec_test_connection. *)
Connect(r) ==
    /\ UNCHANGED book
    /\ IF r.tag = "err" \/ call.op = "list" THEN Finish(r)
       ELSE call' = Fresh(IF call.op = "build" THEN AfterBuild ELSE "list", "x") /\ UNCHANGED outcome

Proceed(r) ==
    CASE job = "critical" -> IF WantsMirror(r) THEN ReadMirror(r) ELSE Finish(Critical(r)) /\ UNCHANGED book
      [] job = "discover" -> Discover(r)
      [] job = "packmap" -> PackMap(r)
      [] job = "chunk" -> Chunk(r)
      [] job \in {"connect", "test"} -> Connect(r)
      [] OTHER -> Finish(r) /\ UNCHANGED book

-----------------------------------------------------------------------------
(* Mutant: a range read is forwarded as it is. *)
RetriedButRanges == call.op \notin {"build", "probe", "accessible", "initiate", "range"}

(* with_retry. *)
Retried == call.op \notin {"build", "probe", "accessible", "initiate"}

(* rec_test_connection tries twice more, everything else for ever. *)
Exhausted == job = "test" /\ call.tries = 2

(* Mutant: every failure is tried again. *)
ReturnsRetryAll(r) ==
    IF r.tag = "err" /\ Retried /\ ~Exhausted
      THEN /\ call' = [Fresh(call.op, call.arg) EXCEPT !.tries = IF job = "test" THEN call.tries + 1 ELSE 0]
           /\ UNCHANGED <<book, outcome>>
      ELSE Proceed(r)

Returns(r) ==
    IF r.tag = "err" /\ Retried /\ IsTransient(r.text) /\ ~Exhausted
      THEN /\ call' = [Fresh(call.op, call.arg) EXCEPT !.tries = IF job = "test" THEN call.tries + 1 ELSE 0]
           /\ UNCHANGED <<book, outcome>>
      ELSE Proceed(r)

-----------------------------------------------------------------------------
(* build_backend; LocalBackend::new makes the directory if it is missing. *)
Build ==
    /\ call.at = "build"
    /\ root' = (root \/ (kind = "local" /\ New.tag = "ok"))
    /\ IF kind = "b2" THEN call' = [call EXCEPT !.at = "ask"] /\ UNCHANGED <<book, outcome>>
       ELSE Proceed(New)
    /\ UNCHANGED <<world, cached, tokens, other, faults, deaths, aged>>

(* TokenCache::get_token finds a token that is good for another 300 s; B2  *)
(* uses what it has.                                                       *)
GetToken ==
    /\ call.at = "token"
    /\ kind = "b2" \/ (cached.tok # 0 /\ cached.fresh)
    /\ call' = [call EXCEPT !.at = "ask", !.tok = cached.tok]
    /\ UNCHANGED <<world, root, book, outcome, cached, tokens, other, faults, deaths, aged>>

(* Or it has to ask for one, without holding the lock. *)
TokenIsStale ==
    /\ call.at = "token" /\ kind \in OAuth
    /\ cached.tok = 0 \/ ~cached.fresh
    /\ call' = [call EXCEPT !.at = "refresh"]
    /\ UNCHANGED <<world, root, book, outcome, cached, tokens, other, faults, deaths, aged>>

(* do_refresh, B2's authorize: the provider issues a token and answers.    *)
RefreshIssued ==
    /\ call.at \in {"refresh", "renew"} /\ world.good
    /\ tokens' = [issued |-> tokens.issued + 1, alive |-> tokens.alive \cup {tokens.issued + 1}]
    /\ call' = [call EXCEPT !.at = IF @ = "renew" THEN "renewed" ELSE "arriving", !.tok = tokens.issued + 1]
    /\ UNCHANGED <<world, root, book, outcome, cached, other, faults, deaths, aged>>

(* The refresh token was revoked (invalid_grant), or the request fails. *)
RefreshFails ==
    /\ call.at \in {"refresh", "renew"}
    /\ \/ ~world.good /\ Returns(Err(StatusLine(IF kind = "b2" THEN "401" ELSE "400"))) /\ UNCHANGED faults
       \/ /\ faults < MaxFaults /\ faults' = faults + 1
          /\ \E s \in {"drop", "503"} : Returns(Err(StatusLine(s)))
    /\ UNCHANGED <<world, root, cached, tokens, other, deaths, aged>>

(* The answer is stored, whatever was stored in the meantime.  After a 401 *)
(* the next attempt asks get_token again.                                  *)
RefreshArrives ==
    /\ call.at \in {"arriving", "renewed"}
    /\ cached' = [tok |-> call.tok, fresh |-> TRUE]
    /\ call' = IF call.at = "renewed" THEN [call EXCEPT !.at = "token", !.tok = 0]
                ELSE [call EXCEPT !.at = "ask"]
    /\ UNCHANGED <<world, root, book, outcome, tokens, other, faults, deaths, aged>>

(* with_token and its copies in B2: a first 401 renews the token.  Most    *)
(* look for the number in the text, B2's download at the status.           *)
Renews(a, r) ==
    /\ kind \in OAuth \cup {"b2"} /\ call.op # "build" /\ ~call.again
    /\ IF kind = "b2" /\ call.op \in {"get", "range"} THEN a.code = "401"
       ELSE r.tag = "err" /\ "401" \in r.text

(* An exchange with the server: the answer goes through the layers. *)
Takes(a) ==
    LET r == Handle(a) IN
    IF Renews(a, r) THEN
      /\ call' = [Fresh(call.op, call.arg) EXCEPT !.at = "renew", !.again = TRUE, !.tries = call.tries]
      /\ UNCHANGED <<book, outcome>>
    ELSE IF r.tag = "next" THEN
      /\ call' = [call EXCEPT !.stage = r.stage, !.got = r.val,
                    !.page = IF Request(call.op, call.stage) = "page" THEN @ + 1 ELSE @]
      /\ UNCHANGED <<book, outcome>>
    ELSE Returns(r)

Exchange ==
    /\ call.at = "ask"
    /\ Takes(IF Accepted THEN Honest ELSE Refusal)
    /\ IF call.op = "build" /\ call.stage = 0 /\ world.good
         THEN /\ cached' = [tok |-> 1, fresh |-> TRUE]
              /\ tokens' = [issued |-> 1, alive |-> {1}]
         ELSE UNCHANGED <<cached, tokens>>
    /\ UNCHANGED <<world, root, other, faults, deaths, aged>>

ExchangeFails ==
    /\ call.at = "ask" /\ faults < MaxFaults
    /\ faults' = faults + 1
    /\ \E a \in Faulty : Takes(a)
    /\ UNCHANGED <<world, root, cached, tokens, other, deaths, aged>>

(* A request without a time limit is never answered.  There is no retry:   *)
(* with_retry awaits the operation it calls.                               *)
Hangs ==
    /\ call.at = "ask" /\ kind \in Untimed
    /\ call' = [call EXCEPT !.at = "hung"]
    /\ UNCHANGED <<world, root, book, outcome, cached, tokens, other, faults, deaths, aged>>

(* rec_test_connection's 20 seconds are over, whatever the call is at. *)
TestTimesOut ==
    /\ job = "test" /\ call.at \notin {"idle", "build"} /\ call.op # "build"
    /\ Finish(Err({"timed out"}))
    /\ UNCHANGED <<world, root, book, cached, tokens, other, faults, deaths, aged>>

-----------------------------------------------------------------------------
(* The world moves on. *)
TokenAges ==
    /\ ~Done /\ ~aged /\ cached.tok # 0 /\ kind \in OAuth
    /\ aged' = TRUE
    /\ cached' = [cached EXCEPT !.fresh = FALSE]
    /\ UNCHANGED <<world, root, call, book, outcome, tokens, other, faults, deaths>>

TokensDie ==
    /\ ~Done /\ deaths < MaxDeaths /\ kind \in OAuth \cup {"b2"} /\ tokens.issued > 0
    /\ deaths' = deaths + 1
    /\ tokens' = [tokens EXCEPT !.alive = {}]
    /\ UNCHANGED <<world, root, call, book, outcome, cached, other, faults, aged>>

(* Another call on the same backend renews the token: it saw it age or got *)
(* a 401.  Its answer may come at any time.                                *)
OtherRefreshes ==
    /\ ~Done /\ other = 0 /\ kind \in OAuth /\ job = "get" /\ world.good
    /\ ~cached.fresh \/ cached.tok \notin tokens.alive
    /\ tokens.issued < 2
    /\ tokens' = [issued |-> tokens.issued + 1, alive |-> tokens.alive \cup {tokens.issued + 1}]
    /\ other' = tokens.issued + 1
    /\ UNCHANGED <<world, root, call, book, outcome, cached, faults, deaths, aged>>

OtherArrives ==
    /\ ~Done /\ other # 0
    /\ cached' = [tok |-> other, fresh |-> TRUE]
    /\ other' = 0
    /\ UNCHANGED <<world, root, call, book, outcome, tokens, faults, deaths, aged>>

(* A mounted file system goes away; the empty mount point stays behind. *)
Unmounts ==
    /\ ~Done /\ kind \in {"local", "smb"} /\ root /\ faults < MaxFaults
    /\ call.at # "build"
    /\ root' = FALSE
    /\ faults' = faults + 1
    /\ UNCHANGED <<world, call, book, outcome, cached, tokens, other, deaths, aged>>

Finished == (Done \/ call.at = "hung") /\ UNCHANGED vars

Layers ==
    \/ Build \/ GetToken \/ TokenIsStale \/ RefreshIssued \/ RefreshFails \/ RefreshArrives
    \/ Exchange \/ ExchangeFails \/ TestTimesOut

Next ==
    \/ Layers
    \/ Hangs
    \/ TokenAges \/ TokensDie \/ OtherRefreshes \/ OtherArrives \/ Unmounts
    \/ Finished

(* The layers run on, and a request is answered, fails or hangs.  Nothing  *)
(* but the test's timeout ends a call that hangs.                          *)
Spec == Init /\ [][Next]_vars /\ WF_vars(Layers)

-----------------------------------------------------------------------------
Results == [tag : {"none", "ok", "err"}, val : SUBSET (Names \cup {"good", "bent", "bad", "whole", "there", "size", "hash"}),
            text : SUBSET (Permanent \cup Transient \cup Archived \cup Missing \cup {NotStorage, "409", "200"}),
            stage : {0}]

TypeOK ==
    /\ world \in Worlds /\ root \in BOOLEAN
    /\ call.at \in {"idle", "build", "token", "refresh", "renew", "arriving", "renewed", "ask", "hung"}
    /\ call.stage \in 0 .. 2 /\ call.page \in 1 .. 3 /\ call.tries \in 0 .. 2
    /\ book.todo \cup book.took \cup book.lost \subseteq {"x", "y"} /\ book.held \in Results
    /\ outcome \in Results /\ (Done <=> call.at = "idle")
    /\ cached.tok \in 0 .. tokens.issued /\ tokens.alive \subseteq 1 .. tokens.issued
    /\ other \in 0 .. tokens.issued
    /\ faults \in 0 .. MaxFaults /\ deaths \in 0 .. MaxDeaths /\ aged \in BOOLEAN

-----------------------------------------------------------------------------
(* What the endpoint really holds, mounted or not. *)
Held(n) == world.root /\ State(n) # "absent"

Failed(class) == outcome.tag = "err" /\ ClassifyError(outcome.text) = class

ObjectJobs == {"get", "range", "exists", "size", "hash", "accessible"}

(* The file system the endpoint was on has been unmounted since. *)
Unmounted == world.root /\ ~root

(* What a single operation on an object reports is so: "missing" when the  *)
(* object is not there, "archived" when it is cold, "refused" when the     *)
(* endpoint does not take the credentials, and a value only from an object *)
(* that is there.  Not so, and left out: a share that was unmounted looks  *)
(* empty; OneDrive's and Dropbox's exists, and those of the file backends, *)
(* report any failure as absence; the drives and B2 take the whole object  *)
(* for a range when the server ignores the range.                          *)
ErrorsTellTheTruth ==
    Done /\ job \in ObjectJobs /\ ~Unmounted =>
      /\ Failed("storage_missing_object") => ~Held("x")
      /\ Failed("archive_retrieval_required") => State("x") = "cold"
      /\ Failed("auth_expired") => ~world.good \/ deaths > 0
      /\ State("x") = "cold" /\ Held("x") /\ outcome.tag = "err" /\ job \in {"get", "range"} /\ world.good
            /\ deaths = 0 => Failed("archive_retrieval_required")
      /\ outcome.tag = "ok" /\ job \in {"get", "range", "size", "hash"} => Held("x")
      /\ outcome.tag = "ok" /\ job \in {"get", "range"} =>
            outcome.val = {State("x")} \/ (~world.ranges /\ kind \in OAuth \cup {"b2"})
      /\ outcome = Ok({}) /\ job = "exists" =>
            ~Held("x") \/ (kind \in Files \cup {"onedrive", "dropbox"} /\ (faults + deaths > 0 \/ ~world.good))
      /\ outcome = Ok({}) /\ job = "accessible" => State("x") = "cold"

(* A listing that succeeds names every object, however many pages it took  *)
(* and whatever failed on the way.  Left out: SFTP, local and SMB skip a   *)
(* folder they cannot read or may not, WebDAV keeps what it read of a      *)
(* broken answer, and Dropbox's list_with_sizes does not descend below a   *)
(* prefix.                                                                 *)
ListsAreWhole ==
    Done /\ job \in {"list", "listsizes"} /\ outcome.tag = "ok"
      /\ ~(kind \in Files /\ (faults > 0 \/ ~world.good)) /\ ~(kind = "webdav" /\ faults > 0)
      /\ ~(kind = "dropbox" /\ job = "listsizes") =>
        outcome.val = {n \in Names : Held(n)}

(* The endpoint is there, takes the credentials and has revoked no token,  *)
(* or revoked them once.  (get is the job another call's refresh can       *)
(* overtake: there, only while no token is revoked.)                       *)
Steady == world.good /\ world.root /\ deaths <= IF job = "get" THEN 0 ELSE 1

(* Outages and a token that expires or is revoked never show: behind an    *)
(* HTTP backend an operation that is retried fails only for a reason that  *)
(* stands in the endpoint.                                                 *)
StandingReason ==
    \/ ~Held("x") \/ State("x") = "cold"
    \/ job = "range" /\ ~world.ranges
    \/ job \in {"size", "hash"} /\ ~({"size", "hash"} \subseteq world.meta)

OutagesAreRiddenOut ==
    Done /\ kind \in Http /\ Steady =>
      /\ job \in {"get", "range", "exists", "size", "hash"} /\ outcome.tag = "err" => StandingReason
      /\ job \in {"list", "listsizes", "discover", "packmap"} => outcome.tag = "ok" \/ book.lost # {}

(* get_critical_decoded returns nothing but a copy that decodes, and where *)
(* the primary or its mirror does, it is found through any outages.        *)
CriticalReads ==
    Done /\ job = "critical" /\ ~Unmounted =>
      /\ outcome.tag = "ok" => outcome.val = {"good"}
      /\ kind \in Http /\ Steady /\ (State("x") = "good" \/ State("x.bak") = "good") =>
            outcome.tag = "ok"

(* get_critical_decoded's promise: "preserve not-found ONLY when BOTH are  *)
(* genuinely absent" (backend.rs:225-226).  The code does not keep it: of  *)
(* a primary that could not be read and a mirror that is missing, it       *)
(* returns the mirror's "not found".                                       *)
MissingMeansBothMissing ==
    Done /\ job = "critical" /\ ~Unmounted /\ Failed("storage_missing_object") =>
      ~Held("x") /\ ~Held("x.bak")

(* A list of snapshots leaves no set out in silence: each one the endpoint *)
(* holds was opened, when a copy of its index decodes, or is counted, and  *)
(* an empty list means an empty endpoint.                                  *)
SetsAreAccounted ==
    Done /\ job = "discover" /\ kind \in Http /\ kind # "webdav" /\ Steady =>
      LET sets == {n \in {"x", "y"} : Held(n) \/ Held(Bak(n))}
          open == {n \in sets : State(n) = "good" \/ State(Bak(n)) = "good"} IN
      /\ book.took = open /\ book.lost = sets \ open
      /\ outcome.tag = "ok" => outcome.val # {} \/ sets = {}

(* Outages lose no pack: where ranges can be read and sizes are told, the  *)
(* map build_pack_map_from_storage returns holds every pack that can be    *)
(* read, and no other.                                                     *)
PackMapIsWhole ==
    Done /\ job = "packmap" /\ kind \in Http /\ kind # "webdav" /\ Steady
      /\ world.ranges /\ "size" \in world.meta =>
      outcome = Ok({n \in {"x", "y"} : State(n) = "good"})

(* A chunk that decrypts is the chunk; one in a pack that is whole, or no  *)
(* further damaged than its parity repairs, is restored through any        *)
(* outages; and of one that is lost the damage is reported, never that     *)
(* something was missing.                                                  *)
ChunksAreRepaired ==
    Done /\ job = "chunk" =>
      /\ outcome.tag = "ok" => outcome.val = {"good"} /\ Held("x") /\ State("x") \in {"good", "bent"}
      /\ Steady /\ kind \in Http /\ world.ranges
            /\ (State("x") = "good" \/ (State("x") = "bent" /\ State("x.par") = "good")) =>
            outcome.tag = "ok"
      /\ Failed("storage_missing_object") /\ ~Unmounted => ~Held("x")
      /\ Steady /\ kind \in Http /\ world.ranges /\ State("x") \in {"bent", "bad"} /\ outcome.tag = "err" =>
            Failed("internal")

(* Connecting succeeds only to an endpoint whose configuration is complete *)
(* and that takes the credentials, and, for the kinds in Rooted, only when *)
(* the root was there (an empty mount point counts as a share's            *)
(* directory).  WebDAV, SFTP, OneDrive and Dropbox list a root that is     *)
(* missing as an empty one, and a local root is made by the constructor.   *)
Rooted == Stores \cup {"googledrive", "smb", "smb_direct"}

ConnectedMeansReached ==
    Done /\ job \in {"connect", "test"} /\ outcome.tag = "ok" =>
      /\ world.good /\ world.conf \notin {"half", "none", "keyless"}
      /\ kind = "azure" => world.conf = "ends"
      /\ kind \in Rooted => world.root

(* Every call ends once the failures do, unless it waits for the answer to *)
(* a request that has no time limit; the test of a connection ends         *)
(* nevertheless.                                                           *)
EveryCallEnds == <>(Done \/ (call.at = "hung" /\ job # "test"))
=============================================================================
