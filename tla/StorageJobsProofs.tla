--------------------------- MODULE StorageJobsProofs ---------------------------
(***************************************************************************)
(* Proofs about what the jobs of StorageCalls come to: a listing of two    *)
(* pages, a token renewed under way, and the reads of several objects that *)
(* one reply is made of.                                                   *)
(***************************************************************************)
EXTENDS StorageCallsProofs

(* What may keep a listing that succeeds from being whole. *)
Spoilt == (kind \in Files /\ (faults > 0 \/ ~world.good)) \/ (kind = "webdav" /\ faults > 0)

(* A listing under way has what the pages before hold. *)
Gathered ==
    call.at # "idle" /\ job \notin {"connect", "test"} =>
      /\ call.page = 2 => Request(call.op, call.stage) = "page"
      /\ ~Spoilt => call.got = {n \in Names : PageOf(n) < call.page /\ Held(n)}

(* A call that renews its token was turned away because every token was    *)
(* revoked; what it gets after that the provider accepts.                  *)
Renewing ==
    call.at # "idle" /\ call.again /\ world.good /\ deaths <= 1 /\ job \notin {"get", "connect", "test"} =>
      /\ deaths = 1
      /\ call.at \in {"renewed", "arriving", "ask"} => call.tok \in tokens.alive
      /\ call.at = "token" => cached.tok \in tokens.alive

(* What a whole listing names. *)
Whole == {n \in Names : Held(n)}

(* What a job knows of a result it goes on with. *)
Got(op, n, r) ==
    /\ Result(r)
    /\ op \in ObjectOps => Told(op, n, r, TRUE, FALSE)
    /\ op \in {"get", "range", "exists", "size", "hash"} /\ Steady /\ kind \in Http /\ r.tag = "err" => Reason(op, n)
    /\ op \in Listings /\ Steady /\ kind \in Http => r.tag = "ok"

(* A listing that names all of it, unless something spoilt it. *)
Full(op, r) ==
    op \in Listings /\ r.tag = "ok" /\ ~Spoilt /\ ~(kind = "dropbox" /\ op = "listsizes") => r.val = Whole

(* A single operation or listing that has ended. *)
Single == Done /\ job \in ObjectOps \cup Listings => Got(job, "x", outcome) /\ Full(job, outcome)

(* The primary was read, and does not do. *)
MirrorFits ==
    job = "critical" /\ call.at # "idle" /\ call.arg = "x.bak" => Got("get", "x", book.held) /\ NeedsBak(book.held)

Sets  == {n \in {"x", "y"} : Held(n) \/ Held(Bak(n))}
(* The sets of which a copy of the index decodes. *)
Opens == {n \in Sets : State(n) = "good" \/ State(Bak(n)) = "good"}

(* The sets that are behind are opened or counted. *)
DiscoverFits ==
    job = "discover" /\ kind \in Http \ {"webdav"} /\ Steady /\ call.at # "idle" =>
      IF call.op = "list" THEN book.took = {} /\ book.lost = {}
      ELSE /\ book.todo \subseteq Sets /\ Name \in book.todo
           /\ book.took = Opens \ book.todo /\ book.lost = (Sets \ Opens) \ book.todo
           /\ call.arg = Bak(Name) => State(Name) # "good"

Packs == {n \in {"x", "y"} : State(n) = "good"}

(* The packs that are behind are in the map if they can be read. *)
PackMapFits ==
    job = "packmap" /\ kind \in Http \ {"webdav"} /\ Steady /\ world.ranges /\ "size" \in world.meta /\ call.at # "idle" =>
      IF call.op = "list" THEN book.took = {}
      ELSE /\ call.arg \in book.todo /\ \A n \in book.todo : Held(n)
           /\ book.took = Packs \ book.todo

(* A chunk is repaired when it was read and does not decrypt. *)
ChunkFits ==
    job = "chunk" /\ call.at # "idle" /\ call.op = "get" =>
      /\ Steady /\ kind \in Http /\ world.ranges => State("x") \in {"bent", "bad"}
      /\ call.arg = "x" => Got("get", "x.par", book.held) /\ book.held.tag = "ok"

-----------------------------------------------------------------------------
(* A call that is answered, turned away and tried again.                   *)

(* What a job knows stays so while the endpoint gets worse. *)
LEMMA GotStays ==
    ASSUME NEW op, NEW n, NEW r, Got(op, n, r), UNCHANGED world, root' => root,
           deaths \in Nat, deaths' \in Nat, deaths <= deaths'
    PROVE  Got(op, n, r)'
<1>1. Steady' => Steady  BY DEF Steady, job
<1>2. kind' = kind /\ (Reason(op, n) => Reason(op, n)')  BY DEF Reason, Held, State, kind
<1>3. op \in ObjectOps => Told(op, n, r, TRUE, FALSE)'
  <2>1. PICK broken, fits : broken = TRUE /\ fits = FALSE  OBVIOUS
  <2>2. Told(op, n, r, broken, fits) => Told(op, n, r, broken, fits)'  BY ToldStays
  <2> QED  BY <2>1, <2>2 DEF Got
<1> QED  BY <1>1, <1>2, <1>3 DEF Got

LEMMA FullStays ==
    ASSUME NEW op, NEW r, Full(op, r), UNCHANGED world, faults \in Nat, faults' \in Nat, faults <= faults'
    PROVE  Full(op, r)'
<1>1. kind' = kind /\ Whole' = Whole  BY DEF kind, Whole, Held, State
<1>2. Spoilt => Spoilt'  BY DEF Spoilt, kind
<1> QED  BY <1>1, <1>2 DEF Full

(* What is left of an answer that does not come from the endpoint. *)
LEMMA Unanswered ==
    ASSUME kind \in Http, NEW a, IsAnswer(a), a.body = {}, a.code \in {"401"} \cup Outages,
           call.op \in {"get", "range", "exists", "size", "hash"} \cup Listings, call.op \in Ops(kind),
           NEW r, r = Handle(a), r.tag = "err"
    PROVE  Fails(r, a.code, {})
<1>0. a.code \notin {"200", "202", "204", "206", "207", "404", "409"} /\ Meant(a.code) = a.code
  BY DEF Outages, Meant
<1>1. CASE call.op \in {"get", "range"} /\ kind = "googledrive" /\ call.stage = 0
  BY <1>0, <1>1, DriveSearch
<1>2. CASE call.op \in {"get", "range"} /\ ~(kind = "googledrive" /\ call.stage = 0)
  BY <1>0, <1>2, HttpGet, HttpRange
<1>3. CASE call.op = "size"  BY <1>0, <1>3, HttpSize
<1>4. CASE call.op = "hash"
  <2>1. kind # "webdav"  BY <1>4 DEF Ops, OAuth
  <2> QED  BY <1>0, <1>4, <2>1, HttpHash
<1>5. CASE call.op = "exists"
  <2>1. \A v : Ok(v).tag # "err"  BY DEF Ok
  <2> QED  BY <1>0, <1>5, <2>1, HttpExists
<1>6. CASE call.op \in Listings  BY <1>0, <1>6, HttpList DEF Listings
<1> QED  BY <1>1, <1>2, <1>3, <1>4, <1>5, <1>6

(* A token is renewed only after one was turned away. *)
LEMMA RenewsMeans ==
    ASSUME Legible, Base, job \notin {"connect", "test"}, call.at = "ask", NEW a, NEW broken, Meets(a, broken),
           NEW r, r = Handle(a), Renews(a, r)
    PROVE  ~Accepted
<1> USE DEF Base, Shapes
<1>0. kind \in OAuth \cup {"b2"} /\ kind \in Http /\ kind \notin Tiered /\ call.op \in ObjectOps \cup Listings
  BY OpsFit DEF Renews, Http, Stores, OAuth, Tiered, Open
<1>1. CASE kind = "b2" /\ call.op \in {"get", "range"}
  <2>1. a.code = "401" /\ Request(call.op, call.stage) = "read"  BY <1>1 DEF Renews, Request
  <2>2. No # "401"  BY <1>0, YesNo
  <2> QED  BY <1>0, <1>1, <2>1, <2>2, HttpReads DEF Outages
<1>2. CASE ~(kind = "b2" /\ call.op \in {"get", "range"})
  <2>1. r.tag = "err" /\ "401" \in r.text  BY <1>2 DEF Renews
  <2>2. ~Continues(r) /\ \A v : r # Ok(v)  BY <2>1 DEF Continues, More, Ok
  <2>3. \/ Told(call.op, call.arg, r, broken, Accepted)
        \/ Unlisted(r, Accepted)
    BY <1>0, <2>2, AnswerTells DEF Listed
  <2>4. ASSUME NEW code \in Codes, NEW body \in Bodies, Fails(r, code, body) PROVE code = "401"
    BY <2>1, <2>4 DEF Fails, Tells
  <2>5. CASE Told(call.op, call.arg, r, broken, Accepted)
    <3>1. PICK code \in Codes, body \in Bodies : Fails(r, code, body) /\ Why(call.op, call.arg, code, body, Accepted)
      BY <2>2, <2>5 DEF Told
    <3>2. code = "401"  BY <2>4, <3>1
    <3> QED  BY <1>0, <3>1, <3>2, WorldIs DEF Why
  <2>6. CASE Unlisted(r, Accepted)
    <3>1. PICK code \in Codes : Fails(r, code, {}) /\ (code \in {"401", "403"} => ~Accepted)  BY <2>6 DEF Unlisted
    <3> QED  BY <2>4, <3>1 DEF Bodies
  <2> QED  BY <2>3, <2>5, <2>6
<1> QED  BY <1>1, <1>2

(* A steady endpoint turns a call away only once, and for a token. *)
LEMMA SteadyAccepts ==
    ASSUME Base, Renewing, Steady, kind \in Http, job \notin {"connect", "test"}, call.at = "ask", ~Accepted
    PROVE  kind \in OAuth \cup {"b2"} /\ ~call.again
<1> USE DEF Base, Shapes
<1>0. call.tok # 0 /\ call.tok \notin tokens.alive /\ deaths > 0 /\ world.good
  BY RefusedHasReason DEF Accepted, Steady
<1>1. job # "get" /\ deaths <= 1  BY <1>0 DEF Steady
<1> QED  BY <1>0, <1>1 DEF TokensFit, Renewing

(* An accepted request has no refusal for a reason. *)
LEMMA AcceptedIs ==
    ASSUME Accepted, NEW op, NEW n, NEW r, NEW broken
    PROVE  /\ Told(op, n, r, broken, Accepted) => Told(op, n, r, broken, TRUE)
           /\ Unlisted(r, Accepted) => Unlisted(r, TRUE)
<1>1. PICK fits : fits = Accepted  OBVIOUS
<1>2. Told(op, n, r, broken, fits) => Told(op, n, r, broken, TRUE)  BY <1>1, ToldMore
<1>3. Unlisted(r, fits) => Unlisted(r, TRUE)  BY <1>1 DEF Unlisted
<1> QED  BY <1>1, <1>2, <1>3

(* An answer a steady endpoint's call goes on with: an error has a reason   *)
(* that stands in the endpoint.                                            *)
LEMMA SteadyErrs ==
    ASSUME Legible, Base, Renewing, Steady, kind \in Http, job \notin {"connect", "test"}, call.at = "ask",
           NEW a, NEW broken, Meets(a, broken), NEW r, r = Handle(a), ~Renews(a, r), r.tag = "err",
           ~IsTransient(r.text), call.op \in {"get", "range", "exists", "size", "hash"} \cup Listings
    PROVE  call.op \notin Listings /\ Reason(call.op, call.arg)
<1> USE DEF Base, Shapes
<1>0. /\ call.op \in Ops(kind) /\ ~Continues(r) /\ (\A v : r # Ok(v)) /\ world.root /\ kind \notin Files
      /\ world \in Worlds
  BY OpsFit, KindsDiffer DEF Open, Continues, More, Ok, Steady
<1>1. CASE Accepted
  <2>1. CASE call.op \in ObjectOps
    <3>1. Told(call.op, call.arg, r, broken, TRUE)  BY <1>0, <1>1, <2>1, AnswerTells, AcceptedIs
    <3>2. PICK code \in Codes, body \in Bodies : Fails(r, code, body) /\ Why(call.op, call.arg, code, body, TRUE)
      BY <1>0, <3>1 DEF Told
    <3>3. code \notin Outages  BY <3>2, ClassOf
    <3> QED  BY <2>1, <3>2, <3>3 DEF Why, ObjectOps, Listings
  <2>2. CASE call.op \in Listings
    <3>1. Listed(r, broken, Accepted) \/ Unlisted(r, TRUE)  BY <1>0, <1>1, <2>2, AnswerTells, AcceptedIs
    <3>2. PICK code \in Codes : Fails(r, code, {}) /\ code \in Outages  BY <1>0, <3>1 DEF Listed, Unlisted
    <3> QED  BY <3>2, ClassOf DEF Bodies
  <2> QED  BY <2>1, <2>2 DEF ObjectOps
<1>2. CASE ~Accepted
  <2>1. kind \in OAuth \cup {"b2"} /\ ~call.again  BY <1>2, SteadyAccepts
  <2>2. IsAnswer(a) /\ a.body = {} /\ a.code \in {"401"} \cup Outages
    <3>1. CASE a = Refusal
      BY <2>1, <3>1, HttpRefuses, RefusalIs DEF OAuth
    <3>2. CASE a \in Faulty  BY <2>1, <3>2, HttpBreaks DEF OAuth
    <3> QED  BY <1>2, <3>1, <3>2 DEF Meets
  <2>3. Fails(r, a.code, {})  BY <1>0, <2>2, Unanswered
  <2>4. a.code \in Codes /\ {} \in Bodies  BY <2>2 DEF Codes, Bodies, Outages
  <2>5. a.code = "401"  BY <2>2, <2>3, <2>4, ClassOf
  <2>6. "401" \in r.text  BY <2>3, <2>5 DEF Fails, Tells
  <2>7. call.op # "build"  BY DEF Listings
  <2> QED  BY <2>1, <2>5, <2>6, <2>7 DEF Renews
<1> QED  BY <1>1, <1>2

(* A listing that ends has gone through both pages. *)
LEMMA ListingEnds ==
    ASSUME Base, Gathered, call.at = "ask", job \notin {"connect", "test"}, call.op \in Listings, ~Spoilt,
           NEW r, NEW broken, Listed(r, broken, Accepted),
           broken => kind \notin Files \cup {"webdav"}, ~(kind = "dropbox" /\ call.op = "listsizes")
    PROVE  r.val = Whole
<1> USE DEF Base, Shapes
<1>1. call.got = {n \in Names : PageOf(n) < call.page /\ Held(n)} /\ faults \in Nat  BY DEF Gathered
<1>2. kind \in Files => Accepted
  <2>1. kind \in Files => call.tok = 0 /\ world.good /\ faults = 0  BY <1>1 DEF Spoilt, TokensFit, Files, OAuth
  <2> QED  BY <2>1 DEF Accepted
<1>3. ~Excused(broken, Accepted)  BY <1>1, <1>2 DEF Excused, Spoilt
<1>4. root <=> world.root
  <2>1. kind \in {"local", "smb"} => faults = 0  BY <1>1 DEF Spoilt, Files
  <2> QED  BY <2>1 DEF RootFits
<1>5. CASE root /\ call.page = 2 /\ r.val = call.got \cup Page
  <2>1. Page = {n \in Names : PageOf(n) = 2 /\ Held(n)}  BY <1>4, <1>5 DEF Page, Present, Held
  <2>2. \A n \in Names : PageOf(n) = 2 \/ PageOf(n) < 2  BY DEF PageOf
  <2> QED  BY <1>1, <1>5, <2>1, <2>2 DEF Whole
<1>6. CASE ~root /\ r.val \in {{}, call.got}
  <2>1. \A n : ~Held(n)  BY <1>4, <1>6 DEF Held
  <2> QED  BY <1>1, <1>6, <2>1 DEF Whole
<1> QED  BY <1>3, <1>5, <1>6 DEF Listed

(* The result of an answer is one the job may rely on. *)
LEMMA AnswerGot ==
    ASSUME Legible, Base, Gathered, Renewing, job \notin {"connect", "test"}, call.at = "ask",
           NEW a, NEW broken, Meets(a, broken), NEW r, r = Handle(a), ~Renews(a, r), r.tag # "next",
           ~(r.tag = "err" /\ Retried /\ IsTransient(r.text))
    PROVE  /\ Got(call.op, call.arg, r)
           /\ (broken => kind \notin Files \cup {"webdav"}) => Full(call.op, r)
<1> USE DEF Base, Shapes
<1>0. call.op \in ObjectOps \cup Listings /\ call.op \in Ops(kind)  BY OpsFit DEF Open
<1>1. /\ Result(r)
      /\ call.op \in ObjectOps => Told(call.op, call.arg, r, broken, Accepted)
      /\ call.op \in Listings => Listed(r, broken, Accepted) \/ Unlisted(r, Accepted)
  <2>1. ~Continues(r)  BY DEF Continues, More
  <2> QED  BY <2>1, AnswerTells
<1>2. call.op \in ObjectOps => Told(call.op, call.arg, r, TRUE, FALSE)  BY <1>1, ToldMore
<1>3. r.tag = "err" /\ Steady /\ kind \in Http /\ call.op \in {"get", "range", "exists", "size", "hash"} \cup Listings =>
        call.op \notin Listings /\ Reason(call.op, call.arg)
  <2>1. call.op \in {"get", "range", "exists", "size", "hash"} \cup Listings => Retried  BY DEF Retried, Listings
  <2> QED  BY <2>1, SteadyErrs
<1>4. Got(call.op, call.arg, r)
  <2>1. call.op \in Listings /\ Steady /\ kind \in Http => r.tag = "ok"  BY <1>1, <1>3 DEF Result
  <2>2. call.op \in {"get", "range", "exists", "size", "hash"} /\ Steady /\ kind \in Http /\ r.tag = "err" =>
          Reason(call.op, call.arg)
    BY <1>3
  <2> QED  BY <1>1, <1>2, <2>1, <2>2 DEF Got
<1>5. ASSUME broken => kind \notin Files \cup {"webdav"} PROVE Full(call.op, r)
  <2> SUFFICES ASSUME call.op \in Listings, r.tag = "ok", ~Spoilt, ~(kind = "dropbox" /\ call.op = "listsizes")
               PROVE  r.val = Whole
    BY DEF Full
  <2>1. ~Unlisted(r, Accepted)  BY FailsResult DEF Unlisted
  <2> QED  BY <1>1, <1>5, <2>1, ListingEnds
<1> QED  BY <1>4, <1>5

-----------------------------------------------------------------------------
(* Every step either goes on with a call or hands its result to the job.   *)
Continuing ==
    /\ UNCHANGED <<world, book, outcome>> /\ call'.op = call.op /\ call'.arg = call.arg
    /\ call'.at = "idle" <=> call.at = "idle"

(* A result is handed to the job, which may rely on it. *)
Handing ==
    \E op, r : /\ op = call.op /\ call.at # "idle" /\ ~Done /\ UNCHANGED <<world, root, deaths>>
               /\ Proceed(r) /\ Got(op, call.arg, r) /\ Full(op, r)'

(* The retry either starts the call again or hands the result on. *)
LEMMA ReturnsIs ==
    ASSUME Base, call.at # "idle", job \notin {"connect", "test"}, NEW r, Returns(r), UNCHANGED world
    PROVE  \/ Continuing
           \/ Proceed(r) /\ ~(r.tag = "err" /\ Retried /\ IsTransient(r.text))
<1>1. CASE r.tag = "err" /\ Retried /\ IsTransient(r.text)
  <2>1. call' = [Fresh(call.op, call.arg) EXCEPT !.tries = 0] /\ UNCHANGED <<book, outcome>>
    BY <1>1 DEF Returns, Exhausted
  <2>2. call'.op = call.op /\ call'.arg = call.arg /\ call'.at \in {"token", "ask"}  BY <2>1 DEF Fresh
  <2> QED  BY <2>1, <2>2 DEF Continuing
<1>2. CASE ~(r.tag = "err" /\ Retried /\ IsTransient(r.text))  BY <1>2 DEF Returns
<1> QED  BY <1>1, <1>2

LEMMA RefreshFailsIs ==
    ASSUME Legible, Base, job \notin {"connect", "test"}, RefreshFails
    PROVE  Continuing \/ Handing
<1> USE DEF Base, Shapes
<1>0. call.at # "idle" /\ ~Done /\ UNCHANGED <<world, root, deaths>> /\ call.op \in ObjectOps \cup Listings
  BY OpsFit DEF RefreshFails, Open
<1>1. PICK s \in {"400", "401", "drop", "503"} : Returns(Err(StatusLine(s))) /\ (s \in {"400", "401"} => ~world.good)
  BY DEF RefreshFails
<1>2. PICK r : r = Err(StatusLine(s))  OBVIOUS
<1>3. Fails(r, s, {})
  <2>1. StatusLine(s) \cup {} = StatusLine(s)  OBVIOUS
  <2>2. {} \in Bodies /\ s \in Failures  BY DEF Bodies, Failures, Codes
  <2> QED  BY <1>2, <2>1, <2>2, LineTells
<1>4. Result(r) /\ r.tag = "err" /\ s \in Codes /\ {} \in Bodies  BY <1>3, FailsResult DEF Result, Bodies, Codes
<1>5. CASE Proceed(r) /\ ~(r.tag = "err" /\ Retried /\ IsTransient(r.text))
  <2>1. call.op \in ObjectOps => Told(call.op, call.arg, r, TRUE, FALSE)
    <3>1. Why(call.op, call.arg, s, {}, FALSE)  BY DEF Why
    <3>2. PICK fits : fits = FALSE  OBVIOUS
    <3> QED  BY <1>3, <1>4, <3>1, <3>2, ToldErr
  <2>2. call.op \in {"get", "range", "exists", "size", "hash"} \cup Listings => ~Steady
    <3>1. call.op \in {"get", "range", "exists", "size", "hash"} \cup Listings => Retried  BY DEF Retried, Listings
    <3>2. s \in Outages => IsTransient(r.text)  BY <1>3, <1>4, ClassOf
    <3> QED  BY <1>1, <1>4, <1>5, <3>1, <3>2 DEF Steady, Outages
  <2>3. Got(call.op, call.arg, r)  BY <1>4, <2>1, <2>2 DEF Got
  <2>4. \A op : Full(op, r)'  BY <1>4 DEF Full
  <2> QED  BY <1>0, <1>5, <2>3, <2>4 DEF Handing
<1> QED  BY <1>0, <1>1, <1>2, <1>5, ReturnsIs

LEMMA ExchangeIs ==
    ASSUME Legible, Base, Gathered, Renewing, job \notin {"connect", "test"}, Exchange \/ ExchangeFails
    PROVE  Continuing \/ Handing
<1> USE DEF Base, Shapes
<1>0. /\ call.at = "ask" /\ ~Done /\ UNCHANGED <<world, root, deaths>> /\ call \in Calls /\ kind' = kind /\ faults \in Nat
  BY DEF Exchange, ExchangeFails, kind
<1>1. PICK a, broken : Meets(a, broken) /\ Takes(a) /\ (broken => faults' = faults + 1)  BY ExchangeMeets
<1>2. PICK r : r = Handle(a)  OBVIOUS
<1>3. CASE Renews(a, r)
  <2>1. call' = [Fresh(call.op, call.arg) EXCEPT !.at = "renew", !.again = TRUE, !.tries = call.tries]
        /\ UNCHANGED <<book, outcome>>
    BY <1>1, <1>2, <1>3 DEF Takes
  <2>2. call'.op = call.op /\ call'.arg = call.arg /\ call'.at = "renew"  BY <2>1 DEF Fresh
  <2> QED  BY <1>0, <2>1, <2>2 DEF Continuing
<1>4. CASE ~Renews(a, r) /\ r.tag = "next"
  <2>1. PICK page : call' = [call EXCEPT !.stage = r.stage, !.got = r.val, !.page = page] /\ UNCHANGED <<book, outcome>>
    BY <1>1, <1>2, <1>4 DEF Takes
  <2>2. call'.op = call.op /\ call'.arg = call.arg /\ call'.at = "ask"  BY <1>0, <2>1 DEF Calls
  <2> QED  BY <1>0, <2>1, <2>2 DEF Continuing
<1>5. CASE ~Renews(a, r) /\ r.tag # "next"
  <2>1. Returns(r)  BY <1>1, <1>2, <1>5 DEF Takes
  <2>2. CASE Continuing  BY <2>2
  <2>3. CASE Proceed(r) /\ ~(r.tag = "err" /\ Retried /\ IsTransient(r.text))
    <3>1. /\ Got(call.op, call.arg, r)
          /\ (broken => kind \notin Files \cup {"webdav"}) => Full(call.op, r)
      BY <1>0, <1>1, <1>2, <1>5, <2>3, AnswerGot
    <3>2. PICK op : op = call.op  OBVIOUS
    <3>3. faults' \in Nat /\ faults <= faults'  BY <1>0 DEF Exchange, ExchangeFails
    <3>4. CASE broken /\ kind \in Files \cup {"webdav"}
      <4>1. Spoilt'  BY <1>0, <1>1, <3>4 DEF Spoilt
      <4> QED  BY <1>0, <2>3, <3>1, <3>2, <4>1 DEF Handing, Full
    <3>5. CASE broken => kind \notin Files \cup {"webdav"}
      <4>1. Full(op, r)'  BY <1>0, <3>1, <3>2, <3>3, <3>5, FullStays
      <4> QED  BY <1>0, <2>3, <3>1, <3>2, <4>1 DEF Handing
    <3> QED  BY <3>4, <3>5
  <2> QED  BY <1>0, <2>1, <2>2, <2>3, ReturnsIs
<1> QED  BY <1>3, <1>4, <1>5

(* Every step is one or the other. *)
LEMMA StepIs ==
    ASSUME Legible, Base, Gathered, Renewing, job \notin {"connect", "test"}, [Next]_vars
    PROVE  Continuing \/ Handing
<1> USE DEF Base, Shapes
<1>1. CASE Build  BY <1>1 DEF Build, Open, PlaceFits
<1>2. CASE GetToken \/ TokenIsStale \/ RefreshIssued \/ RefreshArrives
  BY <1>2 DEF GetToken, TokenIsStale, RefreshIssued, RefreshArrives, Continuing, Calls
<1>3. CASE RefreshFails  BY <1>3, RefreshFailsIs
<1>4. CASE Exchange \/ ExchangeFails  BY <1>4, ExchangeIs
<1>5. CASE TestTimesOut  BY <1>5 DEF TestTimesOut
<1>6. CASE TokenAges \/ TokensDie \/ OtherRefreshes \/ OtherArrives \/ Unmounts
  BY <1>6 DEF TokenAges, TokensDie, OtherRefreshes, OtherArrives, Unmounts, Continuing
<1>7. CASE UNCHANGED vars  BY <1>7 DEF vars, Continuing
<1>8. CASE Hangs  BY <1>8 DEF Hangs, Continuing, Calls
<1> QED  BY <1>1, <1>2, <1>3, <1>4, <1>5, <1>6, <1>7, <1>8 DEF Next, Layers, Finished

(* The endpoint a behaviour is about stays the same one. *)
LEMMA WorldStays ==
    ASSUME [Next]_vars
    PROVE  UNCHANGED world
<1>1. CASE Layers
  BY <1>1 DEF Layers, Build, GetToken, TokenIsStale, RefreshIssued, RefreshArrives, RefreshFails, Exchange, ExchangeFails,
     TestTimesOut
<1>2. CASE ~Layers
  BY <1>2 DEF Next, Hangs, TokenAges, TokensDie, OtherRefreshes, OtherArrives, Unmounts, Finished, vars
<1> QED  BY <1>1, <1>2

(* Failures, revocations and an unmounted root are never undone. *)
LEMMA OnlyWorse ==
    ASSUME Base, job \notin {"connect", "test"}, [Next]_vars
    PROVE  /\ UNCHANGED world /\ (root' => root)
           /\ faults \in Nat /\ faults' \in Nat /\ faults <= faults'
           /\ deaths \in Nat /\ deaths' \in Nat /\ deaths <= deaths'
<1> USE DEF Base, Shapes
<1>1. CASE Build  BY <1>1 DEF Build, Open, PlaceFits
<1>2. CASE GetToken \/ TokenIsStale \/ RefreshIssued \/ RefreshArrives \/ TestTimesOut
  <2>1. UNCHANGED <<world, root, faults, deaths>>
    BY <1>2 DEF GetToken, TokenIsStale, RefreshIssued, RefreshArrives, TestTimesOut
  <2> QED  BY <2>1
<1>4. CASE RefreshFails  BY <1>4 DEF RefreshFails
<1>5. CASE Exchange  BY <1>5 DEF Exchange
<1>6. CASE ExchangeFails  BY <1>6 DEF ExchangeFails
<1>3. CASE Hangs \/ TokenAges \/ TokensDie \/ OtherRefreshes \/ OtherArrives \/ Unmounts \/ Finished \/ UNCHANGED vars
  BY <1>3 DEF Hangs, TokenAges, TokensDie, OtherRefreshes, OtherArrives, Unmounts, Finished, vars
<1> QED  BY <1>1, <1>2, <1>3, <1>4, <1>5, <1>6 DEF Next, Layers

-----------------------------------------------------------------------------
(* Listings and renewals keep their invariants.                            *)

(* A call at its first request has gathered nothing and renewed nothing. *)
LEMMA GatheredStarts ==
    ASSUME Base, job \notin {"connect", "test"}, call.at # "idle", Landed, UNCHANGED world
    PROVE  Gathered' /\ (call'.again => call'.at = "idle")
<1>1. CASE Starts
  <2>1. call'.page = 1 /\ call'.got = {} /\ ~call'.again  BY <1>1 DEF Starts
  <2>2. \A n : ~(PageOf(n) < 1)  BY DEF PageOf
  <2> QED  BY <2>1, <2>2 DEF Gathered, PageOf
<1>2. CASE Ends  BY <1>2 DEF Ends, Idle, Fresh, Gathered
<1> QED  BY <1>1, <1>2 DEF Landed

(* A call that waits, and the world moving on below it. *)
LEMMA GatheredWaits ==
    ASSUME Base, Gathered, job \notin {"connect", "test"}, call.at # "idle", UNCHANGED world, faults' \in Nat, faults <= faults',
           call'.op = call.op, call'.stage = call.stage, call'.page = call.page, call'.got = call.got
    PROVE  Gathered'
<1>1. kind' = kind /\ job' = job /\ (\A n : Held(n)' <=> Held(n)) /\ faults \in Nat
  BY DEF kind, job, Held, State, Base, Shapes
<1>2. Spoilt => Spoilt'  BY <1>1 DEF Spoilt
<1>3. Request(call.op, call.stage)' = Request(call.op, call.stage)  BY <1>1 DEF Request
<1> QED  BY <1>1, <1>2, <1>3 DEF Gathered

(* A page adds what it lists. *)
LEMMA GatheredGoesOn ==
    ASSUME Base, Gathered, job \notin {"connect", "test"}, call.at = "ask", NEW r, Continues(r), UNCHANGED world,
           faults' \in Nat, faults <= faults',
           call' = [call EXCEPT !.stage = r.stage, !.got = r.val,
                      !.page = IF Request(call.op, call.stage) = "page" THEN @ + 1 ELSE @]
    PROVE  Gathered'
<1> USE DEF Base, Shapes
<1>1. kind' = kind /\ job' = job /\ (\A n : Held(n)' <=> Held(n)) /\ faults \in Nat
  BY DEF kind, job, Held, State
<1>2. Spoilt => Spoilt'  BY <1>1 DEF Spoilt
<1>3. PICK page : /\ call' = [call EXCEPT !.stage = r.stage, !.got = r.val, !.page = page]
                  /\ page = IF Request(call.op, call.stage) = "page" THEN call.page + 1 ELSE call.page
  OBVIOUS
<1>4. call'.op = call.op /\ call'.stage = r.stage /\ call'.got = r.val /\ call'.page = page /\ call.page \in 1 .. 2
  BY <1>3 DEF Calls
<1>5. \A n : PageOf(n) \in {1, 2}  BY DEF PageOf
<1>6. CASE Request(call.op, call.stage) # "page" /\ r.val = {}
  <2>1. page = 1  BY <1>3, <1>4, <1>6 DEF Gathered
  <2> QED  BY <1>4, <1>5, <1>6, <2>1 DEF Gathered
<1>7. CASE /\ call.op \in Listings /\ Request(call.op, call.stage) = "page" /\ call.page = 1 /\ root
           /\ r.val = call.got \cup Page /\ r.stage \in {1, call.stage}
  <2>1. page = 2  BY <1>3, <1>7
  <2>2. Request(call.op, r.stage)' = "page"  BY <1>1, <1>7 DEF Request, Listings
  <2>3. ~Spoilt => r.val = {n \in Names : PageOf(n) < 2 /\ Held(n)}
    <3>1. world.root /\ root  BY <1>7 DEF RootFits
    <3>2. Page = {n \in Names : PageOf(n) = 1 /\ Held(n)}  BY <1>7, <3>1 DEF Page, Present, Held
    <3>3. ~Spoilt => call.got = {n \in Names : PageOf(n) < 1 /\ Held(n)}  BY <1>7 DEF Gathered
    <3> QED  BY <1>5, <1>7, <3>2, <3>3
  <2> QED  BY <1>1, <1>2, <1>4, <2>1, <2>2, <2>3 DEF Gathered
<1> QED  BY <1>6, <1>7 DEF Continues

(* Every step keeps what a listing gathered. *)
LEMMA GatheredStep ==
    ASSUME Base, Gathered, [Next]_vars
    PROVE  Gathered'
<1>a. job \notin {"connect", "test"} => UNCHANGED world /\ faults' \in Nat /\ faults <= faults'  BY OnlyWorse
<1> USE DEF Base, Shapes
<1> SUFFICES ASSUME job \notin {"connect", "test"}, call'.at # "idle" PROVE Gathered'
  <2>1. UNCHANGED world  BY WorldStays
  <2> QED  BY <2>1 DEF Gathered, job
<1>0. UNCHANGED world /\ faults' \in Nat /\ faults <= faults'  BY <1>a
<1>1. CASE UNCHANGED vars
  BY <1>0, <1>1, GatheredWaits DEF vars
<1>2. CASE GetToken \/ TokenIsStale \/ RefreshIssued \/ RefreshArrives
  <2>1. /\ call'.op = call.op /\ call'.stage = call.stage /\ call'.page = call.page /\ call'.got = call.got
        /\ call.at # "idle"
    BY <1>2 DEF GetToken, TokenIsStale, RefreshIssued, RefreshArrives, Calls
  <2> QED  BY <1>0, <2>1, GatheredWaits
<1>3. CASE TokenAges \/ TokensDie \/ OtherRefreshes \/ OtherArrives \/ Unmounts
  <2>1. UNCHANGED call /\ call.at # "idle"
    BY <1>3 DEF TokenAges, TokensDie, OtherRefreshes, OtherArrives, Unmounts
  <2> QED  BY <1>0, <2>1, GatheredWaits
<1>4. CASE RefreshFails
  <2>1. PICK s \in {"400", "401", "drop", "503"} : Returns(Err(StatusLine(s)))  BY <1>4 DEF RefreshFails
  <2>2. Result(Err(StatusLine(s)))
    <3>1. StatusLine(s) \in SUBSET Texts  BY DEF StatusLine, Texts, Permanent, Transient
    <3> QED  BY <3>1, TextsAre DEF Result
  <2>3. call.at # "idle" /\ Reaches(Err(StatusLine(s)))  BY <1>4 DEF RefreshFails, Reaches
  <2>4. Landed  BY <2>1, <2>2, <2>3, ReturnsLands
  <2> QED  BY <1>0, <2>3, <2>4, GatheredStarts
<1>5. CASE Exchange \/ ExchangeFails
  <2>0. call.at = "ask"  BY <1>5 DEF Exchange, ExchangeFails
  <2>1. PICK a, broken : Meets(a, broken) /\ Takes(a)  BY <1>5, ExchangeMeets
  <2>2. PICK r : r = Handle(a)  OBVIOUS
  <2>3. CASE Renews(a, r)
    <3>1. call' = [Fresh(call.op, call.arg) EXCEPT !.at = "renew", !.again = TRUE, !.tries = call.tries]
      BY <2>1, <2>2, <2>3 DEF Takes
    <3>2. call'.page = 1 /\ call'.got = {}  BY <3>1 DEF Fresh
    <3>3. \A n : ~(PageOf(n) < 1)  BY DEF PageOf
    <3> QED  BY <3>2, <3>3 DEF Gathered, PageOf
  <2>4. CASE ~Renews(a, r) /\ r.tag = "next"
    <3>1. Continues(r)  BY <2>0, <2>1, <2>2, <2>4, AnswerTells DEF Result
    <3>2. call' = [call EXCEPT !.stage = r.stage, !.got = r.val,
                      !.page = IF Request(call.op, call.stage) = "page" THEN @ + 1 ELSE @]
      BY <2>1, <2>2, <2>4 DEF Takes
    <3> QED  BY <1>0, <2>0, <3>1, <3>2, GatheredGoesOn
  <2>5. CASE ~Renews(a, r) /\ r.tag # "next"
    <3>1. Returns(r)  BY <2>1, <2>2, <2>5 DEF Takes
    <3>2. ~Continues(r)  BY <2>5 DEF Continues, More
    <3>3. Result(r) /\ Reaches(r)  BY <2>0, <2>1, <2>2, <3>2, AnswerTells
    <3>4. Landed  BY <2>0, <3>1, <3>3, ReturnsLands
    <3> QED  BY <1>0, <2>0, <3>4, GatheredStarts
  <2> QED  BY <2>3, <2>4, <2>5
<1>6. ~Build /\ ~TestTimesOut  BY DEF Build, TestTimesOut, Open, PlaceFits
<1>7. CASE Hangs
  <2>1. /\ call'.op = call.op /\ call'.stage = call.stage /\ call'.page = call.page /\ call'.got = call.got
        /\ call.at # "idle"
    BY <1>7 DEF Hangs, Calls
  <2> QED  BY <1>0, <2>1, GatheredWaits
<1> QED  BY <1>1, <1>2, <1>3, <1>4, <1>5, <1>6, <1>7 DEF Next, Layers, Finished

(* Every step keeps what a renewal found: at most one revocation lies      *)
(* behind the call, so the token it gets is good.                          *)
LEMMA RenewingStep ==
    ASSUME Legible, Base, Gathered, Renewing, [Next]_vars
    PROVE  Renewing'
<1>a. job \notin {"connect", "test"} => UNCHANGED world /\ deaths \in Nat /\ deaths' \in Nat /\ deaths <= deaths'
  BY OnlyWorse
<1> USE DEF Base, Shapes
<1> SUFFICES ASSUME job \notin {"get", "connect", "test"}, call'.at # "idle", call'.again, world.good, deaths' <= 1, UNCHANGED world
             PROVE  Renewing'
  <2>1. UNCHANGED world  BY WorldStays
  <2> QED  BY <2>1 DEF Renewing, job
<1>0. job' = job /\ deaths \in Nat /\ deaths <= 1 /\ call \in Calls /\ tokens.issued \in Nat /\ other = 0 /\ job # "test"
  BY <1>a DEF job, TokensFit
<1>1. CASE UNCHANGED <<call, cached, tokens, deaths>>
  BY <1>0, <1>1 DEF Renewing
<1>2. CASE GetToken
  <2>1. call'.at = "ask" /\ call'.tok = cached.tok /\ call.again /\ call.at = "token" /\ UNCHANGED <<cached, tokens, deaths>>
    BY <1>0, <1>2 DEF GetToken, Calls
  <2> QED  BY <1>0, <2>1 DEF Renewing
<1>3. CASE TokenIsStale
  <2>1. call'.at = "refresh" /\ call.again /\ call.at = "token" /\ UNCHANGED <<cached, tokens, deaths>>
    BY <1>0, <1>3 DEF TokenIsStale, Calls
  <2> QED  BY <1>0, <2>1 DEF Renewing
<1>4. CASE RefreshIssued
  <2>1. /\ call'.at \in {"renewed", "arriving"} /\ call.again /\ call.at # "idle" /\ UNCHANGED <<cached, deaths>>
        /\ call'.tok = tokens.issued + 1 /\ tokens'.alive = tokens.alive \cup {tokens.issued + 1}
    BY <1>0, <1>4 DEF RefreshIssued, Calls
  <2> QED  BY <1>0, <2>1 DEF Renewing
<1>5. CASE RefreshArrives
  <2>1. /\ call.at \in {"renewed", "arriving"} /\ UNCHANGED <<tokens, deaths>> /\ cached'.tok = call.tok
        /\ call'.at \in {"token", "ask"} /\ call.again /\ (call'.at = "ask" => call'.tok = call.tok)
    BY <1>0, <1>5 DEF RefreshArrives, Calls
  <2> QED  BY <1>0, <2>1 DEF Renewing
<1>6. CASE RefreshFails
  <2>1. PICK s \in {"400", "401", "drop", "503"} : Returns(Err(StatusLine(s)))  BY <1>6 DEF RefreshFails
  <2>2. Result(Err(StatusLine(s)))
    <3>1. StatusLine(s) \in SUBSET Texts  BY DEF StatusLine, Texts, Permanent, Transient
    <3> QED  BY <3>1, TextsAre DEF Result
  <2>3. call.at # "idle" /\ Reaches(Err(StatusLine(s)))  BY <1>6 DEF RefreshFails, Reaches
  <2>4. Landed  BY <2>1, <2>2, <2>3, ReturnsLands
  <2> QED  BY <1>0, <2>3, <2>4, GatheredStarts
<1>7. CASE Exchange \/ ExchangeFails
  <2>0. call.at = "ask" /\ UNCHANGED <<deaths, cached, tokens>>
    <3>1. call.op # "build"  BY <1>0, <1>7 DEF Exchange, ExchangeFails, Open, PlaceFits
    <3> QED  BY <1>7, <3>1 DEF Exchange, ExchangeFails
  <2>1. PICK a, broken : Meets(a, broken) /\ Takes(a)  BY <1>7, ExchangeMeets
  <2>2. PICK r : r = Handle(a)  OBVIOUS
  <2>3. CASE Renews(a, r)
    <3>1. call' = [Fresh(call.op, call.arg) EXCEPT !.at = "renew", !.again = TRUE, !.tries = call.tries]
      BY <2>1, <2>2, <2>3 DEF Takes
    <3>2. call'.at = "renew"  BY <3>1 DEF Fresh
    <3>3. ~Accepted  BY <2>0, <2>1, <2>2, <2>3, RenewsMeans
    <3>4. deaths > 0  BY <2>0, <3>3, RefusedHasReason
    <3> QED  BY <1>0, <2>0, <3>2, <3>4 DEF Renewing
  <2>4. CASE ~Renews(a, r) /\ r.tag = "next"
    <3>1. PICK page : call' = [call EXCEPT !.stage = r.stage, !.got = r.val, !.page = page]
      BY <2>1, <2>2, <2>4 DEF Takes
    <3>2. call'.at = "ask" /\ call'.tok = call.tok /\ call.again  BY <1>0, <2>0, <3>1 DEF Calls
    <3> QED  BY <1>0, <2>0, <3>2 DEF Renewing
  <2>5. CASE ~Renews(a, r) /\ r.tag # "next"
    <3>1. Returns(r)  BY <2>1, <2>2, <2>5 DEF Takes
    <3>2. ~Continues(r)  BY <2>5 DEF Continues, More
    <3>3. Result(r) /\ Reaches(r)  BY <2>0, <2>1, <2>2, <3>2, AnswerTells
    <3>4. Landed  BY <2>0, <3>1, <3>3, ReturnsLands
    <3> QED  BY <1>0, <2>0, <3>4, GatheredStarts
  <2> QED  BY <2>3, <2>4, <2>5
<1>8. CASE TokenAges
  <2>1. UNCHANGED <<call, tokens, deaths>> /\ cached'.tok = cached.tok  BY <1>8 DEF TokenAges
  <2> QED  BY <1>0, <2>1 DEF Renewing
<1>9. CASE TokensDie
  <2>1. UNCHANGED call /\ deaths' = deaths + 1  BY <1>9 DEF TokensDie
  <2>2. deaths = 0 /\ call.again /\ call.at # "idle"  BY <1>0, <2>1
  <2> QED  BY <1>0, <2>2 DEF Renewing
<1>10. CASE Unmounts \/ Finished \/ UNCHANGED vars
  <2>1. UNCHANGED <<call, cached, tokens, deaths>>  BY <1>10 DEF Unmounts, Finished, vars
  <2> QED  BY <1>1, <2>1
<1>11. ~Build /\ ~TestTimesOut /\ ~OtherRefreshes /\ ~OtherArrives
  BY <1>0 DEF Build, TestTimesOut, OtherRefreshes, OtherArrives, Open, PlaceFits
<1>12. ~Hangs
  <2> SUFFICES ASSUME Hangs PROVE FALSE  OBVIOUS
  <2>1. call.again /\ call.at = "ask" /\ kind \in Untimed  BY <1>0 DEF Hangs, Calls
  <2>2. kind \in OAuth \cup {"b2"}  BY <2>1 DEF Open, PlaceFits
  <2> QED  BY <2>1, <2>2 DEF Untimed, Stores, OAuth
<1> QED  BY <1>2, <1>3, <1>4, <1>5, <1>6, <1>7, <1>8, <1>9, <1>10, <1>11, <1>12 DEF Next, Layers

-----------------------------------------------------------------------------
(* Where a job is when its result is in: at its end, on the way, or handed *)
(* the result of a call.                                                   *)
LEMMA JobMoves ==
    ASSUME Legible, Base, Gathered, Renewing, job \notin {"connect", "test"}, [Next]_vars
    PROVE  \/ Done /\ UNCHANGED vars
           \/ ~Done /\ ~Done' /\ Continuing /\ call.at # "idle"
           \/ Handing
<1>1. CASE UNCHANGED vars /\ ~Done
  BY <1>1 DEF vars, Continuing, Done, Base
<1>2. CASE Next /\ ~Done
  BY <1>2, StepIs DEF Continuing, Done, Base
<1> QED  BY <1>1, <1>2, DoneStays

(* A single operation or listing.                                          *)
LEMMA SingleStep ==
    ASSUME Legible, Base, Gathered, Renewing, Single, [Next]_vars
    PROVE  Single'
<1> SUFFICES ASSUME job \in ObjectOps \cup Listings, Done' PROVE Single'
  <2>1. job' = job  BY WorldStays DEF job
  <2> QED  BY <2>1 DEF Single
<1>0. job \notin {"connect", "test"}  BY DEF ObjectOps, Listings
<1>1. CASE Done /\ UNCHANGED vars
  <2>1. UNCHANGED <<world, root, outcome, faults, deaths>>  BY <1>1 DEF vars
  <2>2. PICK op : op = job  OBVIOUS
  <2>3. deaths \in Nat /\ faults \in Nat  BY DEF Base, Shapes
  <2>4. Got(op, "x", outcome) /\ Full(op, outcome)  BY <1>1, <2>2 DEF Single
  <2>5. PICK r : r = outcome  OBVIOUS
  <2>6. Got(op, "x", r)' /\ Full(op, r)'  BY <2>1, <2>3, <2>4, <2>5, GotStays, FullStays
  <2> QED  BY <2>1, <2>2, <2>5, <2>6 DEF Single, job
<1>2. CASE Handing
  <2>1. PICK op, r : /\ op = call.op /\ call.at # "idle" /\ ~Done /\ UNCHANGED <<world, root, deaths>>
                     /\ Proceed(r) /\ Got(op, call.arg, r) /\ Full(op, r)'
    BY <1>2 DEF Handing
  <2>2. outcome' = r  BY <2>1 DEF Proceed, ObjectOps, Listings, Finish
  <2>3. op = job /\ call.arg = "x"
    <3>1. job \in Ops(kind) /\ JobFits
      BY <2>1, WorldIs DEF Base, Shapes, Open, Jobs, ObjectOps, Listings
    <3> QED  BY <2>1, <3>1 DEF JobFits, Belongs
  <2>4. deaths \in Nat  BY DEF Base, Shapes
  <2>5. Got(op, "x", r)'  BY <2>1, <2>3, <2>4, GotStays
  <2>6. job' = op  BY <2>1, <2>3 DEF job
  <2> QED  BY <2>1, <2>2, <2>5, <2>6 DEF Single
<1> QED  BY <1>0, <1>1, <1>2, JobMoves

LEMMA JobStays ==
    ASSUME [Next]_vars
    PROVE  job' = job /\ kind' = kind
BY WorldStays DEF job, kind

(* What a read tells a job of the object. *)
LEMMA ReadMeans ==
    ASSUME NEW n, NEW r, Got("get", n, r)
    PROVE  /\ r.tag = "ok" => r.val = {State(n)} /\ Held(n)
           /\ ("good" \in r.val) => r.tag = "ok" /\ r.val = {"good"} /\ State(n) = "good"
           /\ Steady /\ kind \in Http /\ r.tag = "err" => ~Held(n) \/ State(n) = "cold"
<1>1. Result(r) /\ Told("get", n, r, TRUE, FALSE)  BY DEF Got, ObjectOps
<1>2. PICK op, broken, fits : op = "get" /\ broken = TRUE /\ fits = FALSE  OBVIOUS
<1>3. Told(op, n, r, broken, fits)  BY <1>1, <1>2
<1>4. r.tag = "ok" => r.val = {State(n)} /\ Held(n)
  <2>1. CASE r = Ok(r.val) /\ Gives(op, n, r.val, broken, fits)  BY <1>2, <2>1 DEF Gives
  <2>2. ASSUME NEW code, NEW body, Fails(r, code, body) PROVE r.tag # "ok"  BY <2>2, FailsResult
  <2> QED  BY <1>3, <2>1, <2>2 DEF Told
<1>5. r.tag = "err" => r.val = {}
  <2>1. r.tag = "err" => r # Ok(r.val)  BY DEF Ok
  <2>2. \A code, body : Fails(r, code, body) => r.val = {}  BY DEF Fails, Err
  <2> QED  BY <1>3, <2>1, <2>2 DEF Told
<1>6. Steady /\ kind \in Http /\ r.tag = "err" => ~Held(n) \/ State(n) = "cold"  BY DEF Got, Reason
<1> QED  BY <1>1, <1>4, <1>5, <1>6 DEF Result

(* On a steady endpoint a read finds out whether an object decodes. *)
LEMMA SteadyReads ==
    ASSUME NEW n, NEW r, Got("get", n, r), Steady, kind \in Http
    PROVE  ~NeedsBak(r) <=> State(n) = "good"
<1>1. State(n) = "good" => Held(n) /\ State(n) # "cold"  BY DEF Held, Steady
<1>2. Result(r)  BY DEF Got
<1> QED  BY <1>1, <1>2, ReadMeans DEF NeedsBak, Result

(* "Missing" is told of an object that is not there, or was unmounted. *)
LEMMA MissingMeans ==
    ASSUME Legible, NEW op \in {"get", "range"}, NEW n, NEW r, Got(op, n, r),
           ClassifyError(r.text) = "storage_missing_object", r.tag = "err", ~Unmounted
    PROVE  ~Held(n)
<1>0. op \in ObjectOps /\ r # Ok(r.val)  BY DEF ObjectOps, Ok
<1>1. Told(op, n, r, TRUE, FALSE)  BY <1>0 DEF Got
<1>2. PICK broken, fits : broken = TRUE /\ fits = FALSE  OBVIOUS
<1>3. Told(op, n, r, broken, fits)  BY <1>1, <1>2
<1>4. PICK code \in Codes, body \in Bodies : Fails(r, code, body) /\ Why(op, n, code, body, fits)
  BY <1>0, <1>3 DEF Told
<1> QED  BY <1>4, ClassOf DEF Why

-----------------------------------------------------------------------------
(* The critical read.                                                      *)

(* What it may come to. *)
CriticalEnd(o) ==
    ~Unmounted =>
      /\ o.tag = "ok" => o.val = {"good"}
      /\ kind \in Http /\ Steady /\ (State("x") = "good" \/ State("x.bak") = "good") => o.tag = "ok"

(* Both copies were read, and neither decodes. *)
LEMMA CriticalPrimary ==
    ASSUME Got("get", "x", book.held), NeedsBak(book.held), NEW r, Got("get", "x.bak", r), NeedsBak(r)
    PROVE  CriticalEnd(CriticalError(book.held, r))
<1>1. Result(r) /\ Result(book.held)  BY DEF Got
<1>2. kind \in Http /\ Steady => State("x") # "good" /\ State("x.bak") # "good"  BY SteadyReads
<1>3. CriticalError(book.held, r).tag = "err"  BY <1>1 DEF CriticalError, Result, Err
<1> QED  BY <1>2, <1>3 DEF CriticalEnd

(* Every step keeps what the critical read holds and comes to. *)
LEMMA CriticalStep ==
    ASSUME Legible, Base, Gathered, Renewing, MirrorFits, CriticalReads, [Next]_vars
    PROVE  MirrorFits' /\ CriticalReads'
<1>a. job' = job /\ kind' = kind /\ UNCHANGED world  BY JobStays, WorldStays
<1> SUFFICES ASSUME job = "critical" PROVE MirrorFits' /\ CriticalReads'
  BY <1>a DEF MirrorFits, CriticalReads
<1>b. deaths \in Nat /\ deaths' \in Nat /\ deaths <= deaths' /\ (root' => root)  BY OnlyWorse
<1>1. CASE Done /\ UNCHANGED vars
  BY <1>1 DEF vars, MirrorFits, CriticalReads, Done, Unmounted, Failed, Steady, Held, State, Got, Told, Gives, Why, Reason, kind, job
<1>2. CASE ~Done /\ ~Done' /\ Continuing /\ call.at # "idle"
  <2>1. CriticalReads'  BY <1>2 DEF CriticalReads
  <2>2. UNCHANGED book /\ call'.arg = call.arg  BY <1>2 DEF Continuing
  <2>3. call.arg = "x.bak" => Got("get", "x", book.held) /\ NeedsBak(book.held)  BY <1>2 DEF MirrorFits
  <2>4. PICK r : r = book.held  OBVIOUS
  <2>5. call.arg = "x.bak" => Got("get", "x", r)'  BY <1>a, <1>b, <2>3, <2>4, GotStays
  <2> QED  BY <2>1, <2>2, <2>3, <2>4, <2>5 DEF MirrorFits, NeedsBak
<1>3. CASE Handing
  <2>1. PICK op, r : /\ op = call.op /\ call.at # "idle" /\ ~Done /\ UNCHANGED <<world, root, deaths>>
                     /\ Proceed(r) /\ Got(op, call.arg, r) /\ Full(op, r)'
    BY <1>3 DEF Handing
  <2>2. op = "get" /\ call.arg \in {"x", "x.bak"}  BY <2>1 DEF Base, Open, JobFits, Belongs
  <2>3. CASE WantsMirror(r)
    <3>1. call' = Fresh("get", "x.bak") /\ book'.held = r /\ UNCHANGED outcome /\ call.arg = "x" /\ NeedsBak(r)
      BY <2>1, <2>2, <2>3 DEF Proceed, ReadMirror, WantsMirror, Bak, Base, Shapes, Books
    <3>2. Got("get", "x", r)'  BY <1>a, <1>b, <2>1, <2>2, <3>1, GotStays
    <3> QED  BY <2>1, <3>1, <3>2 DEF MirrorFits, CriticalReads, NeedsBak, Done
  <2>4. CASE ~WantsMirror(r)
    <3>1. outcome' = Critical(r) /\ call' = Idle /\ UNCHANGED book  BY <2>1, <2>4 DEF Proceed, Finish
    <3>2. MirrorFits'  BY <3>1 DEF MirrorFits, Idle, Fresh
    <3>3. CriticalEnd(Critical(r))
      <4>1. CASE call.arg = "x.bak" /\ NeedsBak(r)
        <5>1. Critical(r) = CriticalError(book.held, r)  BY <4>1 DEF Critical
        <5> QED  BY <2>1, <2>2, <4>1, <5>1, CriticalPrimary DEF MirrorFits
      <4>2. CASE ~NeedsBak(r)
        <5>1. Critical(r) = r  BY <4>2 DEF Critical
        <5>2. r.tag = "ok" /\ r.val = {"good"}  BY <2>1, <2>2, <4>2, ReadMeans DEF NeedsBak
        <5> QED  BY <5>1, <5>2 DEF CriticalEnd
      <4> QED  BY <2>2, <2>4, <4>1, <4>2 DEF WantsMirror
    <3>4. PICK o : o = Critical(r)  OBVIOUS
    <3>5. CriticalEnd(o)'
      BY <2>1, <3>1, <3>3, <3>4 DEF CriticalEnd, Unmounted, Steady, State, Held, kind, job
    <3> QED  BY <3>1, <3>2, <3>4, <3>5 DEF CriticalEnd, CriticalReads
  <2> QED  BY <2>3, <2>4
<1> QED  BY <1>1, <1>2, <1>3, JobMoves

-----------------------------------------------------------------------------
(* The list of snapshots.                                                  *)

(* What the list of snapshots may come to. *)
SetsEnd(took, lost, o) ==
    /\ kind \in Http /\ Steady => o.tag = "ok" \/ lost # {}
    /\ kind \in Http \ {"webdav"} /\ Steady =>
         took = Opens /\ lost = Sets \ Opens /\ (o.tag = "ok" => o.val # {} \/ Sets = {})

Discovered == Done /\ job = "discover" => SetsEnd(book.took, book.lost, outcome)

(* The books as they should be with these sets still to do. *)
Accounted(b) ==
    kind \in Http \ {"webdav"} /\ Steady =>
      b.todo \subseteq Sets /\ b.took = Opens \ b.todo /\ b.lost = (Sets \ Opens) \ b.todo

(* From books that are right the job goes on to the next set or ends       *)
(* right.                                                                  *)
LEMMA DiscoverGoesOn ==
    ASSUME Base, job = "discover", UNCHANGED <<world, root, deaths>>, NEW b \in Books, Accounted(b), DiscoverNext(b),
           ~Done
    PROVE  DiscoverFits' /\ Discovered'
<1>0. book' = b /\ job' = job /\ kind' = kind /\ Sets' = Sets /\ Opens' = Opens /\ Steady' = Steady
  BY DEF DiscoverNext, job, kind, Sets, Opens, Held, State, Steady
<1>1. CASE b.todo = {}
  <2>1. outcome' = DiscoverReply(b.took, b.lost) /\ call' = Idle  BY <1>1 DEF DiscoverNext, Finish
  <2>2. DiscoverFits'  BY <2>1 DEF DiscoverFits, Idle, Fresh
  <2>3. SetsEnd(b.took, b.lost, DiscoverReply(b.took, b.lost))
    <3>1. CASE b.took = {} /\ b.lost # {}
      <4>1. DiscoverReply(b.took, b.lost).tag = "err"  BY <3>1 DEF DiscoverReply, Err
      <4> QED  BY <1>1, <3>1, <4>1 DEF SetsEnd, Accounted
    <3>2. CASE ~(b.took = {} /\ b.lost # {})
      <4>1. DiscoverReply(b.took, b.lost).tag = "ok" /\ DiscoverReply(b.took, b.lost).val = b.took
        BY <3>2 DEF DiscoverReply, Ok
      <4>2. Opens \subseteq Sets  BY DEF Opens
      <4> QED  BY <1>1, <3>2, <4>1, <4>2 DEF SetsEnd, Accounted
    <3> QED  BY <3>1, <3>2
  <2>4. PICK o : o = DiscoverReply(b.took, b.lost)  OBVIOUS
  <2>5. SetsEnd(b.took, b.lost, o)'  BY <1>0, <2>3, <2>4 DEF SetsEnd
  <2> QED  BY <1>0, <2>1, <2>2, <2>4, <2>5 DEF Discovered
<1>2. CASE b.todo # {}
  <2>1. PICK n \in b.todo : call' = Fresh("get", n) /\ UNCHANGED outcome  BY <1>2 DEF DiscoverNext
  <2>2. n \in {"x", "y"}  BY DEF Books
  <2>3. call'.op = "get" /\ call'.arg = n  BY <2>1 DEF Fresh
  <2>4. Name' = n /\ n # Bak(n)  BY <2>2, <2>3 DEF Name, Bak
  <2>5. DiscoverFits'  BY <1>0, <2>1, <2>3, <2>4 DEF DiscoverFits, Accounted
  <2> QED  BY <2>1, <2>5 DEF Discovered, Done
<1> QED  BY <1>1, <1>2

(* The listing has found every set. *)
LEMMA DiscoverLists ==
    ASSUME Base, job = "discover", call.op = "list", DiscoverFits, call.at # "idle", ~Done, UNCHANGED <<world, root, deaths>>,
           NEW r, Proceed(r), Got("list", call.arg, r), Full("list", r)'
    PROVE  DiscoverFits' /\ Discovered'
<1> USE DEF Base, Shapes
<1>0. kind' = kind /\ Whole' = Whole  BY DEF kind, Whole, Held, State
<1>1. Result(r) /\ (kind \in Http /\ Steady => r.tag = "ok")  BY DEF Got, Listings
<1>2. CASE r.tag = "err"
  <2>1. outcome' = r /\ call' = Idle  BY <1>2 DEF Proceed, Discover, Finish
  <2>2. ~(kind \in Http /\ Steady)'  BY <1>0, <1>1, <1>2 DEF Steady, job
  <2> QED  BY <2>1, <2>2 DEF DiscoverFits, Discovered, SetsEnd, Idle, Fresh
<1>3. CASE r.tag = "ok"
  <2>1. PICK b : b = [book EXCEPT !.todo = {n \in {"x", "y"} : n \in r.val \/ Bak(n) \in r.val}]  OBVIOUS
  <2>2. DiscoverNext(b)  BY <1>3, <2>1 DEF Proceed, Discover
  <2>3. b \in Books /\ b.took = book.took /\ b.lost = book.lost
        /\ b.todo = {n \in {"x", "y"} : n \in r.val \/ Bak(n) \in r.val}
    BY <2>1 DEF Books
  <2>4. ASSUME kind \in Http \ {"webdav"}, Steady
        PROVE  b.todo = Sets /\ b.took = {} /\ b.lost = {}
    <3>1. ~Spoilt'  BY <1>0, <2>4, KindsDiffer DEF Spoilt
    <3>2. r.val = Whole  BY <1>0, <1>3, <3>1 DEF Full, Listings
    <3>3. \A n : n \in Whole <=> Held(n)  BY DEF Whole, Held, State
    <3> QED  BY <2>3, <2>4, <3>2, <3>3 DEF DiscoverFits, Sets
  <2>5. Accounted(b)  BY <2>4 DEF Accounted, Opens
  <2> QED  BY <2>2, <2>3, <2>5, DiscoverGoesOn
<1> QED  BY <1>1, <1>2, <1>3 DEF Result

(* A set is opened, looked up in its mirror, or counted as lost. *)
LEMMA DiscoverReads ==
    ASSUME Base, job = "discover", call.op = "get", DiscoverFits, call.at # "idle", ~Done, UNCHANGED <<world, root, deaths>>,
           NEW r, Proceed(r), Got("get", call.arg, r)
    PROVE  DiscoverFits' /\ Discovered'
<1> USE DEF Base, Shapes
<1>0. kind' = kind /\ job' = job /\ Sets' = Sets /\ Opens' = Opens /\ Steady' = Steady
      /\ (\A n : State(n)' = State(n))
  BY DEF kind, job, Sets, Opens, Held, State, Steady
<1>1. Result(r) /\ call.arg \in {"x", "x.bak", "y", "y.bak"}  BY DEF Got, Open, JobFits, Belongs
<1>2. Name \in {"x", "y"} /\ call.arg \in {Name, Bak(Name)} /\ (call.arg \in {"x", "y"} <=> call.arg = Name)
  BY <1>1 DEF Name, Bak
<1>3. CASE WantsMirror(r)
  <2>1. call.arg = Name /\ NeedsBak(r)  BY <1>2, <1>3 DEF WantsMirror
  <2>2. call' = Fresh("get", Bak(Name)) /\ book' = [book EXCEPT !.held = r] /\ UNCHANGED outcome
    BY <1>3, <2>1 DEF Proceed, Discover, ReadMirror
  <2>3. call'.op = "get" /\ call'.arg = Bak(Name)  BY <2>2 DEF Fresh
  <2>4. Name' = Name  BY <1>2, <2>3 DEF Name, Bak
  <2>5. book'.todo = book.todo /\ book'.took = book.took /\ book'.lost = book.lost  BY <2>2 DEF Books
  <2>6. kind \in Http /\ Steady => State(Name) # "good"  BY <2>1, SteadyReads
  <2>7. DiscoverFits'  BY <1>0, <2>3, <2>4, <2>5, <2>6 DEF DiscoverFits
  <2> QED  BY <2>2, <2>7 DEF Discovered, Done
<1>4. CASE ~WantsMirror(r)
  <2>1. PICK b : b = [book EXCEPT
           !.todo = @ \ {Name}, !.held = Pending,
           !.took = IF Critical(r).tag = "ok" THEN @ \cup {Name} ELSE @,
           !.lost = IF Critical(r).tag = "err" THEN @ \cup {Name} ELSE @]
    OBVIOUS
  <2>2. DiscoverNext(b)  BY <1>4, <2>1 DEF Proceed, Discover
  <2>3. /\ b.todo = book.todo \ {Name} /\ b \in Books
        /\ b.took = IF Critical(r).tag = "ok" THEN book.took \cup {Name} ELSE book.took
        /\ b.lost = IF Critical(r).tag = "err" THEN book.lost \cup {Name} ELSE book.lost
    BY <1>2, <2>1, TextsAre DEF Books
  <2>4. NeedsBak(r) => call.arg = Bak(Name)  BY <1>2, <1>4 DEF WantsMirror
  <2>5. Critical(r).tag = IF NeedsBak(r) THEN "err" ELSE "ok"
    <3>1. CASE ~NeedsBak(r)  BY <3>1, ReadMeans DEF Critical, NeedsBak
    <3>2. CASE NeedsBak(r)
      <4>1. call.arg \notin {"x", "y"}  BY <1>2, <2>4, <3>2 DEF Bak
      <4>2. Critical(r) = CriticalError(book.held, r)  BY <3>2, <4>1 DEF Critical
      <4>3. CriticalError(book.held, r).tag = "err"
        BY <1>1, NotStorageResult DEF CriticalError, Result
      <4> QED  BY <3>2, <4>2, <4>3
    <3> QED  BY <3>1, <3>2
  <2>6. ASSUME kind \in Http \ {"webdav"}, Steady
        PROVE  /\ b.todo \subseteq Sets /\ b.took = Opens \ b.todo /\ b.lost = (Sets \ Opens) \ b.todo
    <3>1. /\ book.todo \subseteq Sets /\ Name \in book.todo
          /\ book.took = Opens \ book.todo /\ book.lost = (Sets \ Opens) \ book.todo
          /\ (call.arg = Bak(Name) => State(Name) # "good")
      BY <2>6 DEF DiscoverFits
    <3>2. Name \in Opens <=> ~NeedsBak(r)
      <4>1. ~NeedsBak(r) <=> State(call.arg) = "good"  BY <2>6, SteadyReads
      <4>2. Name \in Opens <=> (State(Name) = "good" \/ State(Bak(Name)) = "good")  BY <3>1 DEF Opens
      <4> QED  BY <1>2, <2>4, <3>1, <4>1, <4>2
    <3> QED  BY <2>3, <2>5, <3>1, <3>2
  <2>7. Accounted(b)  BY <2>6 DEF Accounted
  <2> QED  BY <2>2, <2>3, <2>7, DiscoverGoesOn
<1> QED  BY <1>3, <1>4

(* Every step keeps the books of the sets. *)
LEMMA DiscoverStep ==
    ASSUME Legible, Base, Gathered, Renewing, DiscoverFits, Discovered, [Next]_vars
    PROVE  DiscoverFits' /\ Discovered'
<1>a. job' = job /\ kind' = kind /\ UNCHANGED world  BY JobStays, WorldStays
<1> SUFFICES ASSUME job = "discover" PROVE DiscoverFits' /\ Discovered'
  BY <1>a DEF DiscoverFits, Discovered
<1>b. deaths \in Nat /\ deaths' \in Nat /\ deaths <= deaths'  BY OnlyWorse
<1>c. Sets' = Sets /\ Opens' = Opens /\ (\A n : State(n)' = State(n)) /\ (Steady' => Steady)
  BY <1>a, <1>b DEF Sets, Opens, Held, State, Steady
<1>1. CASE Done /\ UNCHANGED vars
  <2>1. UNCHANGED <<call, book, outcome>>  BY <1>1 DEF vars
  <2>2. Done' /\ DiscoverFits'  BY <1>1, <2>1 DEF DiscoverFits, Done, Base
  <2> QED  BY <1>1, <1>a, <1>c, <2>1, <2>2 DEF Discovered, SetsEnd
<1>2. CASE ~Done /\ ~Done' /\ Continuing /\ call.at # "idle"
  <2>1. UNCHANGED book /\ call'.arg = call.arg /\ call'.op = call.op /\ Discovered'  BY <1>2 DEF Continuing, Discovered
  <2>2. Name' = Name  BY <2>1 DEF Name
  <2> QED  BY <1>2, <1>a, <1>c, <2>1, <2>2 DEF DiscoverFits
<1>3. CASE Handing
  <2>1. PICK op, r : /\ op = call.op /\ call.at # "idle" /\ ~Done /\ UNCHANGED <<world, root, deaths>>
                     /\ Proceed(r) /\ Got(op, call.arg, r) /\ Full(op, r)'
    BY <1>3 DEF Handing
  <2>2. op \in {"list", "get"}  BY <2>1 DEF Base, Open, JobFits, Belongs
  <2> QED  BY <2>1, <2>2, DiscoverLists, DiscoverReads
<1> QED  BY <1>1, <1>2, <1>3, JobMoves

-----------------------------------------------------------------------------
(* The map of the packs.                                                   *)

(* What the pack map may come to. *)
PackMapEnd(o) ==
    /\ kind \in Http /\ Steady => o.tag = "ok"
    /\ kind \in Http \ {"webdav"} /\ Steady /\ world.ranges /\ "size" \in world.meta => o = Ok(Packs)

Mapped == Done /\ job = "packmap" => PackMapEnd(outcome)

(* The books as they should be with these packs still to do. *)
Charted(b) ==
    kind \in Http \ {"webdav"} /\ Steady /\ world.ranges /\ "size" \in world.meta =>
      (\A n \in b.todo : Held(n)) /\ b.took = Packs \ b.todo

(* From books that are right the job goes on to the next pack or ends      *)
(* right.                                                                  *)
LEMMA PackMapGoesOn ==
    ASSUME Base, job = "packmap", UNCHANGED <<world, root, deaths>>, NEW b \in Books, Charted(b), PackMapNext(b), ~Done
    PROVE  PackMapFits' /\ Mapped'
<1>0. /\ book' = b /\ job' = job /\ kind' = kind /\ Packs' = Packs /\ Steady' = Steady
      /\ (\A n : Held(n)' <=> Held(n))
  BY DEF PackMapNext, job, kind, Packs, Held, State, Steady
<1>1. CASE b.todo = {}
  <2>1. outcome' = Ok(b.took) /\ call' = Idle  BY <1>1 DEF PackMapNext, Finish
  <2>2. PackMapFits'  BY <2>1 DEF PackMapFits, Idle, Fresh
  <2>3. PackMapEnd(Ok(b.took))
    <3>1. Ok(b.took).tag = "ok"  BY DEF Ok
    <3> QED  BY <1>1, <3>1 DEF PackMapEnd, Charted
  <2>4. PICK o : o = Ok(b.took)  OBVIOUS
  <2>5. PackMapEnd(o)'  BY <1>0, <2>3, <2>4 DEF PackMapEnd
  <2> QED  BY <1>0, <2>1, <2>2, <2>4, <2>5 DEF Mapped
<1>2. CASE b.todo # {}
  <2>1. PICK n \in b.todo : call' = Fresh("size", n) /\ UNCHANGED outcome  BY <1>2 DEF PackMapNext
  <2>2. call'.op = "size" /\ call'.arg = n  BY <2>1 DEF Fresh
  <2>3. PackMapFits'  BY <1>0, <2>1, <2>2 DEF PackMapFits, Charted
  <2> QED  BY <2>1, <2>3 DEF Mapped, Done
<1> QED  BY <1>1, <1>2

(* The listing has found every pack. *)
LEMMA PackMapLists ==
    ASSUME Base, job = "packmap", call.op = "list", PackMapFits, call.at # "idle", ~Done, UNCHANGED <<world, root, deaths>>,
           NEW r, Proceed(r), Got("list", call.arg, r), Full("list", r)'
    PROVE  PackMapFits' /\ Mapped'
<1> USE DEF Base, Shapes
<1>0. kind' = kind /\ Whole' = Whole  BY DEF kind, Whole, Held, State
<1>1. Result(r) /\ (kind \in Http /\ Steady => r.tag = "ok")  BY DEF Got, Listings
<1>2. CASE r.tag = "err"
  <2>1. outcome' = r /\ call' = Idle  BY <1>2 DEF Proceed, PackMap, Finish
  <2>2. ~(kind \in Http /\ Steady)'  BY <1>0, <1>1, <1>2 DEF Steady, job
  <2> QED  BY <2>1, <2>2 DEF PackMapFits, Mapped, PackMapEnd, Idle, Fresh
<1>3. CASE r.tag = "ok"
  <2>1. PICK b : b = [book EXCEPT !.todo = r.val \cap {"x", "y"}]  OBVIOUS
  <2>2. PackMapNext(b)  BY <1>3, <2>1 DEF Proceed, PackMap
  <2>3. b \in Books /\ b.took = book.took /\ b.todo = r.val \cap {"x", "y"}
    BY <2>1 DEF Books
  <2>4. ASSUME kind \in Http \ {"webdav"}, Steady, world.ranges, "size" \in world.meta
        PROVE  (\A n \in b.todo : Held(n)) /\ b.took = Packs \ b.todo
    <3>1. ~Spoilt'  BY <1>0, <2>4, KindsDiffer DEF Spoilt
    <3>2. r.val = Whole  BY <1>0, <1>3, <3>1 DEF Full, Listings
    <3>3. \A n \in {"x", "y"} : n \in Whole <=> Held(n)  BY DEF Whole, Names
    <3>4. \A n \in Packs : Held(n)  BY <2>4 DEF Packs, Held, Steady
    <3>5. Packs \subseteq b.todo  BY <2>3, <3>2, <3>3, <3>4 DEF Packs
    <3>6. b.took = {}  BY <2>3, <2>4 DEF PackMapFits
    <3> QED  BY <2>3, <3>2, <3>3, <3>5, <3>6
  <2>5. Charted(b)  BY <2>4 DEF Charted
  <2> QED  BY <2>2, <2>3, <2>5, PackMapGoesOn
<1> QED  BY <1>1, <1>2, <1>3 DEF Result

(* What a read of a range tells of the object. *)
LEMMA RangeMeans ==
    ASSUME NEW n, NEW r, Got("range", n, r)
    PROVE  /\ r.tag = "ok" => Held(n) /\ (r.val = {State(n)} \/ (r.val = {State(n), "whole"} /\ ~world.ranges))
           /\ r.tag = "err" => r.val = {}
           /\ r.val \subseteq Values
           /\ Steady /\ kind \in Http /\ world.ranges /\ r.tag = "err" => ~Held(n) \/ State(n) = "cold"
<1>1. Result(r) /\ Told("range", n, r, TRUE, FALSE)  BY DEF Got, ObjectOps
<1>2. PICK op, broken, fits : op = "range" /\ broken = TRUE /\ fits = FALSE  OBVIOUS
<1>3. Told(op, n, r, broken, fits)  BY <1>1, <1>2
<1>4. r.tag = "ok" => Held(n) /\ (r.val = {State(n)} \/ (r.val = {State(n), "whole"} /\ ~world.ranges))
  <2>1. CASE r = Ok(r.val) /\ Gives(op, n, r.val, broken, fits)  BY <1>2, <2>1 DEF Gives
  <2>2. ASSUME NEW code, NEW body, Fails(r, code, body) PROVE r.tag # "ok"  BY <2>2, FailsResult
  <2> QED  BY <1>3, <2>1, <2>2 DEF Told
<1>5. r.tag = "err" => r.val = {}
  <2>1. r.tag = "err" => r # Ok(r.val)  BY DEF Ok
  <2>2. \A code, body : Fails(r, code, body) => r.val = {}  BY DEF Fails, Err
  <2> QED  BY <1>3, <2>1, <2>2 DEF Told
<1>6. Steady /\ kind \in Http /\ world.ranges /\ r.tag = "err" => ~Held(n) \/ State(n) = "cold"  BY DEF Got, Reason
<1>7. r.val \subseteq Values  BY <1>1, TextsAre DEF Result
<1> QED  BY <1>4, <1>5, <1>6, <1>7

(* A pack's size, its footer and its index are read, or it is skipped. *)
LEMMA PackMapReads ==
    ASSUME Base, job = "packmap", call.op \in {"size", "range"}, PackMapFits, call.at # "idle", ~Done,
           UNCHANGED <<world, root, deaths>>, NEW r, Proceed(r), Got(call.op, call.arg, r)
    PROVE  PackMapFits' /\ Mapped'
<1> USE DEF Base, Shapes
<1>0. kind' = kind /\ job' = job /\ Packs' = Packs /\ Steady' = Steady /\ (\A n : Held(n)' <=> Held(n))
  BY DEF kind, job, Packs, Held, State, Steady
<1>1. Result(r) /\ call.arg \in {"x", "y"} /\ PackMap(r)  BY DEF Got, Open, JobFits, Belongs, Proceed
<1> DEFINE sound == kind \in Http \ {"webdav"} /\ Steady /\ world.ranges /\ "size" \in world.meta
<1>2. sound => /\ call.arg \in book.todo /\ (\A n \in book.todo : Held(n)) /\ book.took = Packs \ book.todo
  BY DEF PackMapFits
<1>a. call.arg \in Packs <=> State(call.arg) = "good"  BY <1>1 DEF Packs
<1>3. sound => (r.tag = "err" \/ (call.op = "range" /\ r.val # {"good"}) => call.arg \notin Packs)
  <2>1. CASE call.op = "size"
    <3>1. sound /\ r.tag = "err" => ~Held(call.arg)
      <4>1. PICK op : op = "size" /\ Got(op, call.arg, r)  BY <2>1
      <4>2. sound /\ r.tag = "err" => Reason(op, call.arg)  BY <4>1 DEF Got
      <4> QED  BY <4>1, <4>2 DEF Reason
    <3> QED  BY <1>2, <2>1, <3>1
  <2>2. CASE call.op = "range"
    <3>1. Got("range", call.arg, r)  BY <2>2
    <3> QED  BY <1>1, <1>2, <1>a, <3>1, RangeMeans DEF Result
  <2> QED  BY <2>1, <2>2
<1>4. sound /\ r.val = {"good"} /\ call.op = "range" => call.arg \in Packs
  <2>1. call.op = "range" => Got("range", call.arg, r)  OBVIOUS
  <2> QED  BY <1>1, <1>a, <2>1, RangeMeans DEF Result
<1>5. PICK rest : rest = [book EXCEPT !.todo = @ \ {call.arg}, !.part = 0]  OBVIOUS
<1>6. rest \in Books /\ rest.todo = book.todo \ {call.arg} /\ rest.took = book.took
  <2>1. PICK todo, part : todo = book.todo \ {call.arg} /\ part = 0  OBVIOUS
  <2>2. todo \in SUBSET {"x", "y"} /\ part \in 0 .. 1  BY <2>1 DEF Books
  <2>3. rest = [book EXCEPT !.todo = todo, !.part = part]  BY <1>5, <2>1
  <2> QED  BY <2>1, <2>2, <2>3 DEF Books
<1>7. CASE r.tag = "err" \/ (call.op = "range" /\ r.val # {"good"})
  <2>1. PackMapNext(rest)  BY <1>1, <1>5, <1>7 DEF PackMap
  <2>2. Charted(rest)  BY <1>2, <1>3, <1>6, <1>7 DEF Charted
  <2> QED  BY <1>6, <2>1, <2>2, PackMapGoesOn
<1>8. CASE ~(r.tag = "err" \/ (call.op = "range" /\ r.val # {"good"})) /\ call.op = "range" /\ book.part = 1
  <2>1. PICK b : b = [rest EXCEPT !.took = @ \cup {call.arg}]  OBVIOUS
  <2>2. PackMapNext(b)  BY <1>1, <1>5, <1>8, <2>1 DEF PackMap
  <2>3. b \in Books /\ b.todo = rest.todo /\ b.took = rest.took \cup {call.arg}  BY <1>1, <1>6, <2>1 DEF Books
  <2>4. Charted(b)  BY <1>2, <1>4, <1>6, <1>8, <2>3 DEF Charted
  <2> QED  BY <2>2, <2>3, <2>4, PackMapGoesOn
<1>9. CASE ~(r.tag = "err" \/ (call.op = "range" /\ r.val # {"good"})) /\ ~(call.op = "range" /\ book.part = 1)
  <2>1. /\ call' = Fresh("range", call.arg) /\ UNCHANGED outcome
        /\ book' = [book EXCEPT !.part = IF call.op = "range" THEN 1 ELSE 0]
    BY <1>1, <1>9 DEF PackMap
  <2>2. call'.op = "range" /\ call'.arg = call.arg  BY <2>1 DEF Fresh
  <2>3. book'.todo = book.todo /\ book'.took = book.took  BY <2>1 DEF Books
  <2> QED  BY <1>0, <1>2, <2>1, <2>2, <2>3 DEF PackMapFits, Mapped, Done
<1> QED  BY <1>7, <1>8, <1>9

(* Every step keeps the books of the packs. *)
LEMMA PackMapStep ==
    ASSUME Legible, Base, Gathered, Renewing, PackMapFits, Mapped, [Next]_vars
    PROVE  PackMapFits' /\ Mapped'
<1>a. job' = job /\ kind' = kind /\ UNCHANGED world  BY JobStays, WorldStays
<1> SUFFICES ASSUME job = "packmap" PROVE PackMapFits' /\ Mapped'
  BY <1>a DEF PackMapFits, Mapped
<1>b. deaths \in Nat /\ deaths' \in Nat /\ deaths <= deaths'  BY OnlyWorse
<1>c. Packs' = Packs /\ (\A n : Held(n)' <=> Held(n)) /\ (Steady' => Steady)
  BY <1>a, <1>b DEF Packs, Held, State, Steady
<1>1. CASE Done /\ UNCHANGED vars
  <2>1. UNCHANGED <<call, book, outcome>>  BY <1>1 DEF vars
  <2>2. Done' /\ PackMapFits'  BY <1>1, <2>1 DEF PackMapFits, Done, Base
  <2> QED  BY <1>1, <1>a, <1>c, <2>1, <2>2 DEF Mapped, PackMapEnd
<1>2. CASE ~Done /\ ~Done' /\ Continuing /\ call.at # "idle"
  BY <1>2, <1>a, <1>c DEF PackMapFits, Continuing, Mapped
<1>3. CASE Handing
  <2>1. PICK op, r : /\ op = call.op /\ call.at # "idle" /\ ~Done /\ UNCHANGED <<world, root, deaths>>
                     /\ Proceed(r) /\ Got(op, call.arg, r) /\ Full(op, r)'
    BY <1>3 DEF Handing
  <2>2. op \in {"list", "size", "range"}  BY <2>1 DEF Base, Open, JobFits, Belongs
  <2> QED  BY <2>1, <2>2, PackMapLists, PackMapReads
<1> QED  BY <1>1, <1>2, <1>3, JobMoves

-----------------------------------------------------------------------------
(* The chunk.                                                              *)

(* What a chunk may come to. *)
ChunkEnd(o) ==
    /\ o.tag = "ok" => o.val = {"good"} /\ Held("x") /\ State("x") \in {"good", "bent"}
    /\ Steady /\ kind \in Http /\ world.ranges
         /\ (State("x") = "good" \/ (State("x") = "bent" /\ State("x.par") = "good")) => o.tag = "ok"
    /\ o.tag = "err" /\ ClassifyError(o.text) = "storage_missing_object" /\ ~Unmounted => ~Held("x")
    /\ Steady /\ kind \in Http /\ world.ranges /\ State("x") \in {"bent", "bad"} /\ o.tag = "err" =>
         ClassifyError(o.text) = "internal"

(* A job that ends right has kept its books. *)
LEMMA ChunkEnds ==
    ASSUME job = "chunk", NEW o, Finish(o), ChunkEnd(o), UNCHANGED <<world, root, deaths>>
    PROVE  ChunkFits' /\ ChunksAreRepaired'
<1>1. outcome' = o /\ call' = Idle  BY DEF Finish
<1>2. ChunkFits'  BY <1>1 DEF ChunkFits, Idle, Fresh
<1>3. ChunkEnd(o)'  BY DEF ChunkEnd, Steady, State, Held, Unmounted, kind, job
<1> QED  BY <1>1, <1>2, <1>3 DEF ChunkEnd, ChunksAreRepaired, Failed

(* The range of the chunk was read. *)
LEMMA ChunkRanges ==
    ASSUME Legible, Base, job = "chunk", call.op = "range", call.at # "idle", ~Done, UNCHANGED <<world, root, deaths>>,
           NEW r, Proceed(r), Got("range", "x", r)
    PROVE  ChunkFits' /\ ChunksAreRepaired'
<1> USE DEF Base, Shapes
<1>0. Result(r) /\ Chunk(r)  BY DEF Got, Proceed
<1>1. CASE r.tag = "err" \/ r.val = {"good"}
  <2>1. Finish(r)  BY <1>0, <1>1 DEF Chunk
  <2>2. r.tag = "ok" => r.val = {"good"} /\ Held("x") /\ State("x") = "good"  BY <1>1, RangeMeans
  <2>3. Steady /\ kind \in Http /\ world.ranges /\ State("x") \in {"good", "bent", "bad"} => r.tag = "ok"
    BY <1>0, RangeMeans DEF Result, Held, Steady
  <2>4. r.tag = "err" /\ ClassifyError(r.text) = "storage_missing_object" /\ ~Unmounted => ~Held("x")
    BY MissingMeans
  <2>5. ChunkEnd(r)  BY <2>2, <2>3, <2>4 DEF ChunkEnd
  <2> QED  BY <2>1, <2>5, ChunkEnds
<1>2. CASE ~(r.tag = "err" \/ r.val = {"good"})
  <2>1. call' = Fresh("get", "x.par") /\ UNCHANGED outcome  BY <1>0, <1>2 DEF Chunk
  <2>2. call'.arg = "x.par"  BY <2>1 DEF Fresh
  <2>3. Steady /\ kind \in Http /\ world.ranges => State("x") \in {"bent", "bad"}
    <3>1. SUFFICES ASSUME world.ranges PROVE State("x") \in {"bent", "bad"}  OBVIOUS
    <3>2. r.val = {State("x")} /\ Held("x") /\ State("x") # "good" /\ State("x") \in Values
      BY <1>0, <1>2, <3>1, RangeMeans DEF Result
    <3>3. State("x") \in {"good", "bent", "bad", "absent", "cold"}  BY WorldIs DEF State, Names
    <3> QED  BY <3>2, <3>3 DEF Held, Values, Names
  <2>4. ChunkFits'  BY <2>2, <2>3 DEF ChunkFits, Steady, State, kind, job
  <2> QED  BY <2>1, <2>4 DEF ChunksAreRepaired, Done
<1> QED  BY <1>1, <1>2

(* The parity was read, or the pack it repairs. *)
LEMMA ChunkReads ==
    ASSUME Legible, Base, job = "chunk", call.op = "get", ChunkFits, call.at # "idle", ~Done, UNCHANGED <<world, root, deaths>>,
           deaths \in Nat, NEW r, Proceed(r), Got("get", call.arg, r)
    PROVE  ChunkFits' /\ ChunksAreRepaired'
<1> USE DEF Base, Shapes
<1>0. Result(r) /\ Chunk(r) /\ call.arg \in {"x", "x.par"}  BY DEF Got, Proceed, Open, JobFits, Belongs
<1>1. Steady /\ kind \in Http /\ world.ranges => State("x") \in {"bent", "bad"}  BY DEF ChunkFits
<1>2. ASSUME Finish(Err({NotStorage})), ~(Steady /\ kind \in Http /\ world.ranges /\ State("x") = "bent" /\ State("x.par") = "good")
      PROVE  ChunkFits' /\ ChunksAreRepaired'
  <2>1. Err({NotStorage}).tag = "err" /\ ClassifyError(Err({NotStorage}).text) = "internal"  BY DEF Err, ClassifyError
  <2>2. ChunkEnd(Err({NotStorage}))  BY <1>1, <1>2, <2>1 DEF ChunkEnd
  <2> QED  BY <1>2, <2>2, ChunkEnds
<1>a. Steady /\ kind \in Http /\ State(call.arg) \in {"good", "bent"} => r.tag = "ok"
  BY <1>0, ReadMeans DEF Result, Held, Steady
<1>3. CASE r.tag = "err"
  <2>1. Finish(Err({NotStorage}))  BY <1>0, <1>3 DEF Chunk, ChunkError
  <2>2. ~(Steady /\ kind \in Http /\ world.ranges /\ State("x") = "bent" /\ State("x.par") = "good")
    BY <1>0, <1>3, <1>a
  <2> QED  BY <1>2, <2>1, <2>2
<1>4. CASE r.tag = "ok" /\ call.arg = "x.par"
  <2>1. call' = Fresh("get", "x") /\ book' = [book EXCEPT !.held = r] /\ UNCHANGED outcome  BY <1>0, <1>4 DEF Chunk
  <2>2. call'.arg = "x" /\ book'.held = r  BY <2>1 DEF Fresh, Books
  <2>3. Got("get", "x.par", r)'  BY <1>4, GotStays
  <2>4. ChunkFits'  BY <1>1, <1>4, <2>2, <2>3 DEF ChunkFits, Steady, State, kind, job
  <2> QED  BY <2>1, <2>4 DEF ChunksAreRepaired, Done
<1>5. CASE r.tag = "ok" /\ call.arg # "x.par"
  <2>1. call.arg = "x" /\ r.val = {State("x")} /\ Held("x")  BY <1>0, <1>5, ReadMeans
  <2>2. book.held.val = {State("x.par")} /\ Held("x.par")  BY <2>1, ReadMeans DEF ChunkFits
  <2>3. CASE Repairs(r, book.held)
    <3>1. Finish(Ok({"good"}))  BY <1>0, <1>5, <2>3 DEF Chunk
    <3>2. Ok({"good"}).tag = "ok" /\ Ok({"good"}).val = {"good"}  BY DEF Ok
    <3>3. State("x") \in {"good", "bent"}  BY <2>1, <2>3 DEF Repairs
    <3>4. ChunkEnd(Ok({"good"}))  BY <2>1, <3>2, <3>3 DEF ChunkEnd
    <3> QED  BY <3>1, <3>4, ChunkEnds
  <2>4. CASE ~Repairs(r, book.held)
    <3>1. Finish(Err({NotStorage}))  BY <1>0, <1>5, <2>4 DEF Chunk, ChunkError
    <3>2. ~(State("x") = "bent" /\ State("x.par") = "good")  BY <2>1, <2>2, <2>4 DEF Repairs
    <3> QED  BY <1>2, <3>1, <3>2
  <2> QED  BY <2>3, <2>4
<1> QED  BY <1>0, <1>3, <1>4, <1>5 DEF Result

(* Every step keeps what the repair holds and comes to. *)
LEMMA ChunkStep ==
    ASSUME Legible, Base, Gathered, Renewing, ChunkFits, ChunksAreRepaired, [Next]_vars
    PROVE  ChunkFits' /\ ChunksAreRepaired'
<1>a. job' = job /\ kind' = kind /\ UNCHANGED world  BY JobStays, WorldStays
<1> SUFFICES ASSUME job = "chunk" PROVE ChunkFits' /\ ChunksAreRepaired'
  BY <1>a DEF ChunkFits, ChunksAreRepaired
<1>b. deaths \in Nat /\ deaths' \in Nat /\ deaths <= deaths' /\ (root' => root)  BY OnlyWorse
<1>1. CASE Done /\ UNCHANGED vars
  <2>1. UNCHANGED <<call, outcome, root, deaths>>  BY <1>1 DEF vars
  <2>2. Done' /\ ChunkFits'  BY <1>1, <2>1 DEF ChunkFits, Done, Base
  <2> QED  BY <1>1, <1>a, <2>1, <2>2 DEF ChunksAreRepaired, Failed, Steady, State, Held, Unmounted
<1>2. CASE ~Done /\ ~Done' /\ Continuing /\ call.at # "idle"
  <2>1. UNCHANGED book /\ call'.arg = call.arg /\ call'.op = call.op /\ ChunksAreRepaired'
    BY <1>2 DEF Continuing, ChunksAreRepaired
  <2>2. PICK r : r = book.held  OBVIOUS
  <2>3. Got("get", "x.par", r) => Got("get", "x.par", r)'  BY <1>a, <1>b, GotStays
  <2>4. Steady' => Steady  BY <1>a, <1>b DEF Steady
  <2> QED  BY <1>2, <1>a, <2>1, <2>2, <2>3, <2>4 DEF ChunkFits, State
<1>3. CASE Handing
  <2>1. PICK op, r : /\ op = call.op /\ call.at # "idle" /\ ~Done /\ UNCHANGED <<world, root, deaths>>
                     /\ Proceed(r) /\ Got(op, call.arg, r) /\ Full(op, r)'
    BY <1>3 DEF Handing
  <2>2. (op = "range" /\ call.arg = "x") \/ op = "get"  BY <2>1 DEF Base, Open, JobFits, Belongs
  <2> QED  BY <1>b, <2>1, <2>2, ChunkRanges, ChunkReads
<1> QED  BY <1>1, <1>2, <1>3, JobMoves

-----------------------------------------------------------------------------
(* Together: what the calls keep, and what the jobs keep.                  *)
CallsFit == Base /\ Gathered /\ Renewing

(* The books of every job, and what each comes to. *)
JobsFit ==
    /\ Single
    /\ MirrorFits /\ CriticalReads
    /\ DiscoverFits /\ Discovered
    /\ PackMapFits /\ Mapped
    /\ ChunkFits /\ ChunksAreRepaired

(* All of it holds initially, and every step keeps it. *)
LEMMA InitCalls ==
    ASSUME Init
    PROVE  Gathered /\ Renewing
<1>1. PICK op : call.op = op /\ call.page = 1 /\ call.got = {} /\ ~call.again
  <2>1. PICK op, arg : call = Fresh(op, arg) \/ call = [Fresh(op, arg) EXCEPT !.at = "build"]  BY DEF Init, FirstCall
  <2> QED  BY <2>1 DEF Fresh
<1>2. \A n : ~(PageOf(n) < 1)  BY DEF PageOf
<1> QED  BY <1>1, <1>2 DEF Gathered, Renewing

LEMMA InitJobs ==
    ASSUME Init
    PROVE  JobsFit
<1>1. ~Done  BY DEF Init, Done, Pending
<1>2. job = "critical" => call.arg = "x"  BY DEF Init, FirstCall, Fresh
<1>3. job \in {"discover", "packmap"} => call.op = "list"  BY DEF Init, FirstCall, Fresh
<1>4. job = "chunk" => call.op = "range"  BY DEF Init, FirstCall, Fresh
<1>5. book.took = {} /\ book.lost = {}  BY DEF Init
<1> QED  BY <1>1, <1>2, <1>3, <1>4, <1>5
         DEF JobsFit, Single, MirrorFits, CriticalReads, DiscoverFits, Discovered, PackMapFits, Mapped, ChunkFits,
             ChunksAreRepaired

LEMMA NextJobs ==
    ASSUME Legible, CallsFit, JobsFit, [Next]_vars
    PROVE  CallsFit' /\ JobsFit'
<1>1. Base' /\ Gathered' /\ Renewing'  BY NextBase, GatheredStep, RenewingStep DEF CallsFit
<1>2. Single'  BY SingleStep DEF CallsFit, JobsFit
<1>3. MirrorFits' /\ CriticalReads'  BY CriticalStep DEF CallsFit, JobsFit
<1>4. DiscoverFits' /\ Discovered'  BY DiscoverStep DEF CallsFit, JobsFit
<1>5. PackMapFits' /\ Mapped'  BY PackMapStep DEF CallsFit, JobsFit
<1>6. ChunkFits' /\ ChunksAreRepaired'  BY ChunkStep DEF CallsFit, JobsFit
<1> QED  BY <1>1, <1>2, <1>3, <1>4, <1>5, <1>6 DEF CallsFit, JobsFit

(* However many pages a listing took, tokens it renewed and requests it    *)
(* lost on the way, what the calls and the jobs know of the endpoint is so *)
(* (the names being legible, as for the errors).                           *)
THEOREM JobsKeepTheirBooks ==
    ASSUME Legible
    PROVE  Spec => [](CallsFit /\ JobsFit)
<1>1. Init => CallsFit /\ JobsFit  BY InitBase, InitCalls, InitJobs DEF CallsFit
<1>2. CallsFit /\ JobsFit /\ [Next]_vars => CallsFit' /\ JobsFit'  BY NextJobs
<1> QED  BY <1>1, <1>2, PTL DEF Spec

(* A listing that succeeds names every object the endpoint holds, on       *)
(* whichever page or in whichever folder, whatever failed on the way.      *)
THEOREM ListingsAreWhole ==
    ASSUME Legible
    PROVE  Spec => []ListsAreWhole
<1>1. JobsFit => ListsAreWhole
  BY DEF JobsFit, Single, Full, Spoilt, Listings, Whole, ListsAreWhole
<1> QED  BY <1>1, JobsKeepTheirBooks, PTL

(* On a steady endpoint behind HTTP no outage, no lost answer and no token *)
(* that expired or was revoked once shows in what a retried operation, a   *)
(* list of snapshots or a pack map comes to.                               *)
THEOREM OutagesDoNotShow ==
    ASSUME Legible
    PROVE  Spec => []OutagesAreRiddenOut
<1>1. JobsFit => OutagesAreRiddenOut
  <2> SUFFICES ASSUME JobsFit, Done, kind \in Http, Steady PROVE OutagesAreRiddenOut
    BY DEF OutagesAreRiddenOut
  <2>1. job \in {"get", "range", "exists", "size", "hash"} /\ outcome.tag = "err" => StandingReason
    <3>1. SUFFICES ASSUME job \in {"get", "range", "exists", "size", "hash"}, outcome.tag = "err" PROVE StandingReason
      OBVIOUS
    <3>2. Got(job, "x", outcome)  BY <3>1 DEF JobsFit, Single, ObjectOps
    <3>3. PICK op, r : op = job /\ r = outcome  OBVIOUS
    <3>4. Got(op, "x", r)  BY <3>2, <3>3
    <3>5. Reason(op, "x")  BY <3>1, <3>3, <3>4 DEF Got
    <3> QED  BY <3>1, <3>3, <3>5 DEF Reason, StandingReason
  <2>2. job \in Listings => outcome.tag = "ok"
    <3>1. PICK op, r : op = job /\ r = outcome  OBVIOUS
    <3>2. job \in Listings => Got(op, "x", r)  BY <3>1 DEF JobsFit, Single
    <3> QED  BY <3>1, <3>2 DEF Got
  <2>3. job = "discover" => outcome.tag = "ok" \/ book.lost # {}  BY DEF JobsFit, Discovered, SetsEnd
  <2>4. job = "packmap" => outcome.tag = "ok"  BY DEF JobsFit, Mapped, PackMapEnd
  <2> QED  BY <2>1, <2>2, <2>3, <2>4 DEF OutagesAreRiddenOut, Listings
<1> QED  BY <1>1, JobsKeepTheirBooks, PTL

(* Where the primary or its mirror decodes, get_critical_decoded finds it  *)
(* through any outages, and it returns nothing else.                       *)
THEOREM CriticalReadsFindTheCopy ==
    ASSUME Legible
    PROVE  Spec => []CriticalReads
<1>1. JobsFit => CriticalReads  BY DEF JobsFit
<1> QED  BY <1>1, JobsKeepTheirBooks, PTL

(* A list of snapshots leaves no backup set out in silence.                *)
THEOREM SetsAreOpenedOrCounted ==
    ASSUME Legible
    PROVE  Spec => []SetsAreAccounted
<1>1. JobsFit => SetsAreAccounted
  BY DEF JobsFit, Discovered, SetsEnd, Sets, Opens, SetsAreAccounted
<1> QED  BY <1>1, JobsKeepTheirBooks, PTL

(* The pack map has every pack that can be read, and no other.             *)
THEOREM PackMapsAreWhole ==
    ASSUME Legible
    PROVE  Spec => []PackMapIsWhole
<1>1. JobsFit => PackMapIsWhole  BY DEF JobsFit, Mapped, PackMapEnd, Packs, PackMapIsWhole
<1> QED  BY <1>1, JobsKeepTheirBooks, PTL

(* A chunk is what it decrypts to, a damaged pack is repaired, and of what *)
(* is lost the damage is reported.                                         *)
THEOREM DamagedChunksAreRepaired ==
    ASSUME Legible
    PROVE  Spec => []ChunksAreRepaired
<1>1. JobsFit => ChunksAreRepaired  BY DEF JobsFit
<1> QED  BY <1>1, JobsKeepTheirBooks, PTL
=============================================================================
