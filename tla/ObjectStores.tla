----------------------------- MODULE ObjectStores -----------------------------
(***************************************************************************)
(* The object-store backends of crates/bkp-storage/src/backends: S3 and    *)
(* its S3-compatible wrapper, Azure Blob, Google Cloud Storage (all three  *)
(* over the object_store crate) and Backblaze B2 (its own REST client).    *)
(*                                                                         *)
(* One operator per operation of StorageBackend: what it makes of the      *)
(* answer a to the request it is at.  An answer has a code (an HTTP status,*)
(* or "drop" / "cut" when the connection failed before or during the body),*)
(* what its body and headers hold (has), the phrases of an error body      *)
(* (body) and whether another page follows (more).  An operation that      *)
(* needs several answers keeps what it gathered in c.got.                  *)
(***************************************************************************)
EXTENDS StorageErrors

(* Every page of an object_store stream: one bad page fails the call. *)
Gather(a, c) == IF a.more THEN More(1, c.got \cup a.has) ELSE Ok(c.got \cup a.has)

-----------------------------------------------------------------------------
(* The credentials in an S3 endpoint: "ends", a key and its secret; "env", *)
(* none but the environment has some; "half", one of the two; "none".      *)
S3New(creds) == IF creds \in {"none", "half"} THEN Err({}) ELSE Ok({})

S3Get(a) == IF a.code = "200" THEN Ok(a.has) ELSE Err(Text(a))

S3GetRange(a) == IF a.code = "206" THEN Ok(a.has) ELSE Err(Text(a))

S3Exists(a) ==
    CASE a.code = "200" -> Ok({"there"})
      [] a.code = "404" -> Ok({})
      [] OTHER -> Err(Text(a))

S3List(a, c) == IF a.code = "200" THEN Gather(a, c) ELSE Err(PlainText(a))

S3ListWithSizes(a, c) == IF a.code = "200" THEN Gather(a, c) ELSE Err(PlainText(a))

S3Size(a) == IF a.code = "200" THEN Ok({"size"}) ELSE Err(Text(a))

S3HeadWithHash(a) ==
    IF a.code # "200" THEN Err(Text(a))
    ELSE IF "hash" \in a.has THEN Ok({"size", "hash"}) ELSE Err(IdCodes)

(* A one-byte range tells: a cold object refuses to be read. *)
S3ProbePackAccessible(a) ==
    LET r == S3GetRange(a) IN
    CASE r.tag = "ok" -> Ok({"there"})
      [] "invalidobjectstate" \in r.text -> Ok({})
      [] OTHER -> r

(* RestoreObject is signed by hand and needs the static credentials; with  *)
(* none the call is skipped and succeeds.                                  *)
S3InitiateRestore(a, creds) ==
    IF creds # "ends" \/ a.code \in {"200", "202"} THEN Ok({}) ELSE Err(Text(a))

S3(op, a, c) ==
    CASE op = "get"        -> S3Get(a)
      [] op = "range"      -> S3GetRange(a)
      [] op \in {"exists", "probe"} -> S3Exists(a)
      [] op = "list"       -> S3List(a, c)
      [] op = "listsizes"  -> S3ListWithSizes(a, c)
      [] op = "size"       -> S3Size(a)
      [] op = "hash"       -> S3HeadWithHash(a)
      [] op = "accessible" -> S3ProbePackAccessible(a)
      [] op = "initiate"   -> S3InitiateRestore(a, "ends")

(* S3CompatBackend: the same behind an endpoint of the user's. *)
S3CompatNew(creds) == S3New(creds)
S3Compat(op, a, c) == S3(op, a, c)

-----------------------------------------------------------------------------
(* The account, from its field or a connection string that must hold name  *)
(* and key ("half" does not parse); the environment is not asked, and an   *)
(* account without a key is taken.                                         *)
AzureNew(creds) == IF creds \in {"ends", "keyless"} THEN Ok({}) ELSE Err({NotStorage})

AzureGet(a) ==
    CASE a.code = "200" -> Ok(a.has)
      [] a.code = "404" -> Err(NotFound \cup {"404"})
      [] OTHER -> Err(Text(a))

AzureGetRange(a) == IF a.code = "206" THEN Ok(a.has) ELSE Err(Text(a))

AzureExists(a) ==
    CASE a.code = "200" -> Ok({"there"})
      [] a.code = "404" -> Ok({})
      [] OTHER -> Err(Text(a))

AzureList(a, c) == IF a.code = "200" THEN Gather(a, c) ELSE Err(PlainText(a))

AzureListWithSizes(a, c) == IF a.code = "200" THEN Gather(a, c) ELSE Err(PlainText(a))

AzureSize(a) == IF a.code = "200" THEN Ok({"size"}) ELSE Err(Text(a))

AzureHeadWithHash(a) ==
    IF a.code # "200" THEN Err(Text(a))
    ELSE IF "hash" \in a.has THEN Ok({"size", "hash"}) ELSE Err(IdCodes)

(* Whatever goes wrong, the blob counts as accessible. *)
AzureProbeArchived(a) == a.code = "200" /\ "cold" \in a.has

AzureProbePackAccessible(a) == Ok(IF AzureProbeArchived(a) THEN {} ELSE {"there"})

AzureSetTier(a) == IF a.code \in {"200", "202"} THEN Ok({}) ELSE Err(Text(a))

Azure(op, a, c) ==
    CASE op = "get"        -> AzureGet(a)
      [] op = "range"      -> AzureGetRange(a)
      [] op \in {"exists", "probe"} -> AzureExists(a)
      [] op = "list"       -> AzureList(a, c)
      [] op = "listsizes"  -> AzureListWithSizes(a, c)
      [] op = "size"       -> AzureSize(a)
      [] op = "hash"       -> AzureHeadWithHash(a)
      [] op = "accessible" -> AzureProbePackAccessible(a)
      [] op = "initiate"   -> AzureSetTier(a)

-----------------------------------------------------------------------------
GcsNew(creds) == IF creds = "none" THEN Err({}) ELSE Ok({})

GcsGet(a) == IF a.code = "200" THEN Ok(a.has) ELSE Err(Text(a))

GcsGetRange(a) == IF a.code = "206" THEN Ok(a.has) ELSE Err(Text(a))

GcsExists(a) ==
    CASE a.code = "200" -> Ok({"there"})
      [] a.code = "404" -> Ok({})
      [] OTHER -> Err(Text(a))

GcsList(a, c) == IF a.code = "200" THEN Gather(a, c) ELSE Err(PlainText(a))

GcsListWithSizes(a, c) == IF a.code = "200" THEN Gather(a, c) ELSE Err(PlainText(a))

GcsSize(a) == IF a.code = "200" THEN Ok({"size"}) ELSE Err(Text(a))

GcsHeadWithHash(a) ==
    IF a.code # "200" THEN Err(Text(a))
    ELSE IF "hash" \in a.has THEN Ok({"size", "hash"}) ELSE Err(IdCodes)

Gcs(op, a, c) ==
    CASE op = "get"        -> GcsGet(a)
      [] op = "range"      -> GcsGetRange(a)
      [] op \in {"exists", "probe"} -> GcsExists(a)
      [] op = "list"       -> GcsList(a, c)
      [] op = "listsizes"  -> GcsListWithSizes(a, c)
      [] op = "size"       -> GcsSize(a)
      [] op = "hash"       -> GcsHeadWithHash(a)

-----------------------------------------------------------------------------
(* b2_error prints the status as a number only. *)
B2Error(a) == Err((IF a.code \in {"drop", "cut"} THEN StatusLine(a.code) ELSE {a.code}) \cup a.body)

(* new authorises and looks the bucket up before anything else, outside    *)
(* with_retry: stage 0 is b2_authorize_account, stage 1 b2_list_buckets.   *)
B2Authorize(a, c) ==
    IF a.code # "200" THEN B2Error(a)
    ELSE IF c.stage = 0 THEN More(1, {})
    ELSE IF "there" \in a.has THEN Ok({}) ELSE Err({"not found"})

(* head_file lists the one name that starts with the key; has holds it. *)
B2HeadFile(a) == IF a.code = "200" THEN Ok(a.has) ELSE B2Error(a)

B2Download(a) ==
    CASE Success(a) -> Ok(a.has)
      [] a.code = "404" -> Err(NotFound)
      [] OTHER -> Err(B2Error(a).text \cup IdCodes)

B2Exists(a) == LET r == B2HeadFile(a) IN
    IF r.tag = "ok" THEN Ok(r.val \cap {"there"}) ELSE r

B2List(a, c) == IF a.code = "200" THEN Gather(a, c) ELSE B2Error(a)

B2Size(a) ==
    IF a.code # "200" THEN B2HeadFile(a)
    ELSE IF "there" \notin a.has THEN Err(NotFound)
    ELSE IF "size" \in a.has THEN Ok({"size"}) ELSE Err(IdCodes)

B2HeadWithHash(a) ==
    IF a.code # "200" THEN B2HeadFile(a)
    ELSE IF "there" \notin a.has THEN Err(NotFound)
    ELSE IF {"size", "hash"} \subseteq a.has THEN Ok({"size", "hash"}) ELSE Err(IdCodes)

B2ProbePackAccessible == Ok({"there"})
B2InitiatePackRestore == Ok({})

B2(op, a, c) ==
    CASE op \in {"get", "range"} -> B2Download(a)
      [] op \in {"exists", "probe"} -> B2Exists(a)
      [] op = "list"       -> B2List(a, c)
      [] op = "size"       -> B2Size(a)
      [] op = "hash"       -> B2HeadWithHash(a)
      [] op = "accessible" -> B2ProbePackAccessible
      [] op = "initiate"   -> B2InitiatePackRestore
=============================================================================
