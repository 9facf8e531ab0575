-------------------------------- MODULE Drives --------------------------------
(***************************************************************************)
(* The drive-like backends of crates/bkp-storage/src/backends: Google      *)
(* Drive, OneDrive, Dropbox (each behind a TokenCache) and WebDAV.  Same   *)
(* conventions as ObjectStores.                                            *)
(***************************************************************************)
EXTENDS StorageErrors

Pages(a, c) == IF a.more THEN More(c.stage, c.got \cup a.has) ELSE Ok(c.got \cup a.has)

-----------------------------------------------------------------------------
(* Google Drive addresses files by id: stage 0 of every operation on an    *)
(* object is find_file, a search by name whose answer may be empty.        *)
DriveNew(creds) == Ok({})

DriveFindFile(a) == IF Success(a) THEN Ok(a.has) ELSE Err(Text(a))

DriveFound(a, then) ==
    IF Success(a) /\ "there" \in a.has THEN then
    ELSE IF Success(a) THEN Err(NotFound) ELSE DriveFindFile(a)

DriveGet(a, c) ==
    IF c.stage = 0 THEN DriveFound(a, More(1, {}))
    ELSE CASE Success(a) -> Ok(a.has)
           [] a.code = "404" -> Err(NotFound)
           [] OTHER -> Err(Text(a))

(* Any success is taken for the range that was asked for. *)
DriveGetRange(a, c) ==
    IF c.stage = 0 THEN DriveFound(a, More(1, {}))
    ELSE IF Success(a) THEN Ok(a.has) ELSE Err(Text(a))

DriveExists(a) == LET f == DriveFindFile(a) IN
    IF f.tag = "ok" THEN Ok(f.val \cap {"there"}) ELSE f

(* Mutant: the page token is not looked at. *)
DriveListOnePage(a, c) == IF Success(a) THEN Ok(c.got \cup a.has) ELSE Err(Text(a))

(* list_files: one flat folder, filtered by name. *)
DriveList(a, c) == IF Success(a) THEN Pages(a, c) ELSE Err(PlainText(a))

(* A file without a size is listed with size 0. *)
DriveListWithSizes(a, c) == DriveList(a, c)

DriveSize(a) ==
    DriveFound(a, IF "size" \in a.has THEN Ok({"size"}) ELSE Err(IdCodes))

DriveHeadWithHash(a) ==
    DriveFound(a, IF {"size", "hash"} \subseteq a.has THEN Ok({"size", "hash"}) ELSE Err(IdCodes))

Drive(op, a, c) ==
    CASE op = "get"   -> DriveGet(a, c)
      [] op = "range" -> DriveGetRange(a, c)
      [] op \in {"exists", "probe"} -> DriveExists(a)
      [] op = "list"  -> DriveList(a, c)
      [] op = "listsizes" -> DriveListWithSizes(a, c)
      [] op = "size"  -> DriveSize(a)
      [] op = "hash"  -> DriveHeadWithHash(a)

-----------------------------------------------------------------------------
(* "none": neither the endpoint nor the build has an app id. *)
OneDriveNew(creds) == IF creds = "none" THEN Err({}) ELSE Ok({})

OneDriveGet(a) ==
    CASE Success(a) -> Ok(a.has)
      [] a.code = "404" -> Err(NotFound)
      [] OTHER -> Err(Text(a))

OneDriveGetRange(a) == IF Success(a) THEN Ok(a.has) ELSE Err(Text(a))

(* Whatever the answer, only a request that got none is an error. *)
OneDriveExists(a) ==
    IF a.code = "drop" THEN Err(Text(a)) ELSE Ok(IF Success(a) THEN {"there"} ELSE {})

(* A folder that is not there is an empty one. *)
OneDriveListFolderChildren(a, c) ==
    CASE a.code = "404" -> Ok({})
      [] Success(a) -> Pages(a, c)
      [] OTHER -> Err(PlainText(a))

OneDriveList(a, c) == OneDriveListFolderChildren(a, c)
OneDriveListWithSizes(a, c) == OneDriveListFolderChildren(a, c)

OneDriveSize(a) ==
    IF a.code = "404" THEN Err(NotFound)
    ELSE IF ~Success(a) THEN Err(Text(a))
    ELSE IF "size" \in a.has THEN Ok({"size"}) ELSE Err(IdCodes)

OneDriveHeadWithHash(a) ==
    IF a.code = "404" THEN Err(NotFound)
    ELSE IF ~Success(a) THEN Err(Text(a))
    ELSE IF {"size", "hash"} \subseteq a.has THEN Ok({"size", "hash"}) ELSE Err(IdCodes)

OneDrive(op, a, c) ==
    CASE op = "get"   -> OneDriveGet(a)
      [] op = "range" -> OneDriveGetRange(a)
      [] op \in {"exists", "probe"} -> OneDriveExists(a)
      [] op = "list"  -> OneDriveList(a, c)
      [] op = "listsizes" -> OneDriveListWithSizes(a, c)
      [] op = "size"  -> OneDriveSize(a)
      [] op = "hash"  -> OneDriveHeadWithHash(a)

-----------------------------------------------------------------------------
DropboxNew(creds) == IF creds \in {"none", "half"} THEN Err({}) ELSE Ok({})

(* Dropbox answers 409 for a path it does not know. *)
DropboxGet(a) ==
    CASE a.code = "409" -> Err(NotFound)
      [] Success(a) -> Ok(a.has)
      [] OTHER -> Err(Text(a))

DropboxGetRange(a) ==
    CASE a.code = "409" -> Err(NotFound)
      [] Success(a) -> Ok(a.has)
      [] OTHER -> Err(Text(a))

DropboxExists(a) ==
    IF a.code = "drop" THEN Err(Text(a)) ELSE Ok(IF Success(a) THEN {"there"} ELSE {})

(* The first request (c.stage = 0) starts a cursor, the others follow it. *)
DropboxListFolderAll(a, c) ==
    IF a.code = "409" /\ c.stage = 0 THEN Ok({})
    ELSE IF ~Success(a) THEN Err(PlainText(a))
    ELSE IF a.more THEN More(1, c.got \cup a.has) ELSE Ok(c.got \cup a.has)

(* list is recursive for every prefix, list_with_sizes only for the root:  *)
(* below a prefix it lists no subfolder.                                   *)
DropboxList(a, c) == DropboxListFolderAll(a, c)
DropboxListWithSizes(a, c) == DropboxListFolderAll([a EXCEPT !.more = FALSE], c)

DropboxSize(a) ==
    IF a.code = "409" THEN Err(NotFound)
    ELSE IF ~Success(a) THEN Err(Text(a))
    ELSE IF "size" \in a.has THEN Ok({"size"}) ELSE Err(IdCodes)

DropboxHeadWithHash(a) ==
    IF a.code = "409" THEN Err(NotFound)
    ELSE IF ~Success(a) THEN Err(Text(a))
    ELSE IF {"size", "hash"} \subseteq a.has THEN Ok({"size", "hash"}) ELSE Err(IdCodes)

Dropbox(op, a, c) ==
    CASE op = "get"   -> DropboxGet(a)
      [] op = "range" -> DropboxGetRange(a)
      [] op \in {"exists", "probe"} -> DropboxExists(a)
      [] op = "list"  -> DropboxList(a, c)
      [] op = "listsizes" -> DropboxListWithSizes(a, c)
      [] op = "size"  -> DropboxSize(a)
      [] op = "hash"  -> DropboxHeadWithHash(a)

-----------------------------------------------------------------------------
(* "none": no usable URL; "half": a client certificate that cannot be read *)
(* or parsed.                                                              *)
WebDavNew(creds) ==
    CASE creds = "none" -> Err({NotStorage})
      [] creds = "half" -> Err({})
      [] OTHER -> Ok({})

WebDavGet(a) == IF a.code = "200" THEN Ok(a.has) ELSE Err(Text(a))

(* A server that ignores Range answers 200: the slice is cut here. *)
WebDavGetRange(a) ==
    CASE a.code = "200" -> Ok(a.has \ {"whole"})
      [] a.code = "206" -> Ok(a.has)
      [] OTHER -> Err(Text(a))

WebDavExists(a) ==
    CASE a.code \in {"200", "204"} -> Ok({"there"})
      [] a.code = "404" -> Ok({})
      [] OTHER -> Err(Text(a))

WebDavSize(a) ==
    IF a.code \notin {"200", "204"} THEN Err(Text(a))
    ELSE IF "size" \in a.has THEN Ok({"size"}) ELSE Err(IdCodes)

(* One PROPFIND of depth 1: what the XML reader made out before the end or *)
(* the first syntax error; a folder that is not there is an empty one.     *)
WebDavPropfind(a) ==
    CASE a.code \in {"200", "207"} -> Ok(a.has)
      [] a.code = "404" -> Ok({})
      [] OTHER -> Err(PlainText(a))

(* The stack of folders still to visit: a.more says one is left. *)
WebDavList(a, c) == LET r == WebDavPropfind(a) IN
    IF r.tag # "ok" THEN r
    ELSE IF a.more THEN More(c.stage, c.got \cup r.val) ELSE Ok(c.got \cup r.val)

WebDav(op, a, c) ==
    CASE op = "get"   -> WebDavGet(a)
      [] op = "range" -> WebDavGetRange(a)
      [] op \in {"exists", "probe"} -> WebDavExists(a)
      [] op = "list"  -> WebDavList(a, c)
      [] op = "size"  -> WebDavSize(a)
=============================================================================
