------------------------------ MODULE FileShares ------------------------------
(***************************************************************************)
(* The backends of crates/bkp-storage/src/backends that read files: SFTP,  *)
(* a local directory, and an SMB share, either through a mount of the      *)
(* operating system or through a session of their own.  Same conventions   *)
(* as ObjectStores; the codes are "ok", "enoent", "refused" and "denied"   *)
(* for a session that does not open, and "drop" for a call that failed     *)
(* some other way; no list knows the texts of the last two.                *)
(***************************************************************************)
EXTENDS StorageErrors

FileText(a) ==
    CASE a.code = "enoent"  -> {"no such file"} \cup IdCodes
      [] a.code = "refused" -> {"connection refused"}
      [] a.code = "denied"  -> {}
      [] OTHER -> IdCodes

FileRead(a) == IF a.code = "ok" THEN Ok(a.has) ELSE Err(FileText(a))

FileStat(a) == IF a.code = "ok" THEN Ok({"size"}) ELSE Err(FileText(a))

(* A walk over two folders; c.got is what was found so far. *)
Walk(a, c) == IF a.more THEN More(c.stage, c.got \cup a.has) ELSE Ok(c.got \cup a.has)

-----------------------------------------------------------------------------
(* Every SFTP operation opens a session of its own first. *)
SftpConnect(a) == IF a.code \in {"refused", "denied"} THEN Err(FileText(a)) ELSE Ok({})

SftpPermanent(text) ==
    Says(text, {"no such file", "no such directory", "permission denied", "access denied"})

(* Mutant: the attempts are not counted. *)
SftpGetEndless(a, c) ==
    LET r == FileRead(a) IN
    IF r.tag = "ok" \/ SftpPermanent(r.text) THEN r ELSE More(c.stage + 1, {})

(* Up to three attempts, counted in c.stage, unless the text is permanent. *)
SftpGet(a, c) ==
    LET r == FileRead(a) IN
    IF r.tag = "ok" \/ SftpPermanent(r.text) \/ c.stage = 2 THEN r ELSE More(c.stage + 1, {})

(* The whole object is read and sliced. *)
SftpGetRange(a, c) == SftpGet(a, c)

SftpExists(a) ==
    CASE a.code = "ok" -> Ok({"there"})
      [] a.code = "enoent" -> Ok({})
      [] OTHER -> Err(FileText(a))

(* A folder that cannot be read is skipped; only the session must open. *)
SftpList(a, c) ==
    LET s == SftpConnect(a) IN
    IF s.tag = "err" /\ c.stage = 0 THEN s
    ELSE IF a.code # "ok" THEN Ok(c.got)
    ELSE IF a.more THEN More(1, c.got \cup a.has) ELSE Ok(c.got \cup a.has)

SftpSize(a) == FileStat(a)

Sftp(op, a, c) ==
    CASE op = "get"   -> SftpGet(a, c)
      [] op = "range" -> SftpGetRange(a, c)
      [] op \in {"exists", "probe"} -> SftpExists(a)
      [] op = "list"  -> SftpList(a, c)
      [] op = "size"  -> SftpSize(a)

-----------------------------------------------------------------------------
(* The directory is created; "none": it cannot be. *)
LocalNew(conf) == IF conf = "none" THEN Err({}) ELSE Ok({})

LocalGet(a) == FileRead(a)

LocalGetRange(a) == FileRead(a)

(* is_dir on the root: "there" when it is a directory. *)
LocalProbe(a) ==
    IF a.code = "ok" THEN Ok({}) ELSE Err({"not found"} \cup IdCodes)

(* Path::exists never fails. *)
LocalExists(a) == Ok(IF a.code = "ok" THEN {"there"} ELSE {})

(* walk_dir: a folder that cannot be read is skipped. *)
LocalList(a, c) == IF a.code = "ok" THEN Walk(a, c) ELSE Ok(c.got)

LocalSize(a) == FileStat(a)

LocalHeadWithHash(a) == IF a.code = "ok" THEN Ok({"size", "hash"}) ELSE Err(FileText(a))

Local(op, a, c) ==
    CASE op = "get"    -> LocalGet(a)
      [] op = "range"  -> LocalGetRange(a)
      [] op = "probe"  -> LocalProbe(a)
      [] op = "exists" -> LocalExists(a)
      [] op = "list"   -> LocalList(a, c)
      [] op = "size"   -> LocalSize(a)
      [] op = "hash"   -> LocalHeadWithHash(a)

-----------------------------------------------------------------------------
(* A mount point that is a directory is used; without one a session is     *)
(* opened on Linux.                                                        *)
SmbMode(mounted) == IF mounted THEN "smb" ELSE "smb_direct"

SmbGet(a) == FileRead(a)

SmbGetRange(a) == FileRead(a)

(* is_dir on the root, whose text says "is not mounted", or a stat. *)
SmbProbe(a, mode) ==
    IF a.code = "ok" THEN Ok({})
    ELSE IF mode = "smb" THEN Err(IdCodes) ELSE Err(FileText(a))

SmbExists(a) == Ok(IF a.code = "ok" THEN {"there"} ELSE {})

(* Mounted: as LocalList. *)
SmbMountedList(a, c) == IF a.code = "ok" THEN Walk(a, c) ELSE Ok(c.got)

(* Direct: a start that stat does not find is an empty listing, a folder   *)
(* that cannot be read later fails it.                                     *)
SmbDirectList(a, c) ==
    IF c.stage = 0 THEN (IF a.code = "ok" THEN More(1, {}) ELSE Ok({}))
    ELSE IF a.code = "ok" THEN Walk(a, c) ELSE Err(FileText(a))

SmbSize(a) == FileStat(a)

SmbHeadWithHash(a) == IF a.code = "ok" THEN Ok({"size", "hash"}) ELSE Err(FileText(a))

Smb(op, a, c, mode) ==
    CASE op = "get"    -> SmbGet(a)
      [] op = "range"  -> SmbGetRange(a)
      [] op = "probe"  -> SmbProbe(a, mode)
      [] op = "exists" -> SmbExists(a)
      [] op = "list"   -> IF mode = "smb" THEN SmbMountedList(a, c) ELSE SmbDirectList(a, c)
      [] op = "size"   -> SmbSize(a)
      [] op = "hash"   -> SmbHeadWithHash(a)
=============================================================================
