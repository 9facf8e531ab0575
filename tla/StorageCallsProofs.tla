-------------------------- MODULE StorageCallsProofs --------------------------
(***************************************************************************)
(* Proofs about StorageCalls.  They go through the layers from below: what *)
(* the texts say, what each backend makes of an answer, what the answers   *)
(* tell of the endpoint, where a result leaves the job, and what every     *)
(* step keeps.                                                             *)
(***************************************************************************)
EXTENDS StorageCalls, TLAPS

(* The phrases an error's text can contain. *)
Texts == Permanent \cup Transient \cup Archived \cup Missing \cup {NotStorage, "409", "200"}

(* No object's name spells out a status code that is final. *)
Legible == IdCodes \cap Permanent = {}

(* What an outage answers a request with, or fails to. *)
Outages == {"429", "503", "drop", "cut"}

Codes  == {"200", "202", "206", "207", "400", "401", "403", "404", "409", "429", "503", "drop", "cut", "refused", "enoent"}
(* The bodies of a refusal that the backends look into. *)
Bodies == {{}, {"blobarchived"}, {"invalidobjectstate"}}

(* What a text says is what its parts say. *)
LEMMA SaysEither ==
    ASSUME NEW t, NEW u, NEW phrases
    PROVE  Says(t \cup u, phrases) <=> Says(t, phrases) \/ Says(u, phrases)
BY DEF Says

(* What each status line says. *)
LEMMA SaysLine ==
    ASSUME NEW code \in Codes
    PROVE  /\ ~Says(StatusLine(code), Archived)
           /\ Says(StatusLine(code), Refused) <=> code \in {"401", "403"}
           /\ Says(StatusLine(code), Missing) <=> code \in {"404", "enoent"}
           /\ Says(StatusLine(code), Permanent) <=> code \in {"400", "401", "403", "404"}
           /\ code \in {"429", "503", "drop", "cut", "refused"} => Says(StatusLine(code), Transient)
           /\ NotStorage \notin StatusLine(code)
           /\ "401" \in StatusLine(code) <=> code = "401"
           /\ StatusLine(code) \subseteq Texts \cup {"202", "206", "207"}
<1> USE DEF StatusLine, Says, Archived, Refused, Missing, Permanent, Transient, NotStorage, Texts
<1>1. CASE code = "200"  BY <1>1
<1>2. CASE code = "202"  BY <1>2
<1>3. CASE code = "206"  BY <1>3
<1>4. CASE code = "207"  BY <1>4
<1>5. CASE code = "400"  BY <1>5
<1>6. CASE code = "401"  BY <1>6
<1>7. CASE code = "403"  BY <1>7
<1>8. CASE code = "404"  BY <1>8
<1>9. CASE code = "409"  BY <1>9
<1>10. CASE code = "429"  BY <1>10
<1>11. CASE code = "503"  BY <1>11
<1>12. CASE code = "drop"  BY <1>12
<1>13. CASE code = "cut"  BY <1>13
<1>14. CASE code = "refused"  BY <1>14
<1>15. CASE code = "enoent"  BY <1>15
<1> QED  BY <1>1, <1>2, <1>3, <1>4, <1>5, <1>6, <1>7, <1>8, <1>9, <1>10, <1>11, <1>12, <1>13, <1>14, <1>15 DEF Codes

(* What a body says. *)
LEMMA SaysBody ==
    ASSUME NEW body \in Bodies
    PROVE  /\ Says(body, Archived) <=> body # {}
           /\ ~Says(body, Refused)
           /\ ~Says(body, Missing)
           /\ ~Says(body, Permanent)
           /\ NotStorage \notin body /\ "401" \notin body
           /\ body \subseteq Texts
<1> USE DEF Says, Archived, Refused, Missing, Permanent, NotStorage, Texts
<1>1. CASE body = {}  BY <1>1
<1>2. CASE body = {"blobarchived"}  BY <1>2
<1>3. CASE body = {"invalidobjectstate"}  BY <1>3
<1> QED  BY <1>1, <1>2, <1>3 DEF Bodies

(* An object's name says nothing of a failure when it is legible. *)
LEMMA SaysIds ==
    /\ NotStorage \notin IdCodes /\ ~Says(IdCodes, Archived)
    /\ IdCodes \subseteq Texts
    /\ Legible => ~Says(IdCodes, Refused) /\ ~Says(IdCodes, Missing) /\ ~Says(IdCodes, Permanent) /\ "401" \notin IdCodes
<1>1. NotStorage \notin IdCodes /\ ~Says(IdCodes, Archived) /\ IdCodes \subseteq Texts
  BY IdCodesAssumption DEF NotStorage, Says, Archived, Texts, Permanent, Transient
<1>2. ASSUME Legible PROVE ~Says(IdCodes, Refused) /\ ~Says(IdCodes, Missing) /\ ~Says(IdCodes, Permanent) /\ "401" \notin IdCodes
  BY <1>2, IdCodesAssumption DEF Legible, Says, Refused, Missing, Permanent
<1> QED BY <1>1, <1>2

-----------------------------------------------------------------------------
(* What an error's text tells, of an answer with this code and this body. *)
Tells(text, code, body) ==
    /\ NotStorage \notin text
    /\ Says(text, Archived) <=> body # {}
    /\ Says(text, Refused) <=> code \in {"401", "403"}
    /\ Says(text, Missing) <=> code \in {"404", "enoent"}
    /\ Says(text, Permanent) <=> code \in {"400", "401", "403", "404"}
    /\ code \in {"429", "503", "drop", "cut", "refused"} => Says(text, Transient)
    /\ "401" \in text <=> code = "401"

(* An error whose text tells the code and the body it was made of. *)
Fails(r, code, body) ==
    /\ r = Err(r.text)
    /\ r.text \subseteq Texts
    /\ Legible => Tells(r.text, code, body)

Failures == Codes \ {"202", "206", "207"}

LEMMA FailsText ==
    ASSUME NEW t, t \subseteq Texts, NEW code, NEW body, Legible => Tells(t, code, body)
    PROVE  Fails(Err(t), code, body)
BY DEF Fails, Err

(* A text that prints the status and the body tells them. *)
LEMMA LineTells ==
    ASSUME NEW code \in Failures, NEW body \in Bodies
    PROVE  /\ Fails(Err(StatusLine(code) \cup body), code, body)
           /\ Fails(Err(StatusLine(code) \cup body \cup IdCodes), code, body)
<1>1. code \in Codes  BY DEF Failures
<1>2. StatusLine(code) \subseteq Texts  BY <1>1, SaysLine DEF Failures, StatusLine, Texts, Codes
<1>3. Tells(StatusLine(code) \cup body, code, body)  BY <1>1, SaysLine, SaysBody, SaysEither DEF Tells
<1>4. Legible => Tells(StatusLine(code) \cup body \cup IdCodes, code, body)
  BY <1>1, <1>3, SaysIds, SaysEither DEF Tells
<1>5. StatusLine(code) \cup body \subseteq Texts /\ StatusLine(code) \cup body \cup IdCodes \subseteq Texts
  BY <1>2, SaysBody, SaysIds
<1> QED  BY <1>3, <1>4, <1>5, FailsText

(* One phrase, with the codes an object's name spells out or without. *)
LEMMA PhraseTells ==
    /\ Fails(Err(IdCodes), "200", {})
    /\ Fails(Err(NotFound), "404", {})
    /\ Fails(Err(NotFound \cup {"404"}), "404", {})
    /\ Fails(Err({"not found"}), "404", {})
    /\ Fails(Err({"no such file"} \cup IdCodes), "enoent", {})
    /\ Fails(Err({"connection refused"}), "refused", {})
    /\ Fails(Err({}), "200", {})
<1>1. Tells({}, "200", {}) /\ Tells({"not found"}, "404", {}) /\ Tells({"404"}, "404", {})
      /\ Tells({"no such file"}, "enoent", {}) /\ Tells({"connection refused"}, "refused", {})
  BY DEF Tells, Says, Archived, Refused, Missing, Permanent, Transient, NotStorage
<1>2. {"not found", "404", "no such file", "connection refused"} \subseteq Texts
  BY DEF Texts, Permanent, Missing, Transient
<1>3. \A t, c : Tells(t, c, {}) /\ Legible => Tells(t \cup IdCodes, c, {})
  BY SaysIds, SaysEither DEF Tells
<1>4. Tells({} \cup IdCodes, "200", {}) <=> Tells(IdCodes, "200", {})
  <2>1. {} \cup IdCodes = IdCodes  OBVIOUS
  <2> QED  BY <2>1
<1>5. Legible => Tells(NotFound \cup {"404"}, "404", {})
  <2>1. \A t, u, c : Tells(t, c, {}) /\ Tells(u, c, {}) => Tells(t \cup u, c, {})
    BY SaysEither DEF Tells
  <2> QED  BY <1>1, <1>3, <2>1 DEF NotFound
<1>6. NotFound \subseteq Texts /\ NotFound \cup {"404"} \subseteq Texts /\ {"no such file"} \cup IdCodes \subseteq Texts
      /\ IdCodes \subseteq Texts
  BY <1>2, SaysIds DEF NotFound
<1>7. Fails(Err(IdCodes), "200", {}) /\ Fails(Err(NotFound), "404", {})
  BY <1>1, <1>3, <1>4, <1>6, FailsText DEF NotFound
<1>8. Fails(Err(NotFound \cup {"404"}), "404", {})  BY <1>5, <1>6, FailsText
<1>9. Fails(Err({"no such file"} \cup IdCodes), "enoent", {})  BY <1>1, <1>3, <1>6, FailsText
<1>10. Fails(Err({"not found"}), "404", {}) /\ Fails(Err({"connection refused"}), "refused", {}) /\ Fails(Err({}), "200", {})
  BY <1>1, <1>2, FailsText
<1> QED  BY <1>7, <1>8, <1>9, <1>10

-----------------------------------------------------------------------------
(* What each operation makes of an answer, whichever backend it is. *)
HttpCodes == {"200", "202", "206", "207", "401", "403", "404", "409", "429", "503", "drop", "cut"}

(* The answers a server of the endpoint's kind can give. *)
IsAnswer(a) ==
    /\ DOMAIN a = {"code", "has", "body", "more"}
    /\ a.body \in Bodies /\ a.more \in BOOLEAN
    /\ kind \in Http => a.code \in HttpCodes
    /\ kind \in Files => a.code \in {"ok", "enoent", "refused", "denied", "drop"}
    /\ a.body # {} => kind \in Tiered /\ a.code \in {"403", "409"}

(* The status an operation takes a failure for. *)
Meant(code) == IF kind = "dropbox" /\ code = "409" THEN "404" ELSE code

(* A file backend keeps of a failure whether it was refused or missing. *)
FileCode(code) == IF code \in {"enoent", "refused"} THEN code ELSE "200"

LEMMA TextFails ==
    ASSUME NEW a, a.code \in Failures, a.body \in Bodies
    PROVE  Fails(Err(Text(a)), a.code, a.body) /\ Fails(Err(PlainText(a)), a.code, a.body)
BY LineTells DEF Text, PlainText

(* B2's own words for an answer. *)
LEMMA B2Fails ==
    ASSUME NEW a, a.code \in Failures \ {"400", "refused", "enoent"}, a.body = {}
    PROVE  Fails(B2Error(a), a.code, a.body) /\ Fails(Err(B2Error(a).text \cup IdCodes), a.code, a.body)
<1>1. (Tells({a.code}, a.code, {}) /\ {a.code} \subseteq Texts) \/ a.code \in {"drop", "cut"}
  BY DEF Tells, Says, Archived, Refused, Missing, Permanent, Transient, NotStorage, Texts, Failures, Codes
<1>2. Legible => Tells(IdCodes, "200", {})  BY PhraseTells DEF Fails, Err
<1>3. Legible /\ Tells({a.code}, a.code, {}) => Tells({a.code} \cup {} \cup IdCodes, a.code, {})
  BY SaysIds, SaysEither, SaysBody DEF Tells, Bodies
<1>4. Tells({a.code}, a.code, {}) => Tells({a.code} \cup {}, a.code, {})
  BY SaysEither, SaysBody DEF Tells, Bodies
<1>5. CASE a.code \in {"drop", "cut"}
  BY <1>5, LineTells DEF B2Error, Bodies, Err
<1>6. CASE a.code \notin {"drop", "cut"}
  <2>1. B2Error(a) = Err({a.code} \cup {}) /\ B2Error(a).text = {a.code} \cup {}
    BY <1>6 DEF B2Error, Err
  <2> QED  BY <2>1, <1>1, <1>3, <1>4, <1>6, SaysIds, FailsText
<1> QED  BY <1>5, <1>6

LEMMA FileFails ==
    ASSUME NEW a, a.code \in {"enoent", "refused", "denied", "drop"}
    PROVE  Fails(Err(FileText(a)), FileCode(a.code), {})
BY PhraseTells DEF FileText, FileCode

(* The handler of each kind, one by one. *)
LEMMA HandleIs ==
    ASSUME NEW a, call.op # "build"
    PROVE  /\ kind = "s3" => Handle(a) = S3(call.op, a, call)
           /\ kind = "s3_compat" => Handle(a) = S3(call.op, a, call)
           /\ kind = "azure" => Handle(a) = Azure(call.op, a, call)
           /\ kind = "gcs" => Handle(a) = Gcs(call.op, a, call)
           /\ kind = "b2" => Handle(a) = B2(call.op, a, call)
           /\ kind = "googledrive" => Handle(a) = Drive(call.op, a, call)
           /\ kind = "onedrive" => Handle(a) = OneDrive(call.op, a, call)
           /\ kind = "dropbox" => Handle(a) = Dropbox(call.op, a, call)
           /\ kind = "webdav" => Handle(a) = WebDav(call.op, a, call)
           /\ kind = "sftp" => Handle(a) = Sftp(call.op, a, call)
           /\ kind = "local" => Handle(a) = Local(call.op, a, call)
           /\ kind \in {"smb", "smb_direct"} => Handle(a) = Smb(call.op, a, call, kind)
BY DEF Handle, S3Compat

(* The facts the proofs below draw on, per answer. *)
LEMMA HttpTexts ==
    ASSUME NEW a, IsAnswer(a), kind \in Http, a.code \notin {"202", "206", "207"}
    PROVE  /\ Fails(Err(Text(a)), a.code, a.body) /\ Fails(Err(PlainText(a)), a.code, a.body)
           /\ kind = "b2" => /\ Fails(B2Error(a), a.code, a.body)
                             /\ Fails(Err(B2Error(a).text \cup IdCodes), a.code, a.body)
           /\ a.code \notin {"403", "409"} \/ kind \notin {"s3", "azure"} => a.body = {}
<1>1. a.code \in Failures \ {"400", "refused", "enoent"} /\ a.body \in Bodies
  BY DEF IsAnswer, HttpCodes, Failures, Codes
<1>2. kind = "b2" => a.body = {}  BY DEF IsAnswer, Tiered
<1>3. Failures \ {"400", "refused", "enoent"} \subseteq Failures  OBVIOUS
<1>4. a.code \notin {"403", "409"} \/ kind \notin {"s3", "azure"} => a.body = {}  BY DEF IsAnswer, Tiered
<1> QED  BY <1>1, <1>2, <1>3, <1>4, TextFails, B2Fails

(* What each operation behind HTTP makes of an answer, in lemmas of one    *)
(* operation each: get, get_range, size, content_hash, exists.             *)
LEMMA HttpGet ==
    ASSUME NEW a, IsAnswer(a), kind \in Http, call.op = "get", call.stage # 0 \/ kind # "googledrive",
           a.code \notin {"202", "206", "207"}
    PROVE  /\ a.code = "200" => Handle(a) = Ok(a.has)
           /\ a.code # "200" => Fails(Handle(a), Meant(a.code), a.body)
<1> USE HandleIs, PhraseTells DEF Meant, Success
<1>0. /\ Fails(Err(Text(a)), a.code, a.body)
      /\ kind = "b2" => Fails(Err(B2Error(a).text \cup IdCodes), a.code, a.body)
      /\ a.code \notin {"403", "409"} \/ kind \notin {"s3", "azure"} => a.body = {}
  BY HttpTexts DEF Http
<1>1. CASE kind \in {"s3", "s3_compat"}  BY <1>0, <1>1 DEF S3, S3Get
<1>2. CASE kind = "azure"  BY <1>0, <1>2 DEF Azure, AzureGet
<1>3. CASE kind = "gcs"  BY <1>0, <1>3 DEF Gcs, GcsGet
<1>4. CASE kind = "b2"  BY <1>0, <1>4 DEF B2, B2Download
<1>5. CASE kind = "googledrive"  BY <1>0, <1>5 DEF Drive, DriveGet
<1>6. CASE kind = "onedrive"  BY <1>0, <1>6 DEF OneDrive, OneDriveGet
<1>7. CASE kind = "dropbox"  BY <1>0, <1>7 DEF Dropbox, DropboxGet
<1>8. CASE kind = "webdav"  BY <1>0, <1>8 DEF WebDav, WebDavGet
<1> QED  BY <1>1, <1>2, <1>3, <1>4, <1>5, <1>6, <1>7, <1>8 DEF Http, Stores, OAuth

LEMMA HttpRange ==
    ASSUME NEW a, IsAnswer(a), kind \in Http, call.op = "range", call.stage # 0 \/ kind # "googledrive",
           a.code \notin {"202", "207"}
    PROVE  /\ a.code = "206" => Handle(a) = Ok(a.has)
           /\ a.code = "200" /\ kind \in OAuth \cup {"b2"} => Handle(a) = Ok(a.has)
           /\ a.code = "200" /\ kind = "webdav" => Handle(a) = Ok(a.has \ {"whole"})
           /\ a.code = "200" /\ kind \notin OAuth \cup {"b2", "webdav"} => Fails(Handle(a), "200", {})
           /\ a.code \notin {"200", "206"} => Fails(Handle(a), Meant(a.code), a.body)
<1> USE HandleIs, PhraseTells DEF Meant, Success, Stores, OAuth, Http
<1>0. a.code # "206" => /\ Fails(Err(Text(a)), a.code, a.body)
                        /\ kind = "b2" => Fails(Err(B2Error(a).text \cup IdCodes), a.code, a.body)
                        /\ a.code \notin {"403", "409"} \/ kind \notin {"s3", "azure"} => a.body = {}
  BY HttpTexts
<1>1. CASE kind \in {"s3", "s3_compat"}  BY <1>0, <1>1 DEF S3, S3GetRange
<1>2. CASE kind = "azure"  BY <1>0, <1>2 DEF Azure, AzureGetRange
<1>3. CASE kind = "gcs"  BY <1>0, <1>3 DEF Gcs, GcsGetRange
<1>4. CASE kind = "b2"  BY <1>0, <1>4 DEF B2, B2Download
<1>5. CASE kind = "googledrive"  BY <1>0, <1>5 DEF Drive, DriveGetRange
<1>6. CASE kind = "onedrive"  BY <1>0, <1>6 DEF OneDrive, OneDriveGetRange
<1>7. CASE kind = "dropbox"  BY <1>0, <1>7 DEF Dropbox, DropboxGetRange
<1>8. CASE kind = "webdav"  BY <1>0, <1>8 DEF WebDav, WebDavGetRange
<1> QED  BY <1>1, <1>2, <1>3, <1>4, <1>5, <1>6, <1>7, <1>8

(* Google Drive's search for the file an operation is about. *)
LEMMA DriveSearch ==
    ASSUME NEW a, IsAnswer(a), kind = "googledrive", call.op \in {"get", "range"}, call.stage = 0,
           a.code \notin {"202", "206", "207"}
    PROVE  /\ a.code = "200" /\ "there" \in a.has => Handle(a) = More(1, {})
           /\ a.code = "200" /\ "there" \notin a.has => Fails(Handle(a), "404", {})
           /\ a.code # "200" => Fails(Handle(a), Meant(a.code), a.body)
<1>1. Fails(Err(Text(a)), a.code, a.body)  BY HttpTexts DEF Http, OAuth
<1>2. Handle(a) = DriveFound(a, More(1, {}))  BY HandleIs DEF Drive, DriveGet, DriveGetRange
<1> QED  BY <1>1, <1>2, PhraseTells DEF Meant, DriveFound, DriveFindFile, Success

LEMMA HttpSize ==
    ASSUME NEW a, IsAnswer(a), kind \in Http, call.op = "size", a.code \notin {"202", "204", "206", "207"}
    PROVE  /\ a.code = "200" /\ "there" \in a.has /\ "size" \in a.has => Handle(a) = Ok({"size"})
           /\ a.code = "200" /\ "there" \in a.has => Handle(a) = Ok({"size"}) \/ Fails(Handle(a), "200", {})
           /\ a.code = "200" /\ "there" \notin a.has /\ kind \in {"b2", "googledrive"} => Fails(Handle(a), "404", {})
           /\ a.code # "200" => Fails(Handle(a), Meant(a.code), a.body)
<1> USE HandleIs, PhraseTells DEF Meant, Success
<1>0. /\ Fails(Err(Text(a)), a.code, a.body)
      /\ kind = "b2" => Fails(B2Error(a), a.code, a.body)
      /\ a.code \notin {"403", "409"} \/ kind \notin {"s3", "azure"} => a.body = {}
  BY HttpTexts DEF Http
<1>1. CASE kind \in {"s3", "s3_compat"}  BY <1>0, <1>1 DEF S3, S3Size
<1>2. CASE kind = "azure"  BY <1>0, <1>2 DEF Azure, AzureSize
<1>3. CASE kind = "gcs"  BY <1>0, <1>3 DEF Gcs, GcsSize
<1>4. CASE kind = "b2"  BY <1>0, <1>4 DEF B2, B2Size, B2HeadFile
<1>5. CASE kind = "googledrive"  BY <1>0, <1>5 DEF Drive, DriveSize, DriveFound, DriveFindFile
<1>6. CASE kind = "onedrive"  BY <1>0, <1>6 DEF OneDrive, OneDriveSize
<1>7. CASE kind = "dropbox"  BY <1>0, <1>7 DEF Dropbox, DropboxSize
<1>8. CASE kind = "webdav"  BY <1>0, <1>8 DEF WebDav, WebDavSize
<1> QED  BY <1>1, <1>2, <1>3, <1>4, <1>5, <1>6, <1>7, <1>8 DEF Http, Stores, OAuth

LEMMA HttpHash ==
    ASSUME NEW a, IsAnswer(a), kind \in Http \ {"webdav"}, call.op = "hash", a.code \notin {"202", "204", "206", "207"}
    PROVE  /\ a.code = "200" /\ "there" \in a.has /\ "size" \in a.has /\ "hash" \in a.has => Handle(a) = Ok({"size", "hash"})
           /\ a.code = "200" /\ "there" \in a.has => Handle(a) = Ok({"size", "hash"}) \/ Fails(Handle(a), "200", {})
           /\ a.code = "200" /\ "there" \notin a.has /\ kind \in {"b2", "googledrive"} => Fails(Handle(a), "404", {})
           /\ a.code # "200" => Fails(Handle(a), Meant(a.code), a.body)
<1> USE HandleIs, PhraseTells DEF Meant, Success
<1>0. /\ Fails(Err(Text(a)), a.code, a.body)
      /\ kind = "b2" => Fails(B2Error(a), a.code, a.body)
      /\ a.code \notin {"403", "409"} \/ kind \notin {"s3", "azure"} => a.body = {}
  BY HttpTexts DEF Http
<1>1. CASE kind \in {"s3", "s3_compat"}  BY <1>0, <1>1 DEF S3, S3HeadWithHash
<1>2. CASE kind = "azure"  BY <1>0, <1>2 DEF Azure, AzureHeadWithHash
<1>3. CASE kind = "gcs"  BY <1>0, <1>3 DEF Gcs, GcsHeadWithHash
<1>4. CASE kind = "b2"  BY <1>0, <1>4 DEF B2, B2HeadWithHash, B2HeadFile
<1>5. CASE kind = "googledrive"  BY <1>0, <1>5 DEF Drive, DriveHeadWithHash, DriveFound, DriveFindFile
<1>6. CASE kind = "onedrive"  BY <1>0, <1>6 DEF OneDrive, OneDriveHeadWithHash
<1>7. CASE kind = "dropbox"  BY <1>0, <1>7 DEF Dropbox, DropboxHeadWithHash
<1> QED  BY <1>1, <1>2, <1>3, <1>4, <1>5, <1>6, <1>7 DEF Http, Stores, OAuth

LEMMA HttpExists ==
    ASSUME NEW a, IsAnswer(a), kind \in Http, call.op \in {"exists", "probe"}, a.code \notin {"202", "204", "206", "207"}
    PROVE  /\ a.code = "200" => Handle(a) = Ok(IF kind \in {"b2", "googledrive"} THEN a.has \cap {"there"} ELSE {"there"})
           /\ a.code \notin {"200", "drop"} /\ kind \in {"onedrive", "dropbox"} => Handle(a) = Ok({})
           /\ a.code = "404" /\ kind \notin {"b2", "googledrive", "onedrive", "dropbox"} => Handle(a) = Ok({})
           /\ a.code \notin {"200", "404"} /\ (kind \in {"onedrive", "dropbox"} => a.code = "drop") =>
                Fails(Handle(a), a.code, a.body)
           /\ a.code = "404" /\ kind \in {"b2", "googledrive"} => Fails(Handle(a), a.code, a.body)
<1> USE HandleIs DEF Success
<1>0. /\ Fails(Err(Text(a)), a.code, a.body)
      /\ kind = "b2" => Fails(B2Error(a), a.code, a.body)
  BY HttpTexts DEF Http
<1>1. CASE kind \in {"s3", "s3_compat"}  BY <1>0, <1>1 DEF S3, S3Exists
<1>2. CASE kind = "azure"  BY <1>0, <1>2 DEF Azure, AzureExists
<1>3. CASE kind = "gcs"  BY <1>0, <1>3 DEF Gcs, GcsExists
<1>4. CASE kind = "b2"  BY <1>0, <1>4 DEF B2, B2Exists, B2HeadFile, B2Error, Ok, Err
<1>5. CASE kind = "googledrive"  BY <1>0, <1>5 DEF Drive, DriveExists, DriveFindFile, Ok, Err
<1>6. CASE kind = "onedrive"  BY <1>0, <1>6 DEF OneDrive, OneDriveExists
<1>7. CASE kind = "dropbox"  BY <1>0, <1>7 DEF Dropbox, DropboxExists
<1>8. CASE kind = "webdav"  BY <1>0, <1>8 DEF WebDav, WebDavExists
<1> QED  BY <1>1, <1>2, <1>3, <1>4, <1>5, <1>6, <1>7, <1>8 DEF Http, Stores, OAuth

(* A page of a listing; WebDAV's pages are 207s. *)
LEMMA HttpList ==
    ASSUME NEW a, IsAnswer(a), kind \in Http, call.op \in {"list", "listsizes"}, call.op \in Ops(kind),
           a.code \notin {"202", "206"}, a.code = "207" => kind = "webdav"
    PROVE  /\ a.code \in {"200", "207"} /\ a.more /\ ~(kind = "dropbox" /\ call.op = "listsizes") =>
                \E n \in {1, call.stage} : Handle(a) = More(n, call.got \cup a.has)
           /\ a.code \in {"200", "207"} /\ (~a.more \/ (kind = "dropbox" /\ call.op = "listsizes")) =>
                Handle(a) = Ok(call.got \cup a.has)
           /\ a.code = "404" /\ kind = "onedrive" => Handle(a) = Ok({})
           /\ a.code = "404" /\ kind = "webdav" /\ ~a.more => Handle(a) = Ok(call.got)
           /\ a.code = "409" /\ kind = "dropbox" /\ call.stage = 0 => Handle(a) = Ok({})
           /\ a.code \notin {"200", "207", "404", "409"} => Fails(Handle(a), a.code, a.body)
           /\ a.code = "404" /\ kind \notin {"onedrive", "webdav"} => Fails(Handle(a), a.code, a.body)
           /\ a.code = "409" /\ ~(kind = "dropbox" /\ call.stage = 0) => Fails(Handle(a), a.code, a.body)
<1> USE HandleIs DEF Success, Gather, Pages
<1>0. a.code # "207" => /\ Fails(Err(PlainText(a)), a.code, a.body)
                        /\ kind = "b2" => Fails(B2Error(a), a.code, a.body)
  BY HttpTexts DEF Http
<1>1. CASE kind \in {"s3", "s3_compat"}  BY <1>0, <1>1 DEF S3, S3List, S3ListWithSizes
<1>2. CASE kind = "azure"  BY <1>0, <1>2 DEF Azure, AzureList, AzureListWithSizes
<1>3. CASE kind = "gcs"  BY <1>0, <1>3 DEF Gcs, GcsList, GcsListWithSizes
<1>4. CASE kind = "b2"  BY <1>0, <1>4 DEF B2, B2List, Ops, OAuth
<1>5. CASE kind = "googledrive"  BY <1>0, <1>5 DEF Drive, DriveList, DriveListWithSizes
<1>6. CASE kind = "onedrive"  BY <1>0, <1>6 DEF OneDrive, OneDriveList, OneDriveListWithSizes, OneDriveListFolderChildren
<1>7. CASE kind = "dropbox"
  <2>1. CASE call.op = "list"  BY <1>0, <1>7, <2>1 DEF Dropbox, DropboxList, DropboxListFolderAll
  <2>2. CASE call.op = "listsizes"
    <3> DEFINE b == [a EXCEPT !.more = FALSE]
    <3>1. b.code = a.code /\ b.has = a.has /\ ~b.more /\ PlainText(b) = PlainText(a)
      BY DEF IsAnswer, PlainText
    <3>2. Handle(a) = DropboxListFolderAll(b, call)  BY <1>7, <2>2 DEF Dropbox, DropboxListWithSizes
    <3> HIDE DEF b
    <3> QED  BY <1>0, <1>7, <2>2, <3>1, <3>2 DEF DropboxListFolderAll
  <2> QED  BY <2>1, <2>2
<1>8. CASE kind = "webdav"
  <2>1. call.op = "list"  BY <1>8 DEF Ops, OAuth
  <2> QED  BY <1>0, <1>8, <2>1 DEF WebDav, WebDavList, WebDavPropfind, Ok, Err
<1> QED  BY <1>1, <1>2, <1>3, <1>4, <1>5, <1>6, <1>7, <1>8 DEF Http, Stores, OAuth

(* Only S3's probe can fail, and a cold object is no failure of it. *)
LEMMA HttpAccessible ==
    ASSUME NEW a, IsAnswer(a), kind \in {"s3", "azure", "b2"}, call.op = "accessible", a.code \notin {"202", "207"}
    PROVE  /\ Handle(a) \in {Ok({}), Ok({"there"})} \/ (kind = "s3" /\ Fails(Handle(a), a.code, a.body))
           /\ Handle(a) = Ok({}) => a.body # {} \/ "cold" \in a.has
           /\ Handle(a).tag = "err" => a.body # {"invalidobjectstate"}
<1> USE HandleIs
<1>1. CASE kind = "s3"
  <2>1. CASE a.code = "206"
    <3>1. Handle(a) = Ok({"there"})  BY <1>1, <2>1 DEF S3, S3ProbePackAccessible, S3GetRange, Ok, Err
    <3> QED  BY <3>1, <1>1 DEF Ok
  <2>2. CASE a.code # "206"
    <3>1. Fails(Err(Text(a)), a.code, a.body)  BY <1>1, <2>2, HttpTexts DEF Http, Stores
    <3>2. "invalidobjectstate" \in Text(a) <=> a.body = {"invalidobjectstate"}
      <4>1. "invalidobjectstate" \notin StatusLine(a.code)
        BY SaysLine, IsAnswer(a), <1>1 DEF IsAnswer, HttpCodes, Codes, Says, Archived, Http, Stores
      <4>2. "invalidobjectstate" \notin IdCodes  BY IdCodesAssumption
      <4>3. "invalidobjectstate" \in a.body <=> a.body = {"invalidobjectstate"}  BY DEF IsAnswer, Bodies
      <4> QED  BY <4>1, <4>2, <4>3 DEF Text, PlainText
    <3>3. Handle(a) = IF "invalidobjectstate" \in Text(a) THEN Ok({}) ELSE Err(Text(a))
      BY <1>1, <2>2 DEF S3, S3ProbePackAccessible, S3GetRange, Ok, Err
    <3>4. CASE "invalidobjectstate" \in Text(a)  BY <3>2, <3>3, <3>4 DEF Ok
    <3>5. CASE "invalidobjectstate" \notin Text(a)  BY <1>1, <3>1, <3>2, <3>3, <3>5 DEF Ok, Err
    <3> QED  BY <3>4, <3>5
  <2> QED  BY <2>1, <2>2
<1>2. CASE kind = "azure"
  <2>1. Handle(a) = Ok(IF AzureProbeArchived(a) THEN {} ELSE {"there"})
    BY <1>2 DEF Azure, AzureProbePackAccessible
  <2>2. CASE AzureProbeArchived(a)  BY <2>1, <2>2 DEF AzureProbeArchived, Ok
  <2>3. CASE ~AzureProbeArchived(a)  BY <2>1, <2>3 DEF Ok
  <2> QED  BY <2>2, <2>3
<1>3. CASE kind = "b2"
  <2>1. Handle(a) = Ok({"there"})  BY <1>3 DEF B2, B2ProbePackAccessible
  <2> QED  BY <2>1 DEF Ok
<1> QED  BY <1>1, <1>2, <1>3

LEMMA HttpInitiate ==
    ASSUME NEW a, IsAnswer(a), kind \in {"s3", "azure", "b2"}, call.op = "initiate", a.code \notin {"206", "207"}
    PROVE  Handle(a) = Ok({}) \/ Fails(Handle(a), a.code, a.body)
<1>0. a.code # "202" => Fails(Err(Text(a)), a.code, a.body)  BY HttpTexts DEF Http, Stores
<1> QED  BY <1>0, HandleIs DEF S3, S3InitiateRestore, Azure, AzureSetTier, B2, B2InitiatePackRestore

(* B2's authorisation, and the look at its bucket. *)
LEMMA B2Builds ==
    ASSUME NEW a, IsAnswer(a), kind = "b2", call.op = "build", a.code \notin {"202", "206", "207"}
    PROVE  /\ a.code = "200" /\ call.stage = 0 => Handle(a) = More(1, {})
           /\ a.code = "200" /\ call.stage # 0 => (Handle(a) = Ok({}) /\ "there" \in a.has) \/ Fails(Handle(a), "404", {})
           /\ a.code # "200" => Fails(Handle(a), a.code, a.body)
<1>1. Fails(B2Error(a), a.code, a.body)  BY HttpTexts DEF Http, Stores
<1> QED  BY <1>1, PhraseTells DEF Handle, B2Authorize

(* The same of the backends that are file systems. *)
LEMMA FileTexts ==
    ASSUME NEW a, IsAnswer(a), kind \in Files, a.code # "ok"
    PROVE  Fails(Err(FileText(a)), FileCode(a.code), {})
BY FileFails DEF IsAnswer

LEMMA FileGet ==
    ASSUME NEW a, IsAnswer(a), kind \in Files, call.op \in {"get", "range"}
    PROVE  /\ a.code = "ok" => Handle(a) = Ok(a.has)
           /\ a.code # "ok" => \/ Fails(Handle(a), FileCode(a.code), {})
                               \/ kind = "sftp" /\ call.stage # 2 /\ Handle(a) = More(call.stage + 1, {})
<1> USE HandleIs, FileTexts DEF FileRead
<1>1. CASE kind = "sftp"
  <2>1. Handle(a) = SftpGet(a, call)  BY <1>1 DEF Sftp, SftpGetRange
  <2>2. CASE a.code = "ok"  BY <2>1, <2>2 DEF SftpGet, Ok
  <2>3. CASE a.code # "ok"  BY <1>1, <2>1, <2>3 DEF SftpGet
  <2> QED  BY <2>2, <2>3
<1>2. CASE kind = "local"  BY <1>2 DEF Local, LocalGet, LocalGetRange
<1>3. CASE kind \in {"smb", "smb_direct"}  BY <1>3 DEF Smb, SmbGet, SmbGetRange
<1> QED  BY <1>1, <1>2, <1>3 DEF Files

LEMMA FileStats ==
    ASSUME NEW a, IsAnswer(a), kind \in Files, call.op \in {"size", "hash"}, call.op \in Ops(kind)
    PROVE  /\ a.code = "ok" => Handle(a) = Ok(IF call.op = "size" THEN {"size"} ELSE {"size", "hash"})
           /\ a.code # "ok" => Fails(Handle(a), FileCode(a.code), {})
<1> USE HandleIs, FileTexts DEF FileStat
<1>1. CASE kind = "sftp"
  <2>1. call.op = "size"  BY <1>1 DEF Ops, OAuth
  <2> QED  BY <1>1, <2>1 DEF Sftp, SftpSize
<1>2. CASE kind = "local"  BY <1>2 DEF Local, LocalSize, LocalHeadWithHash
<1>3. CASE kind \in {"smb", "smb_direct"}  BY <1>3 DEF Smb, SmbSize, SmbHeadWithHash
<1> QED  BY <1>1, <1>2, <1>3 DEF Files

LEMMA FileExists ==
    ASSUME NEW a, IsAnswer(a), kind \in Files, call.op = "exists"
    PROVE  /\ a.code = "ok" => Handle(a) = Ok({"there"})
           /\ a.code # "ok" => \/ Handle(a) = Ok({})
                               \/ a.code # "enoent" /\ Fails(Handle(a), FileCode(a.code), {})
<1> USE HandleIs, FileTexts
<1>1. CASE kind = "sftp"  BY <1>1 DEF Sftp, SftpExists
<1>2. CASE kind = "local"  BY <1>2 DEF Local, LocalExists
<1>3. CASE kind \in {"smb", "smb_direct"}  BY <1>3 DEF Smb, SmbExists
<1> QED  BY <1>1, <1>2, <1>3 DEF Files

(* The probe of a file backend tells an endpoint that is not there, but for *)
(* SFTP's, which is content with one it can ask.                            *)
LEMMA FileProbe ==
    ASSUME NEW a, IsAnswer(a), kind \in Files, call.op = "probe"
    PROVE  /\ Handle(a).tag = "ok" => /\ a.code = "ok" \/ (kind = "sftp" /\ a.code = "enoent")
                                      /\ Handle(a) \in {Ok({}), Ok({"there"})}
           /\ Handle(a).tag # "ok" => \E code \in Codes : Fails(Handle(a), code, {})
<1> USE HandleIs, FileTexts, PhraseTells
<1>0. a.code # "ok" => FileCode(a.code) \in Codes
  BY DEF FileCode, IsAnswer, Codes
<1>a. \A t : Ok(t).tag = "ok" /\ Err(t).tag = "err"  BY DEF Ok, Err
<1>1. CASE kind = "sftp"  BY <1>0, <1>1, <1>a DEF Sftp, SftpExists
<1>2. CASE kind = "local"  BY <1>0, <1>2, <1>a DEF Local, LocalProbe, NotFound, Codes
<1>3. CASE kind \in {"smb", "smb_direct"}
  <2>1. Handle(a) = SmbProbe(a, kind)  BY <1>3 DEF Smb
  <2>2. CASE a.code = "ok"  BY <2>1, <2>2, <1>a DEF SmbProbe
  <2>3. CASE a.code # "ok" /\ kind = "smb"  BY <2>1, <2>3, <1>a DEF SmbProbe, Codes
  <2>4. CASE a.code # "ok" /\ kind # "smb"  BY <2>1, <2>4, <1>0, <1>a DEF SmbProbe
  <2> QED  BY <2>2, <2>3, <2>4
<1> QED  BY <1>1, <1>2, <1>3 DEF Files

LEMMA FileList ==
    ASSUME NEW a, IsAnswer(a), kind \in Files, call.op = "list"
    PROVE  \/ Handle(a) \in {Ok({}), Ok(call.got)} /\ a.code # "ok"
           \/ kind = "smb_direct" /\ call.stage = 0 /\ a.code = "ok" /\ Handle(a) = More(1, {})
           \/ /\ a.code = "ok" /\ ~(kind = "smb_direct" /\ call.stage = 0)
              /\ Handle(a) = IF a.more THEN Handle(a) ELSE Ok(call.got \cup a.has)
              /\ a.more => \E n \in {1, call.stage} : Handle(a) = More(n, call.got \cup a.has)
           \/ Fails(Handle(a), FileCode(a.code), {}) /\ a.code # "ok"
<1> USE HandleIs, FileTexts DEF Walk
<1>1. CASE kind = "sftp"  BY <1>1 DEF Sftp, SftpList, SftpConnect, Ok, Err
<1>2. CASE kind = "local"  BY <1>2 DEF Local, LocalList
<1>3. CASE kind \in {"smb", "smb_direct"}  BY <1>3 DEF Smb, SmbMountedList, SmbDirectList
<1> QED  BY <1>1, <1>2, <1>3 DEF Files

-----------------------------------------------------------------------------
(* What the server can answer. *)
Meets(a, broken) ==
    \/ a = Honest /\ Accepted
    \/ a = Refusal /\ ~Accepted
    \/ a \in Faulty /\ broken

(* The endpoint is one of those looked at, with its kind's states. *)
LEMMA WorldIs ==
    ASSUME world \in Worlds
    PROVE  /\ Typed(world) /\ kind \in Http \cup Files /\ job \in Jobs(kind)
           /\ \A n \in Names : State(n) \in {"good", "bent", "bad", "absent", "cold"}
           /\ \A n : State(n) \in {"good", "bent", "bad", "absent", "cold"}
           /\ \A n : State(n) = "cold" => kind \in Tiered
           /\ world.meta \subseteq {"size", "hash"}
           /\ root \in BOOLEAN => \A n : Present(n) \in BOOLEAN
<1>1. Typed(world)  BY StorageCallsAssumption
<1>2. \A n : State(n) \in {"good", "bent", "bad", "absent", "cold"}  BY <1>1 DEF Typed, State
<1>3. \A n : State(n) = "cold" => kind \in Tiered  BY <1>1 DEF Typed, State, kind
<1>4. kind \in Http \cup Files /\ job \in Jobs(kind) /\ world.meta \subseteq {"size", "hash"}
  BY <1>1 DEF Typed, kind, job
<1> QED  BY <1>1, <1>2, <1>3, <1>4 DEF Present

(* A file system is not behind HTTP. *)
LEMMA KindsDiffer ==
    /\ kind \in Files => kind \notin Http
    /\ kind \in Files \/ kind \in Stores \/ kind \in OAuth \/ kind = "webdav" \/ kind \notin Http \cup Files
    /\ kind \in Tiered => kind \in Stores
BY DEF Files, Http, Stores, OAuth, Tiered

(* The answers of the server, laid out. *)
LEMMA RefusalIs ==
    ASSUME kind \in Http \cup Files
    PROVE  /\ Refusal = Answer(Refusal.code, {})
           /\ kind \in Http => Refusal.code \in {"401", "403"}
           /\ kind \in Http => (Refusal.code = "401" <=> kind \notin {"s3", "s3_compat", "azure"})
           /\ kind \in Files => Refusal.code \in {"denied", "drop"}
<1> USE DEF Refusal, Answer, Files, Http, Stores, OAuth
<1>1. CASE kind = "sftp"  BY <1>1
<1>2. CASE kind \in Files \ {"sftp"}  BY <1>2
<1>3. CASE kind \in {"s3", "s3_compat", "azure"}  BY <1>3
<1>4. CASE kind \in Http \ {"s3", "s3_compat", "azure"}  BY <1>4
<1> QED  BY <1>1, <1>2, <1>3, <1>4

LEMMA FaultyIs ==
    ASSUME kind \in Http \cup Files, NEW a \in Faulty
    PROVE  /\ a = Answer(a.code, {})
           /\ kind \in Http => \/ a.code \in {"drop", "429", "503"}
                               \/ a.code = "cut" /\ Request(call.op, call.stage) \in {"read", "page", "find"}
                               \/ a.code = "207" /\ kind = "webdav" /\ Request(call.op, call.stage) = "page"
           /\ kind \in Files => a.code \in {"refused", "drop"}
<1>1. CASE kind = "sftp"  BY <1>1 DEF Faulty, Answer, Files, Http, Stores, OAuth
<1>2. CASE kind \in Files \ {"sftp"}  BY <1>2 DEF Faulty, Answer, Files, Http, Stores, OAuth
<1>3. CASE kind \in Http  BY <1>3 DEF Faulty, Answer, Files, Http, Stores, OAuth
<1> QED  BY <1>1, <1>2, <1>3

LEMMA HonestIs ==
    LET req == Request(call.op, call.stage)
        IfThere(a) == IF Target THEN a ELSE Answer(No, {}) IN
    /\ req = "authorize" => Honest = Answer("200", {})
    /\ req = "buckets" => Honest = Answer("200", IF root THEN {"there"} ELSE {})
    /\ req = "find" => Honest = Answer("200", IF Target /\ call.op # "probe" THEN Props(call.arg) ELSE {})
    /\ req = "page" =>
         Honest = IfThere([Answer(IF kind = "webdav" THEN "207" ELSE Yes, Page) EXCEPT !.more = call.page = 1])
    /\ req = "head" => Honest = IfThere(Answer(Yes, Props(call.arg)))
    /\ req = "read" => Honest = IfThere(Contents)
    /\ req = "post" => Honest = IfThere(Answer("202", {}))
BY DEF Honest

LEMMA AnswerIs ==
    ASSUME NEW a, NEW code, NEW has, a = Answer(code, has)
    PROVE  /\ a.code = code /\ a.has = has /\ a.body = {} /\ a.more = FALSE
           /\ code \in HttpCodes /\ kind \in Http => IsAnswer(a)
           /\ code \in {"ok", "enoent", "refused", "denied", "drop"} /\ kind \in Files => IsAnswer(a)
<1>1. DOMAIN a = {"code", "has", "body", "more"}  BY DEF Answer
<1>2. a.code = code /\ a.has = has /\ a.body = {} /\ a.more = FALSE
  BY DEF Answer
<1>3. kind \in Http => kind \notin Files  BY DEF Http, Files, Stores, OAuth
<1> QED  BY <1>1, <1>2, <1>3 DEF IsAnswer, Bodies, HttpCodes

LEMMA YesNo ==
    /\ kind \in Http => Yes = "200" /\ No \in {"404", "409"} /\ (No = "409" <=> kind = "dropbox")
    /\ kind \in Files => Yes = "ok" /\ No = "enoent"
BY DEF Yes, No, Http, Files, Stores, OAuth

LEMMA ColdIs ==
    ASSUME kind \in Tiered
    PROVE  /\ IsAnswer(Cold) /\ Cold.body # {} /\ Cold.code \in {"403", "409"}
           /\ kind = "s3" => Cold.body = {"invalidobjectstate"}
BY DEF Cold, Answer, IsAnswer, Bodies, Tiered, HttpCodes, Http, Files, Stores, OAuth

(* Of a refusal and of a failure only the status matters. *)
LEMMA HttpRefuses ==
    ASSUME kind \in Http, NEW a, a = Refusal
    PROVE  IsAnswer(a) /\ a.code \in {"401", "403"} /\ a.body = {} /\ a.has = {} /\ ~a.more
<1>1. kind \in Http \cup Files  OBVIOUS
<1>2. a = Answer(a.code, {})  BY <1>1, RefusalIs
<1>3. a.code \in {"401", "403"}  BY <1>1, RefusalIs
<1>4. a.code \in HttpCodes  BY <1>3 DEF HttpCodes
<1>5. IsAnswer(a)  BY <1>2, <1>4, AnswerIs, Zenon
<1>6. a.body = {} /\ a.has = {} /\ ~a.more  BY <1>2 DEF Answer
<1> QED  BY <1>3, <1>5, <1>6

(* What a failed request behind HTTP is answered with. *)
LEMMA HttpBreaks ==
    ASSUME kind \in Http, NEW a \in Faulty
    PROVE  /\ IsAnswer(a) /\ a.body = {} /\ a.has = {} /\ ~a.more
           /\ \/ a.code \in Outages
              \/ a.code = "207" /\ kind = "webdav" /\ Request(call.op, call.stage) = "page"
<1>1. kind \in Http \cup Files  OBVIOUS
<1>2. a = Answer(a.code, {})  BY <1>1, FaultyIs
<1>3. \/ a.code \in Outages
      \/ a.code = "207" /\ kind = "webdav" /\ Request(call.op, call.stage) = "page"
  BY <1>1, FaultyIs DEF Outages
<1>4. a.code \in HttpCodes  BY <1>3 DEF HttpCodes, Outages
<1>5. IsAnswer(a) /\ a.body = {} /\ a.has = {} /\ ~a.more  BY <1>2, <1>4, AnswerIs, Zenon
<1> QED  BY <1>3, <1>5

(* A read of an object behind HTTP. *)
LEMMA HttpReads ==
    ASSUME world \in Worlds, kind \in Http, NEW a, NEW broken, Meets(a, broken), Request(call.op, call.stage) = "read",
           call.op \in {"get", "range"}
    PROVE  /\ IsAnswer(a)
           /\ \/ a = Honest /\ Accepted /\ a.code = No /\ a.body = {} /\ ~Present(call.arg)
              \/ a = Honest /\ Accepted /\ a.body # {} /\ a.code \in {"403", "409"} /\ State(call.arg) = "cold" /\ Present(call.arg)
              \/ /\ a = Honest /\ Accepted /\ Present(call.arg) /\ State(call.arg) # "cold" /\ a.body = {}
                 /\ \/ call.op = "get" /\ a.code = "200" /\ a.has = {State(call.arg)}
                    \/ call.op = "range" /\ world.ranges /\ a.code = "206" /\ a.has = {State(call.arg)}
                    \/ call.op = "range" /\ ~world.ranges /\ a.code = "200" /\ a.has = {State(call.arg), "whole"}
              \/ a = Refusal /\ ~Accepted /\ a.code \in {"401", "403"} /\ a.body = {}
              \/ a.code \in Outages /\ a.body = {} /\ broken
<1>1. Target = Present(call.arg)  BY DEF Target
<1>2. kind \in Http \cup Files /\ kind \notin Files  BY KindsDiffer
<1>3. CASE a = Honest /\ Accepted
  <2>1. a = IF Present(call.arg) THEN Contents ELSE Answer(No, {})  BY <1>1, <1>3, HonestIs
  <2>2. CASE ~Present(call.arg)
    <3>1. a = Answer(No, {})  BY <2>1, <2>2
    <3>2. No \in HttpCodes  BY YesNo DEF HttpCodes
    <3>3. IsAnswer(a) /\ a.body = {}  BY <3>1, <3>2, AnswerIs, Zenon
    <3>4. a.code = No  BY <3>1 DEF Answer
    <3> QED  BY <1>3, <2>2, <3>3, <3>4
  <2>3. CASE Present(call.arg) /\ State(call.arg) = "cold"
    <3>1. a = Cold  BY <2>1, <2>3 DEF Contents
    <3> QED  BY <1>3, <2>3, <3>1, ColdIs, WorldIs
  <2>4. CASE Present(call.arg) /\ State(call.arg) # "cold"
    <3>1. a = Contents  BY <2>1, <2>4
    <3>2. CASE call.op = "get"
      <4>1. a = Answer("200", {State(call.arg)})  BY <1>2, <2>4, <3>1, <3>2, YesNo DEF Contents
      <4>2. "200" \in HttpCodes  BY DEF HttpCodes
      <4>3. IsAnswer(a)  BY <4>1, <4>2, AnswerIs, Zenon
      <4>4. a.code = "200" /\ a.has = {State(call.arg)} /\ a.body = {}  BY <4>1 DEF Answer
      <4> QED  BY <1>3, <2>4, <3>2, <4>3, <4>4
    <3>3. CASE call.op = "range" /\ world.ranges
      <4>1. a = Answer("206", {State(call.arg)})  BY <1>2, <2>4, <3>1, <3>3 DEF Contents
      <4>2. "206" \in HttpCodes  BY DEF HttpCodes
      <4>3. IsAnswer(a)  BY <4>1, <4>2, AnswerIs, Zenon
      <4>4. a.code = "206" /\ a.has = {State(call.arg)} /\ a.body = {}  BY <4>1 DEF Answer
      <4> QED  BY <1>3, <2>4, <3>3, <4>3, <4>4
    <3>4. CASE call.op = "range" /\ ~world.ranges
      <4>1. a = Answer("200", {State(call.arg), "whole"})  BY <1>2, <2>4, <3>1, <3>4 DEF Contents
      <4>2. "200" \in HttpCodes  BY DEF HttpCodes
      <4>3. IsAnswer(a)  BY <4>1, <4>2, AnswerIs, Zenon
      <4>4. a.code = "200" /\ a.has = {State(call.arg), "whole"} /\ a.body = {}  BY <4>1 DEF Answer
      <4> QED  BY <1>3, <2>4, <3>4, <4>3, <4>4
    <3> QED  BY <3>2, <3>3, <3>4
  <2> QED  BY <2>2, <2>3, <2>4
<1>4. CASE a = Refusal /\ ~Accepted
  BY <1>4, HttpRefuses
<1>5. CASE a \in Faulty /\ broken
  BY <1>5, HttpBreaks
<1> QED  BY <1>3, <1>4, <1>5 DEF Meets

(* Google Drive's search for the file to read. *)
LEMMA DriveFinds ==
    ASSUME world \in Worlds, kind = "googledrive", NEW a, NEW broken, Meets(a, broken), call.op \in {"get", "range"}, call.stage = 0
    PROVE  /\ IsAnswer(a)
           /\ \/ a = Honest /\ Accepted /\ a.code = "200" /\ a.body = {} /\ (Present(call.arg) <=> "there" \in a.has)
              \/ a = Refusal /\ ~Accepted /\ a.code \in {"401", "403"} /\ a.body = {}
              \/ a.code \in Outages /\ a.body = {} /\ broken
<1>0. kind \in Http /\ Request(call.op, call.stage) = "find"  BY DEF Http, OAuth, Request
<1>1. CASE a = Honest /\ Accepted
  <2>1. a = Answer("200", IF Present(call.arg) THEN Props(call.arg) ELSE {})
    BY <1>0, <1>1, HonestIs DEF Target
  <2>2. IsAnswer(a)  BY <1>0, <2>1, AnswerIs, Zenon DEF HttpCodes
  <2>3. a.code = "200" /\ a.has = (IF Present(call.arg) THEN Props(call.arg) ELSE {}) /\ a.body = {}
    BY <2>1 DEF Answer
  <2>4. "there" \in Props(call.arg)  BY DEF Props
  <2> QED  BY <1>1, <2>2, <2>3, <2>4
<1>2. CASE a = Refusal /\ ~Accepted  BY <1>0, <1>2, HttpRefuses
<1>3. CASE a \in Faulty /\ broken  BY <1>0, <1>3, HttpBreaks
<1> QED  BY <1>1, <1>2, <1>3 DEF Meets

(* A look at an object, by a request for its headers or by a search. *)
LEMMA HttpLooks ==
    ASSUME world \in Worlds, kind \in Http, NEW a, NEW broken, Meets(a, broken), call.op \in {"exists", "size", "hash", "probe"}
    PROVE  /\ IsAnswer(a)
           /\ \/ a = Honest /\ Accepted /\ Target /\ a.code = "200" /\ a.body = {} /\ "there" \in a.has /\ world.meta \subseteq a.has
              \/ /\ a = Honest /\ Accepted /\ a.code = "200" /\ a.body = {} /\ kind \in {"b2", "googledrive"}
                 /\ "there" \notin a.has /\ (Target => call.op = "probe")
              \/ a = Honest /\ Accepted /\ ~Target /\ a.code = No /\ a.body = {} /\ kind \notin {"b2", "googledrive"}
              \/ a = Refusal /\ ~Accepted /\ a.code \in {"401", "403"} /\ a.body = {}
              \/ a.code \in Outages /\ a.body = {} /\ broken
<1>0. kind \notin Files  BY KindsDiffer
<1>1. Request(call.op, call.stage) = IF kind \in {"b2", "googledrive"} THEN "find" ELSE "head"
  BY <1>0 DEF Request
<1>a. "there" \in Props(call.arg) /\ world.meta \subseteq Props(call.arg)  BY DEF Props
<1>2. CASE a = Honest /\ Accepted
  <2>1. CASE kind \in {"b2", "googledrive"}
    <3>1. a = Answer("200", IF Target /\ call.op # "probe" THEN Props(call.arg) ELSE {})
      BY <1>1, <1>2, <2>1, HonestIs
    <3>2. IsAnswer(a)  BY <3>1, AnswerIs, Zenon DEF HttpCodes
    <3>3. a.code = "200" /\ a.has = (IF Target /\ call.op # "probe" THEN Props(call.arg) ELSE {}) /\ a.body = {}
      BY <3>1 DEF Answer
    <3> QED  BY <1>2, <1>a, <2>1, <3>2, <3>3
  <2>2. CASE kind \notin {"b2", "googledrive"} /\ Target
    <3>1. a = Answer("200", Props(call.arg))  BY <1>1, <1>2, <2>2, HonestIs, YesNo
    <3>2. IsAnswer(a)  BY <3>1, AnswerIs, Zenon DEF HttpCodes
    <3>3. a.code = "200" /\ a.has = Props(call.arg) /\ a.body = {}  BY <3>1 DEF Answer
    <3> QED  BY <1>2, <1>a, <2>2, <3>2, <3>3
  <2>3. CASE kind \notin {"b2", "googledrive"} /\ ~Target
    <3>1. a = Answer(No, {})  BY <1>1, <1>2, <2>3, HonestIs
    <3>2. No \in HttpCodes  BY YesNo DEF HttpCodes
    <3>3. IsAnswer(a)  BY <3>1, <3>2, AnswerIs, Zenon
    <3>4. a.code = No /\ a.body = {}  BY <3>1 DEF Answer
    <3> QED  BY <1>2, <2>3, <3>3, <3>4
  <2> QED  BY <2>1, <2>2, <2>3
<1>3. CASE a = Refusal /\ ~Accepted  BY <1>3, HttpRefuses
<1>4. CASE a \in Faulty /\ broken  BY <1>1, <1>4, HttpBreaks
<1> QED  BY <1>2, <1>3, <1>4 DEF Meets

(* A page of a listing. *)
LEMMA HttpPages ==
    ASSUME world \in Worlds, kind \in Http, NEW a, NEW broken, Meets(a, broken), call.op \in {"list", "listsizes"}
    PROVE  /\ IsAnswer(a)
           /\ \/ /\ a = Honest /\ Accepted /\ root /\ a.code = (IF kind = "webdav" THEN "207" ELSE "200")
                 /\ a.body = {} /\ a.has = Page /\ (a.more <=> call.page = 1)
              \/ a = Honest /\ Accepted /\ ~root /\ a.code = No /\ a.body = {} /\ ~a.more
              \/ a = Refusal /\ ~Accepted /\ a.code \in {"401", "403"} /\ a.body = {}
              \/ a.code \in Outages /\ a.body = {} /\ broken
              \/ a.code = "207" /\ kind = "webdav" /\ a.has = {} /\ ~a.more /\ broken
<1>1. Request(call.op, call.stage) = "page"  BY DEF Request, Http, Stores, OAuth
<1>2. Target = root  BY DEF Target
<1>3. CASE a = Honest /\ Accepted
  <2>1. CASE root
    <3> DEFINE b == Answer(IF kind = "webdav" THEN "207" ELSE "200", Page)
    <3>1. a = [b EXCEPT !.more = call.page = 1]  BY <1>1, <1>2, <1>3, <2>1, HonestIs, YesNo
    <3>2. a = [code |-> IF kind = "webdav" THEN "207" ELSE "200", has |-> Page, body |-> {}, more |-> call.page = 1]
      BY <3>1 DEF Answer
    <3>3. IsAnswer(a)
      <4>1. DOMAIN a = {"code", "has", "body", "more"} /\ a.body = {} /\ a.code \in HttpCodes /\ a.more = (call.page = 1)
        BY <3>2 DEF HttpCodes
      <4> QED  BY <4>1, KindsDiffer DEF IsAnswer, Bodies
    <3>4. a.code = (IF kind = "webdav" THEN "207" ELSE "200") /\ a.body = {} /\ a.has = Page /\ (a.more <=> call.page = 1)
      BY <3>2
    <3> QED  BY <1>3, <2>1, <3>3, <3>4
  <2>2. CASE ~root
    <3>1. a = Answer(No, {})  BY <1>1, <1>2, <1>3, <2>2, HonestIs
    <3>2. No \in HttpCodes  BY YesNo DEF HttpCodes
    <3>3. IsAnswer(a)  BY <3>1, <3>2, AnswerIs, Zenon
    <3>4. a.code = No /\ a.body = {} /\ ~a.more  BY <3>1 DEF Answer
    <3> QED  BY <1>3, <2>2, <3>3, <3>4
  <2> QED  BY <2>1, <2>2
<1>4. CASE a = Refusal /\ ~Accepted  BY <1>4, HttpRefuses
<1>5. CASE a \in Faulty /\ broken  BY <1>5, HttpBreaks
<1> QED  BY <1>3, <1>4, <1>5 DEF Meets

(* A probe of S3's, Azure's and B2's archive tiers, and the request that   *)
(* gets an object out of one.                                              *)
LEMMA HttpThaws ==
    ASSUME world \in Worlds, kind \in {"s3", "azure", "b2"}, NEW a, NEW broken, Meets(a, broken), call.op \in {"accessible", "initiate"}
    PROVE  /\ IsAnswer(a)
           /\ call.op = "accessible" => a.code \notin {"202", "207"}
           /\ call.op = "initiate" => a.code \notin {"206", "207"}
           /\ \/ a = Honest /\ Accepted /\ (~Present(call.arg) => a.code = No)
                 /\ (a.body # {} \/ "cold" \in a.has => State(call.arg) = "cold")
                 /\ (kind = "s3" /\ a.body # {} => a.body = {"invalidobjectstate"})
                 /\ (Present(call.arg) => a.code # "404") /\ (a.body = {} => a.code \notin {"401", "403"})
              \/ a = Refusal /\ ~Accepted /\ a.code \in {"401", "403"} /\ a.body = {} /\ a.has = {}
              \/ a.code \in Outages /\ a.body = {} /\ a.has = {} /\ broken
<1>0. kind \in Http /\ Target = Present(call.arg)  BY DEF Http, Stores, Target
<1>1. /\ call.op = "accessible" => Request(call.op, call.stage) = IF kind = "azure" THEN "head" ELSE "read"
      /\ call.op = "initiate" => Request(call.op, call.stage) = "post"
  BY DEF Request
<1>2. CASE a = Honest /\ Accepted
  <2>1. CASE ~Present(call.arg)
    <3>1. a = Answer(No, {})  BY <1>0, <1>1, <1>2, <2>1, HonestIs
    <3>2. No \in HttpCodes /\ No \in {"404", "409"}  BY <1>0, YesNo DEF HttpCodes
    <3>3. IsAnswer(a)  BY <1>0, <3>1, <3>2, AnswerIs, Zenon
    <3>4. a.code = No /\ a.body = {} /\ a.has = {}  BY <3>1 DEF Answer
    <3> QED  BY <1>2, <2>1, <3>2, <3>3, <3>4
  <2>2. CASE Present(call.arg) /\ call.op = "initiate"
    <3>1. a = Answer("202", {})  BY <1>0, <1>1, <1>2, <2>2, HonestIs
    <3>2. IsAnswer(a)  BY <1>0, <3>1, AnswerIs, Zenon DEF HttpCodes
    <3>3. a.code = "202" /\ a.body = {} /\ a.has = {}  BY <3>1 DEF Answer
    <3> QED  BY <1>2, <2>2, <3>2, <3>3
  <2>3. CASE Present(call.arg) /\ call.op = "accessible" /\ kind = "azure"
    <3>1. a = Answer("200", Props(call.arg))  BY <1>0, <1>1, <1>2, <2>3, HonestIs, YesNo
    <3>2. IsAnswer(a)  BY <1>0, <3>1, AnswerIs, Zenon DEF HttpCodes
    <3>3. a.code = "200" /\ a.has = Props(call.arg) /\ a.body = {}  BY <3>1 DEF Answer
    <3>4. "cold" \in Props(call.arg) => State(call.arg) = "cold"  BY WorldIs DEF Props
    <3> QED  BY <1>2, <2>3, <3>2, <3>3, <3>4
  <2>4. CASE Present(call.arg) /\ call.op = "accessible" /\ kind # "azure"
    <3>1. a = Contents  BY <1>0, <1>1, <1>2, <2>4, HonestIs
    <3>2. kind \notin Files  BY <1>0, KindsDiffer
    <3>3. CASE State(call.arg) = "cold"
      <4>1. a = Cold /\ kind \in Tiered  BY <3>1, <3>3, WorldIs DEF Contents
      <4> QED  BY <1>2, <2>4, <3>3, <4>1, ColdIs
    <3>4. CASE State(call.arg) # "cold"
      <4> DEFINE code == IF world.ranges THEN "206" ELSE "200"
                 has == IF world.ranges THEN {State(call.arg)} ELSE {State(call.arg), "whole"}
      <4>1. a = Answer(code, has)  BY <2>4, <3>1, <3>2, <3>4 DEF Contents
      <4>2. code \in HttpCodes /\ code \notin {"202", "207", "401", "403", "404"}  BY DEF HttpCodes
      <4>3. "cold" \notin has  BY <3>4
      <4> HIDE DEF code, has
      <4>4. IsAnswer(a)  BY <1>0, <4>1, <4>2, AnswerIs, Zenon
      <4>5. a.code = code /\ a.has = has /\ a.body = {}  BY <4>1 DEF Answer
      <4> QED  BY <1>2, <2>4, <4>2, <4>3, <4>4, <4>5
    <3> QED  BY <3>3, <3>4
  <2> QED  BY <2>1, <2>2, <2>3, <2>4
<1>3. CASE a = Refusal /\ ~Accepted
  <2>1. IsAnswer(a) /\ a.code \in {"401", "403"} /\ a.body = {} /\ a.has = {}  BY <1>0, <1>3, HttpRefuses
  <2> QED  BY <1>3, <2>1
<1>4. CASE a \in Faulty /\ broken
  <2>1. IsAnswer(a) /\ a.body = {} /\ a.has = {} /\ a.code \in Outages  BY <1>0, <1>4, HttpBreaks
  <2> QED  BY <1>4, <2>1 DEF Outages
<1> QED  BY <1>2, <1>3, <1>4 DEF Meets

-----------------------------------------------------------------------------
(* What the results of an operation on an object tell of the endpoint.     *)
Values == Names \cup {"good", "bent", "bad", "whole", "there", "size", "hash"}

(* Why an operation that an endpoint with the object's present state has   *)
(* answered can fail.                                                      *)
Reason(op, n) ==
    \/ op \in {"get", "range"} /\ (~Held(n) \/ State(n) = "cold")
    \/ op = "range" /\ ~world.ranges
    \/ op = "size" /\ (~Held(n) \/ "size" \notin world.meta)
    \/ op = "hash" /\ (~Held(n) \/ ~({"size", "hash"} \subseteq world.meta))
    \/ op \in {"accessible", "initiate", "probe"}

(* fits is whether the endpoint accepts what the call identifies itself by. *)
Why(op, n, code, body, fits) ==
    /\ body # {} => State(n) = "cold"
    /\ body = {} /\ code \in {"404", "enoent"} => ~Held(n) \/ Unmounted \/ op = "probe"
    /\ code \in {"401", "403"} /\ body = {} => ~fits
    /\ op \in {"get", "range"} /\ Held(n) /\ State(n) = "cold" /\ fits => body # {} \/ code \in Outages
    /\ kind \in Http /\ fits => code \in Outages \/ Reason(op, n)

(* broken is whether a request of the call failed. *)
Gives(op, n, val, broken, fits) ==
    /\ val \subseteq Values
    /\ op \in {"get", "range", "size", "hash"} => Held(n)
    /\ op \in {"get", "range"} =>
         val = {State(n)} \/ (op = "range" /\ val = {State(n), "whole"} /\ ~world.ranges /\ kind \in OAuth \cup {"b2"})
    /\ op = "exists" /\ val = {} =>
         ~Held(n) \/ Unmounted \/ (kind \in Files \cup {"onedrive", "dropbox"} /\ (broken \/ ~fits))
    /\ op = "accessible" /\ val = {} => State(n) = "cold"

(* A result that tells the truth of the object: a value it has, or an      *)
(* error for a reason.                                                     *)
Told(op, n, r, broken, fits) ==
    \/ r = Ok(r.val) /\ Gives(op, n, r.val, broken, fits)
    \/ \E code \in Codes, body \in Bodies : Fails(r, code, body) /\ Why(op, n, code, body, fits)

LEMMA ToldOk ==
    ASSUME NEW op, NEW n, NEW val, NEW broken, NEW fits, Gives(op, n, val, broken, fits)
    PROVE  Told(op, n, Ok(val), broken, fits)
BY DEF Told, Ok

LEMMA ToldErr ==
    ASSUME NEW op, NEW n, NEW r, NEW broken, NEW fits, NEW code \in Codes, NEW body \in Bodies,
           Fails(r, code, body), Why(op, n, code, body, fits)
    PROVE  Told(op, n, r, broken, fits)
BY DEF Told

(* An endpoint behind HTTP is where it was. *)
LEMMA HttpHeld ==
    ASSUME root = world.root, NEW n
    PROVE  Present(n) <=> Held(n)
BY DEF Present, Held

(* Every operation tells the truth of the object it is about, whether the  *)
(* endpoint is behind HTTP or a file system.                               *)
LEMMA HttpReadTold ==
    ASSUME world \in Worlds, kind \in Http, root \in BOOLEAN, root = world.root, NEW a, NEW broken, Meets(a, broken),
           call.op \in {"get", "range"}, NEW r, r = Handle(a)
    PROVE  \/ r = More(1, {}) /\ kind = "googledrive" /\ call.stage = 0
           \/ Told(call.op, call.arg, r, broken, Accepted)
<1>1. CASE kind = "googledrive" /\ call.stage = 0
  <2>1. IsAnswer(a)  BY <1>1, DriveFinds
  <2>2. CASE a = Honest /\ Accepted /\ a.code = "200" /\ a.body = {} /\ (Present(call.arg) <=> "there" \in a.has)
    <3>1. CASE "there" \in a.has  BY <1>1, <2>1, <2>2, <3>1, DriveSearch
    <3>2. CASE "there" \notin a.has
      <4>1. Fails(r, "404", {})  BY <1>1, <2>1, <2>2, <3>2, DriveSearch
      <4>2. ~Held(call.arg)  BY <2>2, <3>2, HttpHeld
      <4>3. Why(call.op, call.arg, "404", {}, Accepted)  BY <4>2 DEF Why, Reason
      <4> QED  BY <4>1, <4>3, ToldErr DEF Codes, Bodies
    <3> QED  BY <3>1, <3>2
  <2>3. CASE a.body = {} /\ ((a.code \in {"401", "403"} /\ ~Accepted) \/ a.code \in Outages)
    <3>1. a.code \in Codes /\ Meant(a.code) = a.code /\ a.code \notin {"200", "202", "206", "207"}
      BY <2>3 DEF Codes, Meant, Outages
    <3>2. Fails(r, a.code, {})  BY <1>1, <2>1, <2>3, <3>1, DriveSearch
    <3>3. Why(call.op, call.arg, a.code, {}, Accepted)  BY <2>3 DEF Why, Outages
    <3> QED  BY <3>1, <3>2, <3>3, ToldErr DEF Bodies
  <2> QED  BY <1>1, <2>2, <2>3, DriveFinds
<1>2. CASE kind # "googledrive" \/ call.stage # 0
  <2>0. Request(call.op, call.stage) = "read"  BY <1>2 DEF Request
  <2>1. IsAnswer(a)  BY <2>0, HttpReads
  <2>2. CASE a.code = No /\ a.body = {} /\ ~Present(call.arg)
    <3>1. a.code \in {"404", "409"} /\ Meant(a.code) = "404"
      BY <2>2, YesNo DEF Meant
    <3>2. Fails(r, "404", {})
      <4>1. CASE call.op = "get"  BY <1>2, <2>1, <2>2, <3>1, <4>1, HttpGet
      <4>2. CASE call.op = "range"  BY <1>2, <2>1, <2>2, <3>1, <4>2, HttpRange
      <4> QED  BY <4>1, <4>2
    <3>3. Why(call.op, call.arg, "404", {}, Accepted)  BY <2>2, HttpHeld DEF Why, Reason
    <3> QED  BY <3>2, <3>3, ToldErr DEF Codes, Bodies
  <2>3. CASE a.body # {} /\ a.code \in {"403", "409"} /\ State(call.arg) = "cold" /\ Present(call.arg)
    <3>1. Meant(a.code) = a.code  BY <2>1, <2>3 DEF Meant, IsAnswer, Tiered
    <3>2. Fails(r, a.code, a.body)
      <4>1. CASE call.op = "get"  BY <1>2, <2>1, <2>3, <3>1, <4>1, HttpGet
      <4>2. CASE call.op = "range"  BY <1>2, <2>1, <2>3, <3>1, <4>2, HttpRange
      <4> QED  BY <4>1, <4>2
    <3>3. Why(call.op, call.arg, a.code, a.body, Accepted)  BY <2>3 DEF Why, Reason
    <3>4. a.code \in Codes /\ a.body \in Bodies  BY <2>1, <2>3 DEF Codes, IsAnswer
    <3> QED  BY <3>2, <3>3, <3>4, ToldErr
  <2>4. CASE /\ Present(call.arg) /\ State(call.arg) # "cold" /\ a.body = {}
             /\ \/ call.op = "get" /\ a.code = "200" /\ a.has = {State(call.arg)}
                \/ call.op = "range" /\ world.ranges /\ a.code = "206" /\ a.has = {State(call.arg)}
                \/ call.op = "range" /\ ~world.ranges /\ a.code = "200" /\ a.has = {State(call.arg), "whole"}
    <3>1. Held(call.arg) /\ State(call.arg) \in {"good", "bent", "bad"}
      BY <2>4, HttpHeld, WorldIs DEF Present
    <3>2. CASE r = Ok({State(call.arg)})
      <4>1. Gives(call.op, call.arg, {State(call.arg)}, broken, Accepted)  BY <3>1 DEF Gives, Values
      <4> QED  BY <3>2, <4>1, ToldOk
    <3>3. CASE call.op = "get"
      <4>1. r = Ok({State(call.arg)})  BY <1>2, <2>1, <2>4, <3>3, HttpGet
      <4> QED  BY <3>2, <4>1
    <3>4. CASE call.op = "range" /\ world.ranges
      <4>1. r = Ok({State(call.arg)})  BY <1>2, <2>1, <2>4, <3>4, HttpRange
      <4> QED  BY <3>2, <4>1
    <3>5. CASE call.op = "range" /\ ~world.ranges
      <4>1. a.code = "200" /\ a.has = {State(call.arg), "whole"}  BY <2>4, <3>5
      <4>2. CASE kind \in OAuth \cup {"b2"}
        <5>1. r = Ok({State(call.arg), "whole"})  BY <1>2, <2>1, <3>5, <4>1, <4>2, HttpRange
        <5>2. Gives(call.op, call.arg, {State(call.arg), "whole"}, broken, Accepted)
          BY <3>1, <3>5, <4>2 DEF Gives, Values
        <5> QED  BY <5>1, <5>2, ToldOk
      <4>3. CASE kind = "webdav"
        <5>1. r = Ok(a.has \ {"whole"})  BY <1>2, <2>1, <3>5, <4>1, <4>3, HttpRange
        <5>2. a.has \ {"whole"} = {State(call.arg)}  BY <3>1, <4>1
        <5> QED  BY <3>2, <5>1, <5>2
      <4>4. CASE kind \notin OAuth \cup {"b2", "webdav"}
        <5>1. Fails(r, "200", {})  BY <1>2, <2>1, <3>5, <4>1, <4>4, HttpRange
        <5>2. Why(call.op, call.arg, "200", {}, Accepted)  BY <3>1, <3>5 DEF Why, Reason
        <5> QED  BY <5>1, <5>2, ToldErr DEF Codes, Bodies
      <4> QED  BY <4>2, <4>3, <4>4
    <3> QED  BY <2>4, <3>3, <3>4, <3>5
  <2>5. CASE a.body = {} /\ ((a.code \in {"401", "403"} /\ ~Accepted) \/ a.code \in Outages)
    <3>1. a.code \in Codes /\ Meant(a.code) = a.code /\ a.code \notin {"200", "202", "206", "207"}
      BY <2>5 DEF Codes, Meant, Outages
    <3>2. Fails(r, a.code, {})
      <4>1. CASE call.op = "get"  BY <1>2, <2>1, <2>5, <3>1, <4>1, HttpGet
      <4>2. CASE call.op = "range"  BY <1>2, <2>1, <2>5, <3>1, <4>2, HttpRange
      <4> QED  BY <4>1, <4>2
    <3>3. Why(call.op, call.arg, a.code, {}, Accepted)  BY <2>5 DEF Why, Outages
    <3> QED  BY <3>1, <3>2, <3>3, ToldErr DEF Bodies
  <2> QED  BY <2>0, <2>2, <2>3, <2>4, <2>5, HttpReads
<1> QED  BY <1>1, <1>2

(* What a failed look at an object tells, whichever look it was. *)
LEMMA HttpLookFails ==
    ASSUME kind \in Http, NEW a, IsAnswer(a), a.body = {},
           (a.code \in {"401", "403"} /\ ~Accepted) \/ a.code \in Outages
    PROVE  /\ a.code \in Codes /\ Meant(a.code) = a.code
           /\ a.code \notin {"200", "202", "204", "206", "207", "404"}
           /\ \A op, n : Why(op, n, a.code, {}, Accepted)
BY DEF Codes, Meant, Outages, Why

LEMMA HttpStatTold ==
    ASSUME world \in Worlds, kind \in Http, root \in BOOLEAN, root = world.root, NEW a, NEW broken, Meets(a, broken),
           call.op \in {"size", "hash"}, call.op \in Ops(kind), NEW r, r = Handle(a)
    PROVE  Told(call.op, call.arg, r, broken, Accepted)
<1> DEFINE want == IF call.op = "size" THEN {"size"} ELSE {"size", "hash"}
<1>0. /\ Target <=> Held(call.arg)
      /\ IsAnswer(a)
      /\ call.op = "hash" => kind \in Http \ {"webdav"}
  BY HttpHeld, HttpLooks DEF Target, Ops
<1>1. CASE Target /\ a.code = "200" /\ a.body = {} /\ "there" \in a.has /\ world.meta \subseteq a.has
  <2>1. /\ r = Ok(want) \/ Fails(r, "200", {})
        /\ want \subseteq a.has => r = Ok(want)
    <3>1. CASE call.op = "size"  BY <1>0, <1>1, <3>1, HttpSize
    <3>2. CASE call.op = "hash"  BY <1>0, <1>1, <3>2, HttpHash
    <3> QED  BY <3>1, <3>2
  <2>2. CASE r = Ok(want)
    <3>1. Gives(call.op, call.arg, want, broken, Accepted)  BY <1>0, <1>1 DEF Gives, Values
    <3> QED  BY <2>2, <3>1, ToldOk
  <2>3. CASE Fails(r, "200", {}) /\ ~(want \subseteq a.has)
    <3>1. ~(want \subseteq world.meta)  BY <1>1, <2>3
    <3>2. Why(call.op, call.arg, "200", {}, Accepted)  BY <1>0, <1>1, <3>1 DEF Why, Reason
    <3> QED  BY <2>3, <3>2, ToldErr DEF Codes, Bodies
  <2> QED  BY <2>1, <2>2, <2>3
<1>2. CASE a.code = "200" /\ a.body = {} /\ kind \in {"b2", "googledrive"} /\ "there" \notin a.has /\ ~Target
  <2>1. Fails(r, "404", {})
    <3>1. CASE call.op = "size"  BY <1>0, <1>2, <3>1, HttpSize
    <3>2. CASE call.op = "hash"  BY <1>0, <1>2, <3>2, HttpHash
    <3> QED  BY <3>1, <3>2
  <2>2. Why(call.op, call.arg, "404", {}, Accepted)  BY <1>0, <1>2 DEF Why, Reason
  <2> QED  BY <2>1, <2>2, ToldErr DEF Codes, Bodies
<1>3. CASE ~Target /\ a.code = No /\ a.body = {}
  <2>1. a.code \in {"404", "409"} /\ Meant(a.code) = "404"  BY <1>3, YesNo DEF Meant
  <2>2. Fails(r, "404", {})
    <3>1. CASE call.op = "size"  BY <1>0, <1>3, <2>1, <3>1, HttpSize
    <3>2. CASE call.op = "hash"  BY <1>0, <1>3, <2>1, <3>2, HttpHash
    <3> QED  BY <3>1, <3>2
  <2>3. Why(call.op, call.arg, "404", {}, Accepted)  BY <1>0, <1>3 DEF Why, Reason
  <2> QED  BY <2>2, <2>3, ToldErr DEF Codes, Bodies
<1>4. CASE a.body = {} /\ ((a.code \in {"401", "403"} /\ ~Accepted) \/ a.code \in Outages)
  <2>1. Fails(r, a.code, {})
    <3>1. CASE call.op = "size"  BY <1>0, <1>4, <3>1, HttpLookFails, HttpSize
    <3>2. CASE call.op = "hash"  BY <1>0, <1>4, <3>2, HttpLookFails, HttpHash
    <3> QED  BY <3>1, <3>2
  <2> QED  BY <1>0, <1>4, <2>1, HttpLookFails, ToldErr DEF Bodies
<1> QED  BY <1>1, <1>2, <1>3, <1>4, HttpLooks

LEMMA HttpExistsTold ==
    ASSUME world \in Worlds, kind \in Http, root \in BOOLEAN, root = world.root, NEW a, NEW broken, Meets(a, broken),
           call.op = "exists", NEW r, r = Handle(a)
    PROVE  Told(call.op, call.arg, r, broken, Accepted)
<1>0. IsAnswer(a) /\ (Target <=> Held(call.arg))  BY HttpHeld, HttpLooks DEF Target
<1>a. ASSUME NEW val \in {{}, {"there"}}, r = Ok(val),
             val = {} => ~Held(call.arg) \/ (kind \in {"onedrive", "dropbox"} /\ (broken \/ ~Accepted))
      PROVE  Told(call.op, call.arg, r, broken, Accepted)
  <2>1. Gives(call.op, call.arg, val, broken, Accepted)  BY <1>a DEF Gives, Values
  <2> QED  BY <1>a, <2>1, ToldOk
<1>1. CASE Target /\ a.code = "200" /\ a.body = {} /\ "there" \in a.has
  <2>1. r = Ok({"there"})
    <3>1. r = Ok(IF kind \in {"b2", "googledrive"} THEN a.has \cap {"there"} ELSE {"there"})
      BY <1>0, <1>1, HttpExists
    <3>2. a.has \cap {"there"} = {"there"}  BY <1>1
    <3> QED  BY <3>1, <3>2
  <2> QED  BY <1>a, <2>1
<1>2. CASE a.code = "200" /\ a.body = {} /\ kind \in {"b2", "googledrive"} /\ "there" \notin a.has /\ ~Target
  <2>1. r = Ok({})
    <3>1. r = Ok(a.has \cap {"there"})  BY <1>0, <1>2, HttpExists
    <3>2. a.has \cap {"there"} = {}  BY <1>2
    <3> QED  BY <3>1, <3>2
  <2> QED  BY <1>0, <1>2, <1>a, <2>1
<1>3. CASE ~Target /\ a.code = No /\ a.body = {} /\ kind \notin {"b2", "googledrive"}
  <2>1. a.code \in {"404", "409"} /\ (a.code = "409" => kind = "dropbox")  BY <1>3, YesNo
  <2>2. r = Ok({})  BY <1>0, <1>3, <2>1, HttpExists
  <2> QED  BY <1>0, <1>3, <1>a, <2>2
<1>4. CASE a.body = {} /\ ((a.code \in {"401", "403"} /\ ~Accepted) \/ (a.code \in Outages /\ broken))
  <2>0. a.code \notin {"200", "202", "204", "206", "207", "404"}  BY <1>0, <1>4, HttpLookFails
  <2>1. CASE kind \in {"onedrive", "dropbox"} /\ a.code # "drop"
    <3>1. r = Ok({})  BY <1>0, <2>0, <2>1, HttpExists
    <3> QED  BY <1>4, <1>a, <2>1, <3>1
  <2>2. CASE ~(kind \in {"onedrive", "dropbox"} /\ a.code # "drop")
    <3>1. Fails(r, a.code, {})  BY <1>0, <1>4, <2>0, <2>2, HttpExists
    <3> QED  BY <1>0, <1>4, <3>1, HttpLookFails, ToldErr DEF Bodies
  <2> QED  BY <2>1, <2>2
<1>5. \/ Target /\ a.code = "200" /\ a.body = {} /\ "there" \in a.has
      \/ a.code = "200" /\ a.body = {} /\ kind \in {"b2", "googledrive"} /\ "there" \notin a.has /\ ~Target
      \/ ~Target /\ a.code = No /\ a.body = {} /\ kind \notin {"b2", "googledrive"}
      \/ a.body = {} /\ ((a.code \in {"401", "403"} /\ ~Accepted) \/ (a.code \in Outages /\ broken))
  BY HttpLooks
<1> QED  BY <1>1, <1>2, <1>3, <1>4, <1>5

LEMMA HttpThawsTold ==
    ASSUME world \in Worlds, kind \in {"s3", "azure", "b2"}, root \in BOOLEAN, root = world.root, NEW a, NEW broken, Meets(a, broken),
           call.op \in {"accessible", "initiate"}, NEW r, r = Handle(a)
    PROVE  Told(call.op, call.arg, r, broken, Accepted)
<1>0. kind \in Http /\ IsAnswer(a)  BY HttpThaws DEF Http, Stores
<1>1. CASE r = Ok({}) /\ call.op = "initiate"
  <2>1. Gives(call.op, call.arg, {}, broken, Accepted)  BY <1>1 DEF Gives
  <2> QED  BY <1>1, <2>1, ToldOk
<1>2. CASE r = Ok({"there"})
  <2>1. Gives(call.op, call.arg, {"there"}, broken, Accepted)  BY DEF Gives, Values
  <2> QED  BY <1>2, <2>1, ToldOk
<1>3. CASE r = Ok({}) /\ call.op = "accessible"
  <2>1. a.body # {} \/ "cold" \in a.has  BY <1>0, <1>3, HttpThaws, HttpAccessible
  <2>2. State(call.arg) = "cold"  BY <2>1, HttpThaws
  <2>3. Gives(call.op, call.arg, {}, broken, Accepted)  BY <1>3, <2>2 DEF Gives
  <2> QED  BY <1>3, <2>3, ToldOk
<1>4. CASE Fails(r, a.code, a.body)
  <2>1. a.code \in Codes /\ a.body \in Bodies  BY <1>0 DEF IsAnswer, HttpCodes, Codes
  <2>2. Why(call.op, call.arg, a.code, a.body, Accepted)
    <3>1. a.body # {} => State(call.arg) = "cold"  BY HttpThaws DEF Outages
    <3>2. a.body = {} /\ a.code = "404" => ~Held(call.arg)  BY HttpThaws, HttpHeld DEF Outages
    <3>3. a.code # "enoent"  BY <1>0 DEF IsAnswer, HttpCodes
    <3>4. a.code \in {"401", "403"} /\ a.body = {} => ~Accepted  BY HttpThaws DEF Outages
    <3> QED  BY <3>1, <3>2, <3>3, <3>4 DEF Why, Reason
  <2> QED  BY <1>4, <2>1, <2>2, ToldErr
<1> QED
  <2>1. CASE call.op = "accessible"  BY <1>0, <1>2, <1>3, <1>4, <2>1, HttpThaws, HttpAccessible
  <2>2. CASE call.op = "initiate"
    <3>1. a.code \notin {"206", "207"}  BY <2>2, HttpThaws
    <3> QED  BY <1>0, <1>1, <1>4, <2>2, <3>1, HttpInitiate
  <2> QED  BY <2>1, <2>2

(* A file backend's look at an object, or at its root. *)
LEMMA FileLooks ==
    ASSUME world \in Worlds, kind \in Files, NEW a, NEW broken, Meets(a, broken),
           call.op \in {"get", "range", "exists", "size", "hash", "probe"}
    PROVE  /\ IsAnswer(a)
           /\ \/ /\ a = Honest /\ Accepted /\ Target /\ a.code = "ok"
                 /\ call.op \in {"get", "range"} => a.has = {State(call.arg)}
              \/ a = Honest /\ Accepted /\ ~Target /\ a.code = "enoent"
              \/ a = Refusal /\ ~Accepted /\ a.code \in {"denied", "drop"}
              \/ a.code \in {"refused", "drop"} /\ broken
<1>0. Yes = "ok" /\ No = "enoent"  BY YesNo
<1>1. Request(call.op, call.stage) = IF call.op \in {"get", "range", "hash"} THEN "read" ELSE "head"
  BY DEF Request, Files
<1>2. State(call.arg) # "cold"  BY WorldIs, KindsDiffer DEF Stores, Files, Tiered
<1>3. CASE a = Honest /\ Accepted
  <2>1. CASE ~Target
    <3>1. a = Answer("enoent", {})  BY <1>0, <1>1, <1>3, <2>1, HonestIs
    <3>2. IsAnswer(a)  BY <3>1, AnswerIs, Zenon
    <3>3. a.code = "enoent"  BY <3>1 DEF Answer
    <3> QED  BY <1>3, <2>1, <3>2, <3>3
  <2>2. CASE Target
    <3> DEFINE has == IF call.op \in {"get", "range", "hash"} THEN {State(call.arg)} ELSE Props(call.arg)
    <3>1. a = Answer("ok", has)  BY <1>0, <1>1, <1>2, <1>3, <2>2, HonestIs DEF Contents
    <3>a. call.op \in {"get", "range"} => has = {State(call.arg)}  OBVIOUS
    <3> HIDE DEF has
    <3>2. IsAnswer(a)  BY <3>1, AnswerIs, Zenon
    <3>3. a.code = "ok" /\ a.has = has  BY <3>1 DEF Answer
    <3> QED  BY <1>3, <2>2, <3>a, <3>2, <3>3
  <2> QED  BY <2>1, <2>2
<1>4. CASE a = Refusal /\ ~Accepted
  <2>1. a = Answer(a.code, {})  BY <1>4, RefusalIs
  <2>2. a.code \in {"denied", "drop"}  BY <1>4, RefusalIs
  <2>3. a.code \in {"ok", "enoent", "refused", "denied", "drop"}  BY <2>2
  <2>4. IsAnswer(a)  BY <2>1, <2>3, AnswerIs, Zenon
  <2> QED  BY <1>4, <2>2, <2>4
<1>5. CASE a \in Faulty /\ broken
  <2>1. a = Answer(a.code, {})  BY <1>5, FaultyIs
  <2>2. a.code \in {"refused", "drop"}  BY <1>5, FaultyIs
  <2>3. a.code \in {"ok", "enoent", "refused", "denied", "drop"}  BY <2>2
  <2>4. IsAnswer(a)  BY <2>1, <2>3, AnswerIs, Zenon
  <2> QED  BY <1>5, <2>2, <2>4
<1> QED  BY <1>3, <1>4, <1>5 DEF Meets

LEMMA FileTold ==
    ASSUME world \in Worlds, kind \in Files, root \in BOOLEAN, root => world.root, NEW a, NEW broken, Meets(a, broken),
           call.op \in {"get", "range", "exists", "size", "hash"}, call.op \in Ops(kind), NEW r, r = Handle(a)
    PROVE  \/ r = More(call.stage + 1, {}) /\ kind = "sftp" /\ call.op \in {"get", "range"} /\ call.stage # 2
           \/ Told(call.op, call.arg, r, broken, Accepted)
<1>0. IsAnswer(a) /\ kind \notin Http /\ State(call.arg) # "cold"
  BY FileLooks, KindsDiffer, WorldIs DEF Stores, Files, Tiered
<1>a. (Target => Held(call.arg)) /\ (~Target => ~Held(call.arg) \/ Unmounted)
  BY DEF Target, Present, Held, Unmounted
<1>1. CASE a.code = "ok" /\ Target /\ (call.op \in {"get", "range"} => a.has = {State(call.arg)})
  <2> DEFINE val == IF call.op \in {"get", "range"} THEN {State(call.arg)}
                    ELSE IF call.op = "exists" THEN {"there"}
                    ELSE IF call.op = "size" THEN {"size"} ELSE {"size", "hash"}
  <2>1. r = Ok(val)  BY <1>0, <1>1, FileGet, FileStats, FileExists
  <2>2. State(call.arg) \in {"good", "bent", "bad"}  BY <1>0, <1>1, WorldIs DEF Target, Present
  <2>3. Gives(call.op, call.arg, val, broken, Accepted)  BY <1>1, <1>a, <2>2 DEF Gives, Values
  <2> QED  BY <2>1, <2>3, ToldOk
<1>2. CASE a.code # "ok"
  <2>1. a.code \in {"enoent", "refused", "denied", "drop"} /\ FileCode(a.code) \in Codes
    BY <1>0, <1>2 DEF IsAnswer, FileCode, Codes
  <2>2. a.code = "enoent" => ~Target
    BY FileLooks
  <2>3. CASE Fails(r, FileCode(a.code), {})
    <3>1. Why(call.op, call.arg, FileCode(a.code), {}, Accepted)
      BY <1>0, <1>a, <2>1, <2>2 DEF Why, FileCode
    <3> QED  BY <2>1, <2>3, <3>1, ToldErr DEF Bodies
  <2>4. CASE call.op = "exists" /\ r = Ok({})
    <3>1. ~Target \/ ~Accepted \/ broken  BY <1>2, FileLooks
    <3>2. Gives(call.op, call.arg, {}, broken, Accepted)  BY <1>a, <2>4, <3>1 DEF Gives
    <3> QED  BY <2>4, <3>2, ToldOk
  <2> QED  BY <1>0, <1>2, <2>3, <2>4, FileGet, FileStats, FileExists
<1> QED  BY <1>1, <1>2, FileLooks

(* The probe that precedes a connection's listing. *)
LEMMA ProbeTells ==
    ASSUME world \in Worlds, root \in BOOLEAN, NEW a, NEW broken, Meets(a, broken), call.op = "probe", NEW r, r = Handle(a)
    PROVE  \/ /\ r = Ok(r.val) /\ r.val \subseteq Values
              /\ Accepted \/ kind \in OAuth
              /\ kind \in {"smb", "smb_direct"} => root \/ (kind = "smb" /\ world.root)
           \/ \E code \in Codes : Fails(r, code, {})
<1>a. \A v : v \subseteq {"there"} => Ok(v) = Ok(Ok(v).val) /\ Ok(v).val \subseteq Values  BY DEF Ok, Values
<1>1. CASE kind \in Http
  <2>0. kind \notin Files  BY <1>1, KindsDiffer
  <2>1. IsAnswer(a) /\ a.body = {} /\ (a.code = "200" \/ a.code = No \/ a.code \in {"401", "403"} \cup Outages)
    BY <1>1, HttpLooks
  <2>2. a.code \notin {"202", "204", "206", "207"} /\ a.code \in Codes
    BY <1>1, <2>1, YesNo DEF Outages, Codes
  <2>3. CASE Fails(r, a.code, {})  BY <2>2, <2>3
  <2>4. CASE r = Ok({}) \/ r = Ok({"there"}) \/ r = Ok(a.has \cap {"there"})
    <3>1. r = Ok(r.val) /\ r.val \subseteq Values  BY <1>a, <2>4
    <3>2. Accepted \/ kind \in OAuth
      <4>1. CASE Accepted  BY <4>1
      <4>2. CASE a.code \in {"401", "403"} \cup Outages
        <5>1. kind \in {"onedrive", "dropbox"} \/ Fails(r, a.code, {})
          BY <1>1, <2>1, <2>2, <4>2, HttpExists DEF Outages
        <5>2. ~Fails(r, a.code, {})  BY <2>4 DEF Fails, Ok, Err
        <5> QED  BY <5>1, <5>2 DEF OAuth
      <4> QED  BY <1>1, <4>1, <4>2, HttpLooks
    <3> QED  BY <2>0, <3>1, <3>2 DEF Files
  <2> QED  BY <1>1, <2>1, <2>2, <2>3, <2>4, HttpExists
<1>2. CASE kind \in Files
  <2>0. IsAnswer(a)  BY <1>2, FileLooks
  <2>1. CASE r.tag = "ok"
    <3>1. (a.code = "ok" \/ (kind = "sftp" /\ a.code = "enoent")) /\ r \in {Ok({}), Ok({"there"})}
      BY <1>2, <2>0, <2>1, FileProbe
    <3>2. r = Ok(r.val) /\ r.val \subseteq Values  BY <1>a, <3>1
    <3>3. Accepted /\ (a.code = "ok" => Target)  BY <1>2, <3>1, FileLooks
    <3> QED  BY <3>1, <3>2, <3>3 DEF Target
  <2>2. CASE r.tag # "ok"  BY <1>2, <2>0, <2>2, FileProbe
  <2> QED  BY <2>1, <2>2
<1> QED  BY <1>1, <1>2, WorldIs

(* A page of a file backend's listing.  The session SMB opens by itself    *)
(* looks at the start of the listing first.                                *)
LEMMA FilePages ==
    ASSUME world \in Worlds, kind \in Files, NEW a, NEW broken, Meets(a, broken), call.op = "list"
    PROVE  /\ IsAnswer(a)
           /\ \/ /\ a = Honest /\ Accepted /\ root /\ a.code = "ok"
                 /\ ~(kind = "smb_direct" /\ call.stage = 0) => a.has = Page /\ (a.more <=> call.page = 1)
              \/ a = Honest /\ Accepted /\ ~root /\ a.code = "enoent"
              \/ a = Refusal /\ ~Accepted /\ a.code \in {"denied", "drop"}
              \/ a.code \in {"refused", "drop"} /\ broken
<1>0. Yes = "ok" /\ No = "enoent" /\ kind # "webdav"  BY YesNo DEF Files
<1>1. Request(call.op, call.stage) = IF kind = "smb_direct" /\ call.stage = 0 THEN "head" ELSE "page"
  BY DEF Request
<1>2. Target <=> root  BY DEF Target
<1>3. CASE a = Honest /\ Accepted
  <2>1. CASE ~root
    <3>1. a = Answer("enoent", {})  BY <1>0, <1>1, <1>2, <1>3, <2>1, HonestIs
    <3>2. IsAnswer(a)  BY <3>1, AnswerIs, Zenon
    <3>3. a.code = "enoent"  BY <3>1 DEF Answer
    <3> QED  BY <1>3, <2>1, <3>2, <3>3
  <2>2. CASE root /\ ~(kind = "smb_direct" /\ call.stage = 0)
    <3>1. a = [Answer("ok", Page) EXCEPT !.more = call.page = 1]  BY <1>0, <1>1, <1>2, <1>3, <2>2, HonestIs
    <3>2. a = [code |-> "ok", has |-> Page, body |-> {}, more |-> call.page = 1]  BY <3>1 DEF Answer
    <3>3. a.code = "ok" /\ a.has = Page /\ a.body = {} /\ a.more = (call.page = 1)
          /\ DOMAIN a = {"code", "has", "body", "more"}
      BY <3>2
    <3>4. IsAnswer(a)  BY <3>3, KindsDiffer DEF IsAnswer, Bodies
    <3> QED  BY <1>3, <2>2, <3>3, <3>4
  <2>3. CASE root /\ kind = "smb_direct" /\ call.stage = 0
    <3>1. a = Answer("ok", Props(call.arg))  BY <1>0, <1>1, <1>2, <1>3, <2>3, HonestIs
    <3>2. IsAnswer(a)  BY <3>1, AnswerIs, Zenon
    <3>3. a.code = "ok"  BY <3>1 DEF Answer
    <3> QED  BY <1>3, <2>3, <3>2, <3>3
  <2> QED  BY <2>1, <2>2, <2>3
<1>4. CASE a = Refusal /\ ~Accepted
  <2>1. a = Answer(a.code, {})  BY <1>4, RefusalIs
  <2>2. a.code \in {"denied", "drop"}  BY <1>4, RefusalIs
  <2>3. a.code \in {"ok", "enoent", "refused", "denied", "drop"}  BY <2>2
  <2>4. IsAnswer(a)  BY <2>1, <2>3, AnswerIs, Zenon
  <2> QED  BY <1>4, <2>2, <2>4
<1>5. CASE a \in Faulty /\ broken
  <2>1. a = Answer(a.code, {})  BY <1>5, FaultyIs
  <2>2. a.code \in {"refused", "drop"}  BY <1>5, FaultyIs
  <2>3. a.code \in {"ok", "enoent", "refused", "denied", "drop"}  BY <2>2
  <2>4. IsAnswer(a)  BY <2>1, <2>3, AnswerIs, Zenon
  <2> QED  BY <1>5, <2>2, <2>4
<1> QED  BY <1>3, <1>4, <1>5 DEF Meets

(* What may keep a listing that succeeds from being whole.                 *)
Excused(broken, fits) ==
    \/ kind \in Files /\ (broken \/ ~fits)
    \/ kind = "webdav" /\ broken
    \/ kind = "dropbox" /\ call.op = "listsizes"

(* The kinds that fail to list a root that is missing. *)
Strict == Stores \cup {"googledrive"}

(* A page that ends a listing, one that turns to the next, and a listing   *)
(* that fails.                                                             *)
Listed(r, broken, fits) ==
    /\ r = Ok(r.val) /\ r.val \subseteq Names
    /\ kind \in Strict => root
    /\ \/ root /\ call.page = 2 /\ r.val = call.got \cup Page
       \/ ~root /\ r.val \in {{}, call.got}
       \/ Excused(broken, fits)

Turned(r) ==
    /\ r = More(r.stage, r.val) /\ r.stage \in {1, call.stage}
    /\ \/ /\ kind = "smb_direct" /\ call.stage = 0 /\ r.stage = 1 /\ r.val = {}
       \/ /\ Request(call.op, call.stage) = "page" /\ call.page = 1 /\ root
          /\ r.val = call.got \cup Page

Unlisted(r, fits) ==
    \E code \in Codes :
      /\ Fails(r, code, {})
      /\ code \in {"401", "403"} => ~fits
      /\ kind \in Http /\ fits /\ world.root => code \in Outages

(* A listing's answer is one of these three. *)
LEMMA ListTells ==
    ASSUME world \in Worlds, root \in BOOLEAN, kind \in Http => root = world.root, NEW a, NEW broken, Meets(a, broken),
           call.op \in {"list", "listsizes"}, call.op \in Ops(kind), call.got \subseteq Names, call.page \in {1, 2},
           NEW r, r = Handle(a)
    PROVE  Turned(r) \/ Listed(r, broken, Accepted) \/ Unlisted(r, Accepted)
<1>a. \A v : Ok(v) = Ok(Ok(v).val) /\ Ok(v).val = v  BY DEF Ok
<1>b. \A n, v : More(n, v) = More(More(n, v).stage, More(n, v).val) /\ More(n, v).stage = n /\ More(n, v).val = v
  BY DEF More
<1>c. Page \subseteq Names  BY DEF Page
<1>1. CASE kind \in Http
  <2>0. IsAnswer(a) /\ kind \notin Files /\ kind # "smb_direct" /\ Request(call.op, call.stage) = "page"
    BY <1>1, HttpPages, KindsDiffer DEF Files, Request
  <2>1. CASE /\ root /\ a.code = (IF kind = "webdav" THEN "207" ELSE "200")
             /\ a.body = {} /\ a.has = Page /\ (a.more <=> call.page = 1)
    <3>1. a.code \in {"200", "207"} /\ (a.code = "207" => kind = "webdav")  BY <2>1
    <3>2. CASE kind = "dropbox" /\ call.op = "listsizes"
      <4>1. r = Ok(call.got \cup a.has)  BY <1>1, <2>0, <3>1, <3>2, HttpList
      <4> QED  BY <1>a, <1>c, <2>1, <3>2, <4>1 DEF Listed, Excused
    <3>3. CASE call.page = 1 /\ ~(kind = "dropbox" /\ call.op = "listsizes")
      <4>1. PICK n \in {1, call.stage} : r = More(n, call.got \cup a.has)  BY <1>1, <2>0, <2>1, <3>1, <3>3, HttpList
      <4> QED  BY <1>b, <1>c, <2>0, <2>1, <3>3, <4>1 DEF Turned
    <3>4. CASE call.page = 2 /\ ~(kind = "dropbox" /\ call.op = "listsizes")
      <4>1. r = Ok(call.got \cup a.has)  BY <1>1, <2>0, <2>1, <3>1, <3>4, HttpList
      <4> QED  BY <1>a, <1>c, <2>1, <3>4, <4>1 DEF Listed
    <3> QED  BY <3>2, <3>3, <3>4
  <2>2. CASE ~root /\ a.code = No /\ a.body = {} /\ ~a.more
    <3>1. a.code \in {"404", "409"} /\ a.code \in Codes  BY <1>1, <2>2, YesNo DEF Codes
    <3>2. CASE kind \notin Strict /\ r \in {Ok({}), Ok(call.got)}  BY <1>a, <2>2, <3>2 DEF Listed
    <3>3. CASE Fails(r, a.code, {})  BY <1>1, <2>2, <3>1, <3>3 DEF Unlisted
    <3>4. CASE kind \in Strict
      <4>1. kind \notin {"onedrive", "webdav", "dropbox"} /\ a.code = "404"
        BY <1>1, <2>0, <2>2, <3>4 DEF No, Strict, Stores
      <4> QED  BY <1>1, <2>0, <2>2, <3>3, <4>1, HttpList
    <3>5. CASE kind \notin Strict
      BY <1>1, <2>0, <2>2, <3>1, <3>2, <3>3, <3>5, HttpList
    <3> QED  BY <3>4, <3>5
  <2>3. CASE a.body = {} /\ ((a.code \in {"401", "403"} /\ ~Accepted) \/ a.code \in Outages)
    <3>1. a.code \in Codes /\ a.code \notin {"200", "202", "206", "207", "404", "409"}  BY <2>3 DEF Codes, Outages
    <3>2. Fails(r, a.code, {})  BY <1>1, <2>0, <2>3, <3>1, HttpList
    <3> QED  BY <2>3, <3>1, <3>2 DEF Unlisted, Outages
  <2>4. CASE a.code = "207" /\ kind = "webdav" /\ a.has = {} /\ ~a.more /\ broken
    <3>1. r = Ok(call.got \cup a.has)  BY <1>1, <2>0, <2>4, HttpList
    <3>2. kind \notin Strict  BY <2>4 DEF Strict, Stores
    <3> QED  BY <1>a, <2>4, <3>1, <3>2 DEF Listed, Excused
  <2> QED  BY <1>1, <2>1, <2>2, <2>3, <2>4, HttpPages
<1>2. CASE kind \in Files
  <2>0. kind \notin Http /\ call.op = "list"  BY <1>2, KindsDiffer DEF Ops, Files, OAuth
  <2>a. kind \notin Strict  BY <1>2 DEF Strict, Stores, Files
  <2>1. IsAnswer(a)  BY <1>2, <2>0, FilePages
  <2>2. CASE root /\ a.code = "ok" /\ ~(kind = "smb_direct" /\ call.stage = 0) /\ a.has = Page /\ (a.more <=> call.page = 1)
    <3>1. Request(call.op, call.stage) = "page"  BY <2>0, <2>2 DEF Request
    <3>2. CASE call.page = 1
      <4>1. PICK n \in {1, call.stage} : r = More(n, call.got \cup a.has)
        BY <1>2, <2>0, <2>1, <2>2, <3>2, FileList, FileTexts DEF Fails, Err, More
      <4> QED  BY <1>b, <1>c, <2>2, <3>1, <3>2, <4>1 DEF Turned
    <3>3. CASE call.page = 2
      <4>1. r = Ok(call.got \cup a.has)
        BY <1>2, <2>0, <2>1, <2>2, <3>3, FileList
      <4> QED  BY <1>a, <1>c, <2>a, <2>2, <3>3, <4>1 DEF Listed
    <3> QED  BY <3>2, <3>3
  <2>3. CASE a.code = "ok" /\ kind = "smb_direct" /\ call.stage = 0
    <3>1. r = More(1, {})  BY <1>2, <2>0, <2>1, <2>3, FileList
    <3> QED  BY <1>b, <2>3, <3>1 DEF Turned
  <2>4. CASE a.code # "ok" /\ (~root \/ ~Accepted \/ broken)
    <3>1. CASE r \in {Ok({}), Ok(call.got)}  BY <1>2, <1>a, <2>a, <2>4, <3>1 DEF Listed, Excused
    <3>2. CASE Fails(r, FileCode(a.code), {})
      <4>1. FileCode(a.code) \in Codes \ {"401", "403"}
        BY <1>2, <2>1, <2>4 DEF FileCode, IsAnswer, Codes
      <4> QED  BY <2>0, <3>2, <4>1 DEF Unlisted
    <3> QED  BY <1>2, <2>0, <2>1, <2>4, <3>1, <3>2, FileList
  <2> QED  BY <1>2, <2>0, <2>2, <2>3, <2>4, FilePages
<1> QED  BY <1>1, <1>2, WorldIs

-----------------------------------------------------------------------------
(* The inductive invariant.  First the shape of the state. *)
Places == {"idle", "build", "token", "refresh", "renew", "arriving", "renewed", "ask", "hung"}

ObjectOps == {"get", "range", "exists", "size", "hash", "accessible", "initiate"}
Listings  == {"list", "listsizes"}

Calls == [op : ObjectOps \cup Listings \cup {"none", "build", "probe"}, arg : Names \cup {"y.bak"},
          stage : 0 .. 2, page : 1 .. 2, got : SUBSET Names, tries : 0 .. 2, again : BOOLEAN, tok : Nat,
          at : Places]

Books == [todo : SUBSET {"x", "y"}, took : SUBSET {"x", "y"}, lost : SUBSET {"x", "y"}, held : Results,
          part : 0 .. 1]

(* The state is well-typed. *)
Shapes ==
    /\ world \in Worlds /\ root \in BOOLEAN
    /\ call \in Calls /\ book \in Books /\ outcome \in Results
    /\ cached \in [tok : Nat, fresh : BOOLEAN] /\ tokens \in [issued : Nat, alive : SUBSET Nat] /\ other \in Nat
    /\ faults \in 0 .. MaxFaults /\ deaths \in 0 .. MaxDeaths /\ aged \in BOOLEAN

(* A call is one of its job, and is where its kind can be. *)
Belongs(op, arg) ==
    /\ job \in Ops(kind) => op = job /\ arg = "x"
    /\ job \in {"connect", "test"} => op \in {"build", "probe", "list"} /\ arg = "x"
    /\ job = "critical" => op = "get" /\ arg \in {"x", "x.bak"}
    /\ job = "discover" => op = "list" \/ (op = "get" /\ arg \in {"x", "x.bak", "y", "y.bak"})
    /\ job = "packmap" => op = "list" \/ (op \in {"size", "range"} /\ arg \in {"x", "y"})
    /\ job = "chunk" => (op = "range" /\ arg = "x") \/ (op = "get" /\ arg \in {"x.par", "x"})

JobFits == Belongs(call.op, call.arg)

(* A call waits for a token or renews it only where there are tokens. *)
PlaceFits ==
    /\ call.op = "build" => /\ job \in {"connect", "test"} /\ call.tok = 0
                            /\ call.at = "build" \/ (call.at = "ask" /\ kind = "b2")
    /\ call.at = "build" => call.op = "build" /\ call.stage = 0
    /\ call.at \in {"token", "arriving", "renew", "renewed", "refresh"} => kind \in OAuth \cup {"b2"}
    /\ call.at = "refresh" => kind \in OAuth
    /\ call.stage = 0 \/ call.at \in {"ask", "hung"}
    /\ call.at = "hung" => kind \in Untimed
    /\ call.again => call.op # "build" /\ kind \in OAuth \cup {"b2"}

(* Tokens are numbered as they are issued, and all live until they die.    *)
TokensFit ==
    /\ cached.tok <= tokens.issued /\ other <= tokens.issued /\ call.tok <= tokens.issued
    /\ tokens.alive \subseteq 1 .. tokens.issued
    /\ deaths = 0 => tokens.alive = 1 .. tokens.issued
    /\ call.tok # 0 \/ cached.tok # 0 => kind \in OAuth \cup {"b2"}
    /\ other # 0 => job = "get" /\ kind \in OAuth
    /\ kind \in OAuth /\ call.at \in {"ask", "arriving", "renewed"} => call.tok # 0
    /\ job \in {"connect", "test"} /\ tokens.issued # 0 => world.good

(* Only a failure takes a root away, and only connecting makes one. *)
RootFits ==
    /\ kind \notin {"local", "smb"} => root = world.root
    /\ root => world.root \/ (kind = "local" /\ job \in {"connect", "test"})
    /\ ~root /\ world.root => faults > 0

(* A configuration a backend is built from. *)
Usable == world.conf \notin {"half", "none"} /\ (kind = "azure" => world.conf # "env")

(* A connection is made step by step. *)
Along(op, stage) ==
    job \in {"connect", "test"} =>
      /\ op # "build" => Usable /\ (kind = "b2" => world.good /\ world.root)
      /\ op = "list" => world.good /\ (kind \in {"smb", "smb_direct"} => world.root)
      /\ op = "build" /\ stage # 0 => world.good

ConnectFits == Along(call.op, call.stage)

Open == call.at # "idle" => JobFits /\ PlaceFits /\ ConnectFits

(* The inductive invariant. *)
Base ==
    /\ Shapes /\ TokensFit /\ RootFits /\ Open
    /\ Done <=> call.at = "idle"
    /\ ConnectedMeansReached

LEMMA TextsAre ==
    /\ Results = [tag : {"none", "ok", "err"}, val : SUBSET Values, text : SUBSET Texts, stage : {0}]
    /\ \A v \in SUBSET Values : Ok(v) \in Results /\ Ok(v).tag = "ok" /\ Ok(v).val = v
    /\ \A t \in SUBSET Texts : Err(t) \in Results /\ Err(t).tag = "err" /\ Err(t).text = t /\ Err(t).val = {}
    /\ Pending \in Results /\ Pending.tag = "none"
<1>1. Results = [tag : {"none", "ok", "err"}, val : SUBSET Values, text : SUBSET Texts, stage : {0}]
  BY DEF Results, Values, Texts
<1>2. \A v \in SUBSET Values : Ok(v) \in Results /\ Ok(v).tag = "ok" /\ Ok(v).val = v  BY <1>1 DEF Ok
<1>3. \A t \in SUBSET Texts : Err(t) \in Results /\ Err(t).tag = "err" /\ Err(t).text = t /\ Err(t).val = {}
  BY <1>1 DEF Err
<1> QED  BY <1>1, <1>2, <1>3 DEF Pending

LEMMA FailsResult ==
    ASSUME NEW r, NEW code, NEW body, Fails(r, code, body)
    PROVE  r \in Results /\ r.tag = "err"
BY TextsAre DEF Fails

LEMMA ToldResult ==
    ASSUME NEW op, NEW n, NEW r, NEW broken, NEW fits, Told(op, n, r, broken, fits)
    PROVE  r \in Results /\ r.tag \in {"ok", "err"}
BY TextsAre, FailsResult DEF Told, Gives

(* Every operation on an object, whatever the backend. *)
LEMMA ObjectTold ==
    ASSUME world \in Worlds, root \in BOOLEAN, RootFits, job \notin {"connect", "test"}, NEW a, NEW broken, Meets(a, broken),
           call.op \in ObjectOps, call.op \in Ops(kind), call.stage \in 0 .. 2, NEW r, r = Handle(a)
    PROVE  \/ r = More(r.stage, {}) /\ r.stage \in 0 .. 2 /\ call.op \in {"get", "range"}
           \/ Told(call.op, call.arg, r, broken, Accepted)
<1>a. \A n : More(n, {}).stage = n  BY DEF More
<1>1. CASE kind \in Http
  <2>1. root = world.root  BY <1>1, KindsDiffer DEF RootFits, Files
  <2>2. CASE call.op \in {"get", "range"}  BY <1>1, <1>a, <2>1, <2>2, HttpReadTold
  <2>3. CASE call.op \in {"size", "hash"}  BY <1>1, <2>1, <2>3, HttpStatTold
  <2>4. CASE call.op = "exists"  BY <1>1, <2>1, <2>4, HttpExistsTold
  <2>5. CASE call.op \in {"accessible", "initiate"}
    <3>1. kind \in {"s3", "azure", "b2"}  BY <2>5 DEF Ops
    <3> QED  BY <2>1, <2>5, <3>1, HttpThawsTold
  <2> QED  BY <2>2, <2>3, <2>4, <2>5 DEF ObjectOps
<1>2. CASE kind \in Files
  <2>1. root => world.root  BY DEF RootFits
  <2>2. call.op \notin {"accessible", "initiate"}  BY <1>2 DEF Ops, Files
  <2>3. call.op \in {"get", "range", "exists", "size", "hash"}  BY <2>2 DEF ObjectOps
  <2>4. \/ r = More(call.stage + 1, {}) /\ call.op \in {"get", "range"} /\ call.stage # 2
        \/ Told(call.op, call.arg, r, broken, Accepted)
    BY <1>2, <2>1, <2>3, FileTold
  <2> QED  BY <1>a, <2>4
<1> QED  BY <1>1, <1>2, WorldIs

(* B2 authorises itself, then looks for its bucket. *)
LEMMA BuildTells ==
    ASSUME world \in Worlds, kind = "b2", call.op = "build", NEW a, NEW broken, Meets(a, broken), NEW r, r = Handle(a)
    PROVE  \/ r = More(1, {}) /\ call.stage = 0 /\ Accepted
           \/ r = Ok({}) /\ call.stage # 0 /\ Accepted /\ root
           \/ \E code \in Codes : Fails(r, code, {})
<1>1. kind \in Http /\ Request(call.op, call.stage) = IF call.stage = 0 THEN "authorize" ELSE "buckets"
  BY DEF Http, Stores, Request
<1>2. CASE a = Honest /\ Accepted
  <2> DEFINE has == IF call.stage # 0 /\ root THEN {"there"} ELSE {}
  <2>1. a = Answer("200", has)  BY <1>1, <1>2, HonestIs
  <2>2. "200" \in HttpCodes  BY DEF HttpCodes
  <2>a. "there" \in has => root /\ call.stage # 0  OBVIOUS
  <2> HIDE DEF has
  <2>3. IsAnswer(a)  BY <1>1, <2>1, <2>2, AnswerIs, Zenon
  <2>4. a.code = "200" /\ a.has = has  BY <2>1 DEF Answer
  <2> QED  BY <1>2, <2>a, <2>3, <2>4, B2Builds DEF Codes
<1>3. CASE a = Refusal \/ (a \in Faulty /\ broken)
  <2>1. IsAnswer(a) /\ a.code \in {"401", "403"} \cup Outages /\ a.body = {}
    BY <1>1, <1>3, HttpRefuses, HttpBreaks
  <2>2. a.code \in Codes /\ a.code \notin {"200", "202", "206", "207"}  BY <2>1 DEF Codes, Outages
  <2> QED  BY <2>1, <2>2, B2Builds
<1> QED  BY <1>2, <1>3 DEF Meets

LEMMA OpsFit ==
    ASSUME world \in Worlds, JobFits
    PROVE  /\ job \notin {"connect", "test"} => call.op \in Ops(kind) /\ call.op \in ObjectOps \cup Listings
           /\ job \in {"connect", "test"} => call.op \in {"build", "probe", "list"}
           /\ call.op = "list" => call.op \in Ops(kind)
<1>1. job \in Jobs(kind)  BY WorldIs
<1>2. {"get", "range", "size", "list"} \subseteq Ops(kind)  BY DEF Ops
<1>3. job \in Ops(kind) => job \in ObjectOps \cup Listings  BY DEF Ops, ObjectOps, Listings
<1>4. job \in Ops(kind) \/ job \in {"connect", "test", "critical", "discover", "packmap", "chunk"}  BY <1>1 DEF Jobs
<1> QED  BY <1>2, <1>3, <1>4 DEF JobFits, Belongs, ObjectOps, Listings

(* What the next step of a connection may rely on. *)
Reaches(r) ==
    job \in {"connect", "test"} /\ r.tag = "ok" =>
      /\ call.op = "build" => Usable /\ (kind = "b2" => world.good /\ world.root)
      /\ call.op = "probe" => world.good /\ (kind \in {"smb", "smb_direct"} => world.root)
      /\ call.op = "list" => (kind \in Strict => world.root)

Result(r) == r \in Results /\ r.tag \in {"ok", "err"}

(* A result that asks for the next request of the same call. *)
Continues(r) ==
    /\ r = More(r.stage, r.val) /\ r.stage \in 0 .. 2 /\ r.val \in SUBSET Names
    /\ \/ Request(call.op, call.stage) # "page" /\ r.val = {}
       \/ /\ call.op \in Listings /\ Request(call.op, call.stage) = "page" /\ call.page = 1 /\ root
          /\ r.val = call.got \cup Page /\ r.stage \in {1, call.stage}
    /\ call.op = "build" => Accepted /\ call.stage = 0

(* Whatever a request was answered, the call goes on, or it has a result   *)
(* that tells the truth.                                                   *)
LEMMA AnswerTells ==
    ASSUME Base, call.at = "ask", NEW a, NEW broken, Meets(a, broken), NEW r, r = Handle(a)
    PROVE  \/ Continues(r)
           \/ /\ Result(r) /\ Reaches(r)
              /\ call.op \in ObjectOps => Told(call.op, call.arg, r, broken, Accepted)
              /\ call.op \in Listings => Listed(r, broken, Accepted) \/ Unlisted(r, Accepted)
<1> USE DEF Base, Shapes
<1>0. /\ world \in Worlds /\ root \in BOOLEAN /\ call \in Calls
      /\ JobFits /\ PlaceFits /\ ConnectFits /\ RootFits /\ TokensFit
  BY DEF Open
<1>1. /\ call.stage \in 0 .. 2 /\ call.page \in {1, 2} /\ call.got \subseteq Names
  BY <1>0 DEF Calls
<1>2. kind \in Http => root = world.root  BY <1>0, KindsDiffer DEF RootFits, Files
<1>a. \A c, b : Fails(r, c, b) => Result(r) /\ r.tag # "ok"  BY FailsResult DEF Result
<1>b. Names \subseteq Values  BY DEF Values
<1>3. CASE call.op \in ObjectOps
  <2>1. job \notin {"connect", "test"} /\ call.op \in Ops(kind)
    BY <1>0, <1>3, OpsFit DEF ObjectOps
  <2>2. CASE r = More(r.stage, {}) /\ r.stage \in 0 .. 2 /\ call.op \in {"get", "range"}
    <3>1. r.val = {}  BY <2>2 DEF More
    <3>2. Request(call.op, call.stage) # "page"  BY <2>2 DEF Request
    <3> QED  BY <2>2, <3>1, <3>2 DEF Continues
  <2>3. CASE Told(call.op, call.arg, r, broken, Accepted)
    <3>1. Result(r)  BY <2>3, ToldResult DEF Result
    <3> QED  BY <1>3, <2>1, <2>3, <3>1 DEF Reaches, ObjectOps, Listings
  <2> QED  BY <1>0, <1>1, <1>3, <2>1, <2>2, <2>3, ObjectTold
<1>4. CASE call.op \in Listings
  <2>0. call.op \in {"list", "listsizes"} /\ call.op \in Ops(kind)  BY <1>0, <1>4, OpsFit DEF Listings
  <2>1. CASE Turned(r)
    <3>1. r.stage \in 0 .. 2 /\ r.val \in SUBSET Names  BY <1>1, <2>1 DEF Turned, Page
    <3>2. \/ Request(call.op, call.stage) # "page" /\ r.val = {}
          \/ /\ call.op \in Listings /\ Request(call.op, call.stage) = "page" /\ call.page = 1 /\ root
             /\ r.val = call.got \cup Page /\ r.stage \in {1, call.stage}
      BY <1>4, <2>0, <2>1 DEF Turned, Request
    <3> QED  BY <2>0, <2>1, <3>1, <3>2 DEF Turned, Continues
  <2>2. CASE Listed(r, broken, Accepted)
    <3>1. Result(r)
      <4>1. r.val \in SUBSET Values  BY <1>b, <2>2 DEF Listed
      <4> QED  BY <2>2, <4>1, TextsAre DEF Listed, Result
    <3>2. kind \in Strict => world.root
      BY <1>2, <2>2 DEF Listed, Strict, Http, OAuth
    <3> QED  BY <2>0, <2>2, <3>1, <3>2 DEF Reaches, ObjectOps
  <2>3. CASE Unlisted(r, Accepted)
    BY <1>a, <2>0, <2>3 DEF Unlisted, Reaches, ObjectOps
  <2> QED  BY <1>0, <1>1, <1>2, <2>0, <2>1, <2>2, <2>3, ListTells
<1>5. CASE call.op = "build"
  <2>0. kind = "b2" /\ call.tok = 0  BY <1>0, <1>5 DEF PlaceFits
  <2>1. CASE r = More(1, {}) /\ call.stage = 0 /\ Accepted
    <3>1. r.val = {} /\ r.stage = 1  BY <2>1 DEF More
    <3>2. Request(call.op, call.stage) # "page"  BY <1>5, <2>1 DEF Request
    <3>3. r = More(r.stage, r.val)  BY <2>1, <3>1
    <3>4. r.stage \in 0 .. 2 /\ r.val \in SUBSET Names  BY <3>1
    <3> QED  BY <2>1, <3>1, <3>2, <3>3, <3>4 DEF Continues
  <2>2. CASE r = Ok({}) /\ call.stage # 0 /\ Accepted /\ root
    <3>1. Result(r)  BY <2>2, TextsAre DEF Result
    <3>2. world.good  BY <2>0, <2>2 DEF Accepted
    <3>3. world.root  BY <1>2, <2>0, <2>2 DEF Http, Stores
    <3>4. Usable
      BY <1>0, <2>0, StorageCallsAssumption DEF Usable, Typed, Confs, kind, OAuth
    <3> QED  BY <1>5, <3>1, <3>2, <3>3, <3>4 DEF Reaches, ObjectOps, Listings
  <2>3. CASE \E code \in Codes : Fails(r, code, {})
    BY <1>a, <1>5, <2>3 DEF Reaches, ObjectOps, Listings
  <2> QED  BY <1>0, <1>5, <2>0, <2>1, <2>2, <2>3, BuildTells
<1>6. CASE call.op = "probe"
  <2>1. CASE \E code \in Codes : Fails(r, code, {})
    BY <1>a, <1>6, <2>1 DEF Reaches, ObjectOps, Listings
  <2>2. CASE /\ r = Ok(r.val) /\ r.val \subseteq Values
             /\ Accepted \/ kind \in OAuth
             /\ kind \in {"smb", "smb_direct"} => root \/ (kind = "smb" /\ world.root)
    <3>1. Result(r)  BY <2>2, TextsAre DEF Result
    <3>2. job \in {"connect", "test"}  BY <1>0, <1>6, OpsFit DEF ObjectOps, Listings
    <3>3. world.good
      <4>1. call.tok = 0 => world.good  BY <1>0, <2>2, <1>6 DEF Accepted, TokensFit
      <4>2. call.tok # 0 => tokens.issued # 0  BY <1>0 DEF TokensFit, Calls
      <4> QED  BY <1>0, <3>2, <4>1, <4>2 DEF TokensFit
    <3>4. kind \in {"smb", "smb_direct"} => world.root  BY <1>0, <2>2 DEF RootFits
    <3> QED  BY <1>6, <3>1, <3>3, <3>4 DEF Reaches, ObjectOps, Listings
  <2> QED  BY <1>0, <1>6, <2>1, <2>2, ProbeTells
<1> QED  BY <1>0, <1>3, <1>4, <1>5, <1>6, OpsFit DEF ObjectOps, Listings

(* Where a call that was answered leaves the job: at its next call, or at  *)
(* its end.                                                                *)
Starts ==
    /\ call' \in Calls /\ call'.tok = 0 /\ ~call'.again /\ call'.stage = 0 /\ call'.page = 1 /\ call'.got = {}
    /\ call'.at \in {"token", "ask"} /\ call'.op # "build"
    /\ call'.at = "token" => kind \in OAuth \cup {"b2"}
    /\ kind \in OAuth => call'.at # "ask"
    /\ Belongs(call'.op, call'.arg) /\ Along(call'.op, call'.stage)

Ends == call' = Idle /\ outcome' \in Results /\ outcome'.tag \in {"ok", "err"}

(* The job starts its next call or ends. *)
Landed ==
    /\ book' \in Books
    /\ \/ Starts /\ UNCHANGED outcome
       \/ Ends /\ (job \in {"connect", "test"} /\ outcome'.tag = "ok" =>
                     /\ world.good /\ world.conf \notin {"half", "none", "keyless"}
                     /\ kind = "azure" => world.conf = "ends"
                     /\ kind \in Rooted => world.root)

FirstPlace(op) == IF kind \in OAuth \/ (kind = "b2" /\ op # "build") THEN "token" ELSE "ask"

(* A call started for the job is one of its own. *)
LEMMA RecordStarts ==
    ASSUME NEW op \in ObjectOps \cup Listings \cup {"probe"}, NEW arg \in Names \cup {"y.bak"}, NEW tries \in 0 .. 2,
           Belongs(op, arg), Along(op, 0),
           call' = [op |-> op, arg |-> arg, stage |-> 0, page |-> 1, got |-> {}, tries |-> tries, again |-> FALSE,
                    tok |-> 0, at |-> FirstPlace(op)]
    PROVE  Starts
<1>1. op # "build"  BY DEF ObjectOps, Listings
<1>2. FirstPlace(op) \in {"token", "ask"} /\ (FirstPlace(op) = "token" <=> kind \in OAuth \cup {"b2"})
  BY <1>1 DEF FirstPlace
<1>3. FirstPlace(op) \in Places  BY <1>2 DEF Places
<1>4. call' \in Calls  BY <1>3 DEF Calls
<1>5. /\ call'.op = op /\ call'.arg = arg /\ call'.stage = 0 /\ ~call'.again /\ call'.tok = 0 /\ call'.at = FirstPlace(op)
      /\ call'.page = 1 /\ call'.got = {}
  OBVIOUS
<1> QED  BY <1>1, <1>2, <1>4, <1>5 DEF Starts

LEMMA FreshStarts ==
    ASSUME NEW op \in ObjectOps \cup Listings \cup {"probe"}, NEW arg \in Names \cup {"y.bak"}, NEW tries \in 0 .. 2,
           Belongs(op, arg), Along(op, 0), call' = [Fresh(op, arg) EXCEPT !.tries = tries]
    PROVE  Starts
<1>1. call' = [op |-> op, arg |-> arg, stage |-> 0, page |-> 1, got |-> {}, tries |-> tries, again |-> FALSE,
               tok |-> 0, at |-> FirstPlace(op)]
  BY DEF Fresh, FirstPlace
<1> QED  BY <1>1, RecordStarts

LEMMA CallStarts ==
    ASSUME NEW op \in ObjectOps \cup Listings \cup {"probe"}, NEW arg \in Names \cup {"y.bak"},
           Belongs(op, arg), Along(op, 0), call' = Fresh(op, arg)
    PROVE  Starts
<1>1. call' = [op |-> op, arg |-> arg, stage |-> 0, page |-> 1, got |-> {}, tries |-> 0, again |-> FALSE,
               tok |-> 0, at |-> FirstPlace(op)]
  BY DEF Fresh, FirstPlace
<1>2. 0 \in 0 .. 2  OBVIOUS
<1> QED  BY <1>1, <1>2, RecordStarts

LEMMA FinishEnds ==
    ASSUME NEW r, Result(r), Finish(r)
    PROVE  Ends /\ outcome' = r
BY DEF Result, Finish, Ends

LEMMA NotStorageResult == Result(Err({NotStorage})) /\ Err({NotStorage}).tag = "err"
<1>1. {NotStorage} \in SUBSET Texts  BY DEF Texts
<1> QED  BY <1>1, TextsAre DEF Result

LEMMA CriticalResult ==
    ASSUME book \in Books, NEW r, Result(r)
    PROVE  Result(Critical(r))
<1>1. book.held \in Results  BY DEF Books
<1>2. Critical(r) = r \/ Critical(r) = Err({NotStorage}) \/ (Critical(r) = book.held /\ book.held.tag = "err")
  BY DEF Critical, CriticalError
<1> QED  BY <1>1, <1>2, NotStorageResult DEF Result

(* Each job, handed a result, lands. *)
LEMMA CriticalLands ==
    ASSUME Base, call.at # "idle", job = "critical", NEW r, Result(r), Proceed(r)
    PROVE  Landed
<1> USE DEF Base, Shapes
<1>0. Proceed(r) <=> IF WantsMirror(r) THEN ReadMirror(r) ELSE Finish(Critical(r)) /\ UNCHANGED book
  BY DEF Proceed
<1>1. call.arg \in {"x", "x.bak"}  BY DEF Open, JobFits, Belongs
<1>2. CASE WantsMirror(r)
  <2>1. call' = Fresh("get", "x.bak") /\ book' = [book EXCEPT !.held = r] /\ UNCHANGED outcome
    BY <1>0, <1>1, <1>2 DEF ReadMirror, WantsMirror, Bak
  <2>2. book' \in Books  BY <2>1 DEF Books, Result
  <2>3. Belongs("get", "x.bak") /\ Along("get", 0)  BY DEF Belongs, Along, Usable, Ops, OAuth
  <2>4. Starts  BY <2>1, <2>3, CallStarts DEF ObjectOps, Names
  <2> QED  BY <2>1, <2>2, <2>4 DEF Landed
<1>3. CASE ~WantsMirror(r)
  <2>2. Result(Critical(r))  BY CriticalResult
  <2> QED  BY <1>0, <1>3, <2>2, FinishEnds DEF Landed
<1> QED  BY <1>2, <1>3

LEMMA DiscoverLands ==
    ASSUME Base, call.at # "idle", job = "discover", NEW r, Result(r), Proceed(r)
    PROVE  Landed
<1> USE DEF Base, Shapes
<1>0. Discover(r)  BY DEF Proceed
<1>1. call.op = "list" \/ (call.op = "get" /\ call.arg \in {"x", "x.bak", "y", "y.bak"})
  BY DEF Open, JobFits, Belongs
<1>a. \A n \in {"x", "x.bak", "y", "y.bak"} : Belongs("get", n) /\ Along("get", 0)  BY DEF Belongs, Along, Usable, Ops, OAuth
<1>2. ASSUME NEW b \in Books, DiscoverNext(b) PROVE Landed
  <2>1. book' = b  BY <1>2 DEF DiscoverNext
  <2>2. CASE b.todo = {}
    <3>1. Result(DiscoverReply(b.took, b.lost))
      <4>1. b.took \in SUBSET Values  BY DEF Books, Values, Names
      <4> QED  BY <4>1, TextsAre, NotStorageResult DEF DiscoverReply, Result
    <3> QED  BY <1>2, <2>1, <2>2, <3>1, FinishEnds DEF DiscoverNext, Landed
  <2>3. CASE b.todo # {}
    <3>1. PICK n \in b.todo : call' = Fresh("get", n) /\ UNCHANGED outcome  BY <1>2, <2>3 DEF DiscoverNext
    <3>2. n \in {"x", "y"}  BY DEF Books
    <3>3. Starts  BY <1>a, <3>1, <3>2, CallStarts DEF ObjectOps, Names
    <3> QED  BY <2>1, <3>1, <3>3 DEF Landed
  <2> QED  BY <2>2, <2>3
<1>3. CASE call.op = "list" /\ r.tag = "err"
  BY <1>0, <1>3, FinishEnds DEF Discover, Landed
<1>4. CASE call.op = "list" /\ r.tag # "err"
  <2> DEFINE b == [book EXCEPT !.todo = {n \in {"x", "y"} : n \in r.val \/ Bak(n) \in r.val}]
  <2>1. b \in Books  BY DEF Books
  <2>2. DiscoverNext(b)  BY <1>0, <1>4 DEF Discover
  <2> HIDE DEF b
  <2> QED  BY <1>2, <2>1, <2>2
<1>5. CASE call.op # "list" /\ WantsMirror(r)
  <2>0. call.arg \in {"x", "y"} /\ Bak(call.arg) \in {"x.bak", "y.bak"}  BY <1>5 DEF WantsMirror, Bak
  <2>1. call' = Fresh("get", Bak(call.arg)) /\ book' = [book EXCEPT !.held = r] /\ UNCHANGED outcome
    BY <1>0, <1>5 DEF Discover, ReadMirror
  <2>2. book' \in Books  BY <2>1 DEF Books, Result
  <2>3. Starts  BY <1>a, <2>0, <2>1, CallStarts DEF ObjectOps, Names
  <2> QED  BY <2>1, <2>2, <2>3 DEF Landed
<1>6. CASE call.op # "list" /\ ~WantsMirror(r)
  <2> DEFINE b == [book EXCEPT
           !.todo = @ \ {Name}, !.held = Pending,
           !.took = IF Critical(r).tag = "ok" THEN @ \cup {Name} ELSE @,
           !.lost = IF Critical(r).tag = "err" THEN @ \cup {Name} ELSE @]
  <2>1. b \in Books
    <3>1. Name \in {"x", "y"}  BY DEF Name
    <3> QED  BY <3>1, TextsAre DEF Books
  <2>2. DiscoverNext(b)  BY <1>0, <1>6 DEF Discover
  <2> HIDE DEF b
  <2> QED  BY <1>2, <2>1, <2>2
<1> QED  BY <1>3, <1>4, <1>5, <1>6

LEMMA PackMapLands ==
    ASSUME Base, call.at # "idle", job = "packmap", NEW r, Result(r), Proceed(r)
    PROVE  Landed
<1> USE DEF Base, Shapes
<1>0. PackMap(r)  BY DEF Proceed
<1>1. call.op = "list" \/ (call.op \in {"size", "range"} /\ call.arg \in {"x", "y"})
  BY DEF Open, JobFits, Belongs
<1>a. \A n \in {"x", "y"}, op \in {"size", "range"} : Belongs(op, n) /\ Along(op, 0)  BY DEF Belongs, Along, Usable, Ops, OAuth
<1>2. ASSUME NEW b \in Books, PackMapNext(b) PROVE Landed
  <2>1. book' = b  BY <1>2 DEF PackMapNext
  <2>2. CASE b.todo = {}
    <3>1. Result(Ok(b.took))
      <4>1. b.took \in SUBSET Values  BY DEF Books, Values, Names
      <4> QED  BY <4>1, TextsAre DEF Result
    <3> QED  BY <1>2, <2>1, <2>2, <3>1, FinishEnds DEF PackMapNext, Landed
  <2>3. CASE b.todo # {}
    <3>1. PICK n \in b.todo : call' = Fresh("size", n) /\ UNCHANGED outcome  BY <1>2, <2>3 DEF PackMapNext
    <3>2. n \in {"x", "y"}  BY DEF Books
    <3>3. Starts  BY <1>a, <3>1, <3>2, CallStarts DEF ObjectOps, Names
    <3> QED  BY <2>1, <3>1, <3>3 DEF Landed
  <2> QED  BY <2>2, <2>3
<1> DEFINE rest == [book EXCEPT !.todo = @ \ {call.arg}, !.part = 0]
           more == [rest EXCEPT !.took = @ \cup {call.arg}]
           list == [book EXCEPT !.todo = r.val \cap {"x", "y"}]
<1>b. list \in Books /\ rest \in Books
  <2>1. list \in Books  BY DEF Books
  <2>2. rest \in Books
    <3>1. 0 \in 0 .. 1 /\ book.todo \ {call.arg} \in SUBSET {"x", "y"}  BY DEF Books
    <3> HIDE DEF more
    <3> QED  BY <3>1 DEF Books
  <2> QED  BY <2>1, <2>2
<1>c. call.op # "list" => more \in Books  BY <1>1, <1>b DEF Books
<1>3. CASE call.op = "list" /\ r.tag = "err"
  BY <1>0, <1>3, FinishEnds DEF PackMap, Landed
<1>4. CASE call.op = "list" /\ r.tag # "err"
  <2>1. PackMapNext(list)  BY <1>0, <1>4 DEF PackMap
  <2> HIDE DEF list
  <2> QED  BY <1>2, <1>b, <2>1
<1>5. CASE call.op # "list" /\ (r.tag = "err" \/ (call.op = "range" /\ r.val # {"good"}))
  <2>1. PackMapNext(rest)  BY <1>0, <1>5 DEF PackMap
  <2> HIDE DEF rest
  <2> QED  BY <1>2, <1>b, <2>1
<1>6. CASE call.op = "range" /\ book.part = 1 /\ ~(r.tag = "err" \/ (call.op = "range" /\ r.val # {"good"}))
  <2>1. PackMapNext(more)  BY <1>0, <1>6 DEF PackMap
  <2>2. more \in Books  BY <1>c, <1>6
  <2> HIDE DEF more
  <2> QED  BY <1>2, <2>1, <2>2
<1>7. CASE /\ call.op # "list" /\ ~(call.op = "range" /\ book.part = 1)
           /\ ~(r.tag = "err" \/ (call.op = "range" /\ r.val # {"good"}))
  <2>1. /\ call' = Fresh("range", call.arg) /\ UNCHANGED outcome
        /\ book' = [book EXCEPT !.part = IF call.op = "range" THEN 1 ELSE 0]
    BY <1>0, <1>7 DEF PackMap
  <2>2. book' \in Books  BY <2>1 DEF Books
  <2>3. call.arg \in {"x", "y"}  BY <1>1, <1>7
  <2>4. Starts  BY <1>a, <2>1, <2>3, CallStarts DEF ObjectOps, Names
  <2> QED  BY <2>1, <2>2, <2>4 DEF Landed
<1> QED  BY <1>3, <1>4, <1>5, <1>6, <1>7

LEMMA ChunkLands ==
    ASSUME Base, call.at # "idle", job = "chunk", NEW r, Result(r), Proceed(r)
    PROVE  Landed
<1> USE DEF Base, Shapes
<1>0. Chunk(r)  BY DEF Proceed
<1>a. \A n \in {"x", "x.par"} : Belongs("get", n) /\ Along("get", 0)  BY DEF Belongs, Along, Usable, Ops, OAuth
<1>1. CASE call.op = "range" /\ (r.tag = "err" \/ r.val = {"good"})
  BY <1>0, <1>1, FinishEnds DEF Chunk, Landed
<1>2. CASE call.op = "range" /\ ~(r.tag = "err" \/ r.val = {"good"})
  <2>1. call' = Fresh("get", "x.par") /\ UNCHANGED <<book, outcome>>  BY <1>0, <1>2 DEF Chunk
  <2>2. Starts  BY <1>a, <2>1, CallStarts DEF ObjectOps, Names
  <2> QED  BY <2>1, <2>2 DEF Landed
<1>3. CASE call.op # "range" /\ r.tag = "err"
  <2>1. Finish(Err({NotStorage})) /\ UNCHANGED book  BY <1>0, <1>3 DEF Chunk, ChunkError
  <2> QED  BY <2>1, FinishEnds, NotStorageResult DEF Landed
<1>4. CASE call.op # "range" /\ r.tag # "err" /\ call.arg = "x.par"
  <2>1. call' = Fresh("get", "x") /\ book' = [book EXCEPT !.held = r] /\ UNCHANGED outcome
    BY <1>0, <1>4 DEF Chunk
  <2>2. book' \in Books  BY <2>1 DEF Books, Result
  <2>3. Starts  BY <1>a, <2>1, CallStarts DEF ObjectOps, Names
  <2> QED  BY <2>1, <2>2, <2>3 DEF Landed
<1>5. CASE call.op # "range" /\ r.tag # "err" /\ call.arg # "x.par"
  <2>1. PICK q \in {Ok({"good"}), Err({NotStorage})} : Finish(q) /\ UNCHANGED book
    BY <1>0, <1>5 DEF Chunk, ChunkError
  <2>2. Result(q)
    <3>1. {"good"} \in SUBSET Values  BY DEF Values
    <3>2. Result(Ok({"good"}))  BY <3>1, TextsAre DEF Result
    <3> QED  BY <3>2, NotStorageResult
  <2> QED  BY <2>1, <2>2, FinishEnds DEF Landed
<1> QED  BY <1>1, <1>2, <1>3, <1>4, <1>5

LEMMA ConnectLands ==
    ASSUME Base, call.at # "idle", job \in {"connect", "test"}, NEW r, Result(r), Reaches(r), Proceed(r)
    PROVE  Landed
<1> USE DEF Base, Shapes
<1>0. Connect(r) /\ call.op \in {"build", "probe", "list"}  BY DEF Proceed, Open, JobFits, Belongs
<1>1. ConnectFits  BY DEF Open
<1>2. CASE r.tag = "err" \/ call.op = "list"
  <2>1. Finish(r) /\ UNCHANGED book  BY <1>0, <1>2 DEF Connect
  <2>2. outcome' = r /\ Ends  BY <2>1, FinishEnds
  <2>3. r.tag = "ok" => /\ world.good /\ Usable
                        /\ kind \in Rooted => world.root
    BY <1>1, <1>2, <2>1 DEF Result, ConnectFits, Along, Usable, Reaches, Strict, Rooted
  <2>4. world.conf \in Confs(kind) /\ (world.conf = "keyless" => ~world.good)
    BY WorldIs DEF Typed, kind
  <2>5. r.tag = "ok" => /\ world.conf \notin {"half", "none", "keyless"}
                        /\ kind = "azure" => world.conf = "ends"
    BY <2>3, <2>4 DEF Usable, Confs, OAuth
  <2> QED  BY <2>1, <2>2, <2>3, <2>5 DEF Landed
<1>3. CASE r.tag # "err" /\ call.op # "list"
  <2> DEFINE op == IF call.op = "build" THEN "probe" ELSE "list"
  <2>1. call' = Fresh(op, "x") /\ UNCHANGED <<book, outcome>>  BY <1>0, <1>3 DEF Connect, AfterBuild
  <2>2. Belongs(op, "x")  BY DEF Belongs, Ops, OAuth
  <2>3. Along(op, 0)  BY <1>0, <1>1, <1>3 DEF Result, Reaches, Along, Usable, ConnectFits
  <2>4. op \in ObjectOps \cup Listings \cup {"probe"} /\ "x" \in Names \cup {"y.bak"}  BY DEF Listings, Names
  <2> HIDE DEF op
  <2>5. Starts  BY <2>1, <2>2, <2>3, <2>4, CallStarts
  <2> QED  BY <2>1, <2>5 DEF Landed
<1> QED  BY <1>2, <1>3

LEMMA ProceedLands ==
    ASSUME Base, call.at # "idle", NEW r, Result(r), Reaches(r), Proceed(r)
    PROVE  Landed
<1>1. job \in Jobs(kind)  BY WorldIs DEF Base, Shapes
<1>2. CASE job \in {"critical", "discover", "packmap", "chunk", "connect", "test"}
  BY <1>2, CriticalLands, DiscoverLands, PackMapLands, ChunkLands, ConnectLands
<1>3. CASE job \notin {"critical", "discover", "packmap", "chunk", "connect", "test"}
  <2>1. Finish(r) /\ UNCHANGED book  BY <1>3 DEF Proceed
  <2> QED  BY <1>3, <2>1, FinishEnds DEF Landed, Base, Shapes
<1> QED  BY <1>2, <1>3

LEMMA ReturnsLands ==
    ASSUME Base, call.at # "idle", NEW r, Result(r), Reaches(r), Returns(r)
    PROVE  Landed
<1> USE DEF Base, Shapes
<1>1. CASE r.tag = "err" /\ Retried /\ IsTransient(r.text) /\ ~Exhausted
  <2> DEFINE tries == IF job = "test" THEN call.tries + 1 ELSE 0
  <2>1. call' = [Fresh(call.op, call.arg) EXCEPT !.tries = tries] /\ UNCHANGED <<book, outcome>>
    BY <1>1 DEF Returns
  <2>2. tries \in 0 .. 2  BY <1>1 DEF Exhausted, Calls
  <2>3. call.op \in ObjectOps \cup Listings \cup {"probe"} /\ call.arg \in Names \cup {"y.bak"}
    <3>1. call.op # "none"
      BY OpsFit DEF Open, ObjectOps, Listings
    <3> QED  BY <1>1, <3>1 DEF Retried, Calls
  <2>4. Belongs(call.op, call.arg) /\ Along(call.op, 0)  BY DEF Open, JobFits, ConnectFits, Along, Usable
  <2> HIDE DEF tries
  <2>5. Starts  BY <2>1, <2>2, <2>3, <2>4, FreshStarts
  <2> QED  BY <2>1, <2>5 DEF Landed
<1>2. CASE ~(r.tag = "err" /\ Retried /\ IsTransient(r.text) /\ ~Exhausted)
  BY <1>2, ProceedLands DEF Returns
<1> QED  BY <1>1, <1>2

(* A backend is built only from a configuration that is complete. *)
LEMMA NewReaches ==
    ASSUME world \in Worlds, kind # "b2"
    PROVE  Result(New) /\ (New.tag = "ok" => Usable)
<1>1. world.conf \in Confs(kind) /\ kind \in Http \cup Files  BY WorldIs DEF Typed, kind
<1>2. Result(Ok({})) /\ Result(Err({})) /\ Result(Err({NotStorage}))
  <2>1. {} \in SUBSET Values /\ {} \in SUBSET Texts  OBVIOUS
  <2> QED  BY <2>1, TextsAre, NotStorageResult DEF Result
<1>3. Err({}).tag # "ok" /\ Err({NotStorage}).tag # "ok"  BY DEF Err
<1>4. New \in {Ok({}), Err({}), Err({NotStorage})} /\ (New = Ok({}) => Usable)
  <2> USE <1>1, <1>3 DEF Confs, OAuth, Usable
  <2>0. Ok({}).tag = "ok"  BY DEF Ok
  <2>1. CASE kind \in {"s3", "s3_compat"}  BY <2>0, <2>1 DEF New, S3New, S3CompatNew
  <2>2. CASE kind = "azure"  BY <2>0, <2>2 DEF New, AzureNew
  <2>3. CASE kind = "gcs"  BY <2>0, <2>3 DEF New, GcsNew
  <2>4. CASE kind = "googledrive"  BY <2>0, <2>4 DEF New, DriveNew
  <2>5. CASE kind = "onedrive"  BY <2>0, <2>5 DEF New, OneDriveNew
  <2>6. CASE kind = "dropbox"  BY <2>0, <2>6 DEF New, DropboxNew
  <2>7. CASE kind = "webdav"  BY <2>0, <2>7 DEF New, WebDavNew
  <2>8. CASE kind = "local"  BY <2>0, <2>8 DEF New, LocalNew
  <2>9. CASE kind \in {"sftp", "smb", "smb_direct"}  BY <2>0, <2>9 DEF New
  <2> QED  BY <2>1, <2>2, <2>3, <2>4, <2>5, <2>6, <2>7, <2>8, <2>9 DEF Http, Files, Stores
<1> QED  BY <1>2, <1>3, <1>4

(* Wherever it lands, the rest of the state fits it. *)
LEMMA LandedFits ==
    ASSUME Base, call.at # "idle", Landed, UNCHANGED world
    PROVE  /\ call' \in Calls /\ book' \in Books /\ outcome' \in Results /\ Open' /\ ConnectedMeansReached'
           /\ (Done <=> call.at = "idle")'
           /\ call'.tok = 0 /\ (kind \in OAuth => call'.at \notin {"ask", "arriving", "renewed"})
<1> USE DEF Base, Shapes
<1>0. outcome.tag = "none" /\ kind' = kind /\ job' = job  BY DEF Done, kind, job
<1>1. CASE Starts /\ UNCHANGED outcome
  <2>1. call' \in Calls /\ book' \in Books /\ outcome' \in Results  BY <1>1 DEF Landed, Starts
  <2>2. JobFits'  BY <1>0, <1>1 DEF Starts, JobFits, Belongs, Ops
  <2>3. ConnectFits'  BY <1>0, <1>1 DEF Starts, ConnectFits, Along, Usable
  <2>4. PlaceFits'  BY <1>0, <1>1 DEF Starts, PlaceFits
  <2>5. ConnectedMeansReached'  BY <1>0, <1>1 DEF ConnectedMeansReached, Done
  <2>6. (Done <=> call.at = "idle")'  BY <1>0, <1>1 DEF Done, Starts
  <2>7. call'.tok = 0 /\ (kind \in OAuth => call'.at \notin {"ask", "arriving", "renewed"})  BY <1>1 DEF Starts
  <2> QED  BY <2>1, <2>2, <2>3, <2>4, <2>5, <2>6, <2>7 DEF Open
<1>2. CASE Ends /\ (job \in {"connect", "test"} /\ outcome'.tag = "ok" =>
                     /\ world.good /\ world.conf \notin {"half", "none", "keyless"}
                     /\ kind = "azure" => world.conf = "ends"
                     /\ kind \in Rooted => world.root)
  <2>1. /\ call' \in Calls /\ call'.at = "idle" /\ call'.tok = 0
    <3>1. call' = [op |-> "none", arg |-> "x", stage |-> 0, page |-> 1, got |-> {}, tries |-> 0, again |-> FALSE,
                   tok |-> 0, at |-> "idle"]
      BY <1>2 DEF Ends, Idle, Fresh
    <3> QED  BY <3>1 DEF Calls, Names, Places
  <2>2. book' \in Books /\ outcome' \in Results  BY <1>2 DEF Landed, Ends
  <2>3. Open'  BY <2>1 DEF Open
  <2>4. ConnectedMeansReached'  BY <1>0, <1>2 DEF ConnectedMeansReached, Done
  <2>5. (Done <=> call.at = "idle")'  BY <1>2, <2>1 DEF Done, Ends
  <2> QED  BY <2>1, <2>2, <2>3, <2>4, <2>5
<1> QED  BY <1>1, <1>2 DEF Landed

(* And where a job ends nothing moves any more. *)
LEMMA DoneStays ==
    ASSUME Base, Next, Done
    PROVE  UNCHANGED vars
<1>1. call.at = "idle"  BY DEF Base
<1> QED  BY <1>1 DEF Next, Layers, Hangs, Build, GetToken, TokenIsStale, RefreshIssued, RefreshFails, RefreshArrives,
                    Exchange, ExchangeFails, TestTimesOut, TokenAges, TokensDie, OtherRefreshes, OtherArrives,
                    Unmounts, Finished

LEMMA InitBase ==
    ASSUME Init
    PROVE  Base
<1> USE DEF Init
<1>0. world \in Worlds /\ job \in Jobs(kind) /\ Typed(world)  BY WorldIs
<1>1. root \in BOOLEAN  BY <1>0 DEF Typed
<1>2. call = FirstCall  OBVIOUS
<1>3. outcome \in Results /\ ~Done  BY TextsAre DEF Done, Pending
<1>4. book \in Books  BY TextsAre DEF Books
<1>5. /\ cached \in [tok : Nat, fresh : BOOLEAN] /\ tokens \in [issued : Nat, alive : SUBSET Nat]
      /\ cached.tok = tokens.issued /\ tokens.alive = 1 .. tokens.issued
      /\ tokens.issued = IF kind \in OAuth \cup {"b2"} /\ job \notin {"connect", "test"} THEN 1 ELSE 0
  OBVIOUS
<1>6. /\ call \in Calls /\ call.at # "idle" /\ Open /\ call.tok = 0
      /\ kind \in OAuth => call.at \notin {"ask", "arriving", "renewed"}
  <2>1. CASE job \in {"connect", "test"}
    <3>1. call = [op |-> "build", arg |-> "x", stage |-> 0, page |-> 1, got |-> {}, tries |-> 0, again |-> FALSE,
                  tok |-> 0, at |-> "build"]
      BY <1>2, <2>1 DEF FirstCall, Fresh
    <3>2. call \in Calls  BY <3>1 DEF Calls, Names, Places
    <3>3. JobFits /\ PlaceFits /\ ConnectFits
      BY <2>1, <3>1 DEF JobFits, Belongs, PlaceFits, ConnectFits, Along, Usable, Ops, OAuth
    <3> QED  BY <3>1, <3>2, <3>3 DEF Open
  <2>2. CASE job \notin {"connect", "test"}
    <3>1. PICK op \in ObjectOps \cup Listings : call = Fresh(op, "x") /\ Belongs(op, "x")
      <4>1. CASE job \in {"critical", "discover", "packmap", "chunk"}
        BY <1>2, <4>1 DEF FirstCall, Belongs, ObjectOps, Listings, Ops, OAuth
      <4>2. CASE job \in Ops(kind)
        BY <1>2, <4>2 DEF FirstCall, Belongs, ObjectOps, Listings, Ops, OAuth
      <4> QED  BY <1>0, <2>2, <4>1, <4>2 DEF Jobs
    <3>2. op # "build"  BY DEF ObjectOps, Listings
    <3>3. call = [op |-> op, arg |-> "x", stage |-> 0, page |-> 1, got |-> {}, tries |-> 0, again |-> FALSE,
                  tok |-> 0, at |-> FirstPlace(op)]
      BY <3>1 DEF Fresh, FirstPlace
    <3>4. FirstPlace(op) \in {"token", "ask"} /\ (FirstPlace(op) = "token" <=> kind \in OAuth \cup {"b2"})
      BY <3>2 DEF FirstPlace
    <3>5. call \in Calls
      <4>1. FirstPlace(op) \in Places  BY <3>4 DEF Places
      <4> QED  BY <3>3, <4>1 DEF Calls, Names
    <3>6. JobFits /\ PlaceFits /\ ConnectFits
      BY <2>2, <3>1, <3>2, <3>3, <3>4 DEF JobFits, PlaceFits, ConnectFits, Along, Usable
    <3> QED  BY <3>3, <3>4, <3>5, <3>6 DEF Open
  <2> QED  BY <2>1, <2>2
<1>7. TokensFit /\ other = 0 /\ other \in Nat  BY <1>5, <1>6 DEF TokensFit
<1>8. RootFits  BY <1>1 DEF RootFits
<1>9. faults \in 0 .. MaxFaults /\ deaths \in 0 .. MaxDeaths /\ aged \in BOOLEAN
  <2>1. MaxFaults \in Nat /\ MaxDeaths \in Nat  BY StorageCallsAssumption
  <2>2. faults = 0 /\ deaths = 0  OBVIOUS
  <2>3. aged \in BOOLEAN  OBVIOUS
  <2> HIDE DEF Init
  <2>4. faults \in 0 .. MaxFaults /\ deaths \in 0 .. MaxDeaths  BY <2>1, <2>2
  <2> QED  BY <2>3, <2>4
<1>10. ConnectedMeansReached  BY <1>3 DEF ConnectedMeansReached
<1> QED  BY <1>0, <1>1, <1>3, <1>4, <1>5, <1>6, <1>7, <1>8, <1>9, <1>10 DEF Base, Shapes

(* Each action keeps the invariant. *)
LEMMA BuildBase ==
    ASSUME Base, Build
    PROVE  Base'
<1> USE DEF Base, Shapes
<1>0. /\ call.at = "build" /\ call.op = "build" /\ job \in {"connect", "test"} /\ call.tok = 0 /\ call.stage = 0
      /\ UNCHANGED <<world, cached, tokens, other, faults, deaths, aged>> /\ kind' = kind /\ job' = job
  BY DEF Build, Open, PlaceFits, kind, job
<1>1. root' = (root \/ (kind = "local" /\ New.tag = "ok"))  BY DEF Build
<1>2. RootFits' /\ root' \in BOOLEAN  BY <1>0, <1>1 DEF RootFits
<1>3. CASE kind = "b2"
  <2>1. call' = [call EXCEPT !.at = "ask"] /\ UNCHANGED <<book, outcome>>  BY <1>3 DEF Build
  <2>2. call' \in Calls  BY <2>1 DEF Calls, Places
  <2>3. Open'  BY <1>0, <1>3, <2>1 DEF Open, Calls, JobFits, Belongs, PlaceFits, ConnectFits, Along, Usable, Ops, OAuth
  <2>4. TokensFit'  BY <1>0, <1>3, <2>1 DEF TokensFit, Calls, OAuth
  <2>5. (Done <=> call.at = "idle")' /\ ConnectedMeansReached'
    BY <1>0, <2>1 DEF Calls, Done, ConnectedMeansReached
  <2> QED  BY <1>0, <1>2, <2>1, <2>2, <2>3, <2>4, <2>5
<1>4. CASE kind # "b2"
  <2>1. Result(New) /\ Reaches(New)  BY <1>0, <1>4, NewReaches DEF Reaches
  <2>2. Proceed(New)  BY <1>4 DEF Build
  <2>3. Landed  BY <1>0, <2>1, <2>2, ProceedLands
  <2>4. TokensFit'  BY <1>0, <2>3, LandedFits DEF TokensFit
  <2> QED  BY <1>0, <1>2, <2>3, <2>4, LandedFits
<1> QED  BY <1>3, <1>4

LEMMA TokenBase ==
    ASSUME Base, GetToken \/ TokenIsStale \/ RefreshIssued \/ RefreshArrives
    PROVE  Base'
<1> USE DEF Base, Shapes
<1>0. /\ call.at \in {"token", "refresh", "renew", "arriving", "renewed"} /\ kind \in OAuth \cup {"b2"}
      /\ UNCHANGED <<world, root, book, outcome, other, faults, deaths, aged>> /\ kind' = kind /\ job' = job
  BY DEF GetToken, TokenIsStale, RefreshIssued, RefreshArrives, Open, PlaceFits, kind, job
<1>1. call \in Calls /\ JobFits /\ PlaceFits /\ ConnectFits /\ call.op # "build" /\ call.stage = 0 /\ TokensFit
  BY <1>0 DEF Open, PlaceFits
<1>2. RootFits' /\ ConnectedMeansReached'
  BY <1>0 DEF RootFits, ConnectedMeansReached, Done
<1>3. ASSUME NEW at \in Places \ {"idle", "build", "hung"}, NEW tok \in Nat, call' = [call EXCEPT !.at = at, !.tok = tok],
             at = "refresh" => kind \in OAuth
      PROVE  call' \in Calls /\ Open' /\ (Done <=> call.at = "idle")'
  <2>1. call' \in Calls /\ call'.op = call.op /\ call'.arg = call.arg /\ call'.stage = call.stage /\ call'.at = at
        /\ call'.again = call.again
    BY <1>1, <1>3 DEF Calls
  <2>2. JobFits'  BY <1>0, <1>1, <2>1 DEF JobFits, Belongs, Ops
  <2>3. PlaceFits'  BY <1>0, <1>1, <1>3, <2>1 DEF PlaceFits
  <2>4. ConnectFits'  BY <1>0, <1>1, <2>1 DEF ConnectFits, Along, Usable
  <2>5. (Done <=> call.at = "idle")'  BY <1>0, <1>3, <2>1 DEF Done
  <2> QED  BY <2>1, <2>2, <2>3, <2>4, <2>5 DEF Open
<1>4. CASE GetToken
  <2>1. call' = [call EXCEPT !.at = "ask", !.tok = cached.tok] /\ UNCHANGED <<cached, tokens>>  BY <1>4 DEF GetToken
  <2>2. call' \in Calls /\ Open' /\ (Done <=> call.at = "idle")'
    <3>1. "ask" \in Places \ {"idle", "build", "hung"} /\ cached.tok \in Nat  BY DEF Places
    <3> QED  BY <1>3, <2>1, <3>1
  <2>3. TokensFit'  BY <1>0, <1>1, <1>4, <2>1 DEF TokensFit, GetToken, Calls, OAuth
  <2> QED  BY <1>0, <1>2, <2>1, <2>2, <2>3
<1>5. CASE TokenIsStale
  <2>1. call' = [call EXCEPT !.at = "refresh", !.tok = call.tok] /\ UNCHANGED <<cached, tokens>> /\ kind \in OAuth
    BY <1>1, <1>5 DEF TokenIsStale, Calls
  <2>2. call' \in Calls /\ Open' /\ (Done <=> call.at = "idle")'
    <3>1. "refresh" \in Places \ {"idle", "build", "hung"} /\ call.tok \in Nat  BY <1>1 DEF Places, Calls
    <3> QED  BY <1>3, <2>1, <3>1
  <2>3. TokensFit'  BY <1>0, <1>1, <2>1 DEF TokensFit, Calls
  <2> QED  BY <1>0, <1>2, <2>1, <2>2, <2>3
<1>6. CASE RefreshIssued
  <2> DEFINE at == IF call.at = "renew" THEN "renewed" ELSE "arriving"
  <2>1. /\ call' = [call EXCEPT !.at = at, !.tok = tokens.issued + 1] /\ UNCHANGED cached /\ world.good
        /\ tokens' = [issued |-> tokens.issued + 1, alive |-> tokens.alive \cup {tokens.issued + 1}]
    BY <1>6 DEF RefreshIssued
  <2>2. at \in Places \ {"idle", "build", "hung"} /\ at # "refresh" /\ tokens.issued + 1 \in Nat  BY DEF Places
  <2> HIDE DEF at
  <2>3. call' \in Calls /\ Open' /\ (Done <=> call.at = "idle")'  BY <1>3, <2>1, <2>2
  <2>4. tokens' \in [issued : Nat, alive : SUBSET Nat]  BY <2>1, <2>2
  <2>5. TokensFit'
    <3>1. call'.tok = tokens.issued + 1 /\ call'.tok # 0  BY <1>1, <2>1 DEF Calls
    <3>2. tokens'.issued = tokens.issued + 1 /\ tokens'.alive = tokens.alive \cup {tokens.issued + 1}  BY <2>1
    <3>3. tokens'.alive \subseteq 1 .. tokens'.issued  BY <1>1, <3>2 DEF TokensFit
    <3>4. deaths = 0 => tokens'.alive = 1 .. tokens'.issued  BY <1>1, <3>2 DEF TokensFit
    <3> QED  BY <1>0, <1>1, <2>1, <3>1, <3>2, <3>3, <3>4 DEF TokensFit
  <2> QED  BY <1>0, <1>2, <2>1, <2>3, <2>4, <2>5
<1>7. CASE RefreshArrives
  <2> DEFINE at == IF call.at = "renewed" THEN "token" ELSE "ask"
             tok == IF call.at = "renewed" THEN 0 ELSE call.tok
  <2>1. /\ call' = [call EXCEPT !.at = at, !.tok = tok] /\ UNCHANGED tokens
        /\ cached' = [tok |-> call.tok, fresh |-> TRUE]
    <3>1. CASE call.at = "renewed"  BY <1>7, <3>1 DEF RefreshArrives
    <3>2. CASE call.at # "renewed"  BY <1>1, <1>7, <3>2 DEF RefreshArrives, Calls
    <3> QED  BY <3>1, <3>2
  <2>2. at \in Places \ {"idle", "build", "hung"} /\ at # "refresh" /\ tok \in Nat /\ tok <= call.tok
        /\ (at = "ask" => tok = call.tok) /\ at \in {"token", "ask"} /\ (tok # 0 => tok = call.tok)
        /\ (at = "ask" => call.at = "arriving")
    BY <1>1, <1>7 DEF Places, Calls, RefreshArrives
  <2> HIDE DEF at, tok
  <2>3. call' \in Calls /\ Open' /\ (Done <=> call.at = "idle")'  BY <1>3, <2>1, <2>2
  <2>4. call'.tok = tok /\ call'.at = at  BY <1>1, <2>1 DEF Calls
  <2>5. TokensFit'  BY <1>0, <1>1, <2>1, <2>2, <2>4 DEF TokensFit, Calls
  <2>6. cached' \in [tok : Nat, fresh : BOOLEAN]  BY <1>1, <2>1 DEF Calls
  <2> QED  BY <1>0, <1>2, <2>1, <2>3, <2>5, <2>6
<1> QED  BY <1>4, <1>5, <1>6, <1>7

LEMMA RenewFits ==
    ASSUME Base, call.at = "ask", kind \in OAuth \cup {"b2"}, call.op # "build", UNCHANGED <<world, book, outcome>>,
           call' = [op |-> call.op, arg |-> call.arg, stage |-> 0, page |-> 1, got |-> {}, tries |-> call.tries,
                   again |-> TRUE, tok |-> 0, at |-> "renew"]
    PROVE  call' \in Calls /\ Open' /\ (Done <=> call.at = "idle")' /\ call'.tok = 0 /\ call'.at = "renew"
<1> USE DEF Base, Shapes
<1>0. JobFits /\ PlaceFits /\ ConnectFits /\ call \in Calls /\ kind' = kind /\ job' = job
  BY DEF Open, kind, job
<1>2. call' \in Calls  BY <1>0 DEF Calls, Places
<1>3. JobFits'  BY <1>0 DEF JobFits, Belongs, Ops
<1>4. PlaceFits'  BY <1>0 DEF PlaceFits
<1>5. ConnectFits'  BY <1>0 DEF ConnectFits, Along, Usable
<1>6. (Done <=> call.at = "idle")'  BY DEF Done
<1> QED  BY <1>2, <1>3, <1>4, <1>5, <1>6 DEF Open

LEMMA NextFits ==
    ASSUME Base, call.at = "ask", NEW r, Continues(r), UNCHANGED <<world, book, outcome>>,
           call' = [call EXCEPT !.stage = r.stage, !.got = r.val,
                      !.page = IF Request(call.op, call.stage) = "page" THEN @ + 1 ELSE @]
    PROVE  /\ call' \in Calls /\ Open' /\ (Done <=> call.at = "idle")'
           /\ call'.tok = call.tok /\ call'.at = "ask" /\ call'.op = call.op
<1> USE DEF Base, Shapes
<1>0. JobFits /\ PlaceFits /\ ConnectFits /\ TokensFit /\ call \in Calls /\ kind' = kind /\ job' = job
  BY DEF Open, kind, job
<1>1. PICK page : /\ call' = [call EXCEPT !.stage = r.stage, !.got = r.val, !.page = page]
                  /\ page = IF Request(call.op, call.stage) = "page" THEN call.page + 1 ELSE call.page
  OBVIOUS
<1>2. page \in 1 .. 2  BY <1>0, <1>1 DEF Continues, Calls
<1>3. /\ call'.op = call.op /\ call'.arg = call.arg /\ call'.stage = r.stage /\ call'.at = "ask"
      /\ call'.tok = call.tok /\ call'.again = call.again
  BY <1>0, <1>1 DEF Calls
<1>4. call' \in Calls
  <2>1. r.stage \in 0 .. 2 /\ r.val \in SUBSET Names  BY DEF Continues
  <2> QED  BY <1>0, <1>1, <1>2, <2>1 DEF Calls
<1>5. JobFits'  BY <1>0, <1>3 DEF JobFits, Belongs, Ops
<1>6. PlaceFits'  BY <1>0, <1>3 DEF PlaceFits
<1>7. ConnectFits'
  <2>1. call.op = "build" /\ job \in {"connect", "test"} => world.good
    BY <1>0 DEF Continues, PlaceFits, Accepted
  <2> QED  BY <1>0, <1>3, <2>1 DEF ConnectFits, Along, Usable
<1>8. (Done <=> call.at = "idle")'  BY <1>3 DEF Done
<1> QED  BY <1>3, <1>4, <1>5, <1>6, <1>7, <1>8 DEF Open

LEMMA TakesFits ==
    ASSUME Base, call.at = "ask", NEW a, NEW broken, Meets(a, broken), Takes(a), UNCHANGED <<world>>
    PROVE  /\ call' \in Calls /\ book' \in Books /\ outcome' \in Results /\ Open' /\ ConnectedMeansReached'
           /\ (Done <=> call.at = "idle")'
           /\ call'.tok = 0 \/ call'.tok = call.tok
           /\ kind \in OAuth /\ call'.at \in {"ask", "arriving", "renewed"} => call'.tok = call.tok
<1> USE DEF Base, Shapes
<1>0. ~Done /\ kind' = kind /\ job' = job  BY DEF kind, job
<1>1. PICK r : r = Handle(a)  OBVIOUS
<1>2. CASE Renews(a, r)
  <2>1. call' = [Fresh(call.op, call.arg) EXCEPT !.at = "renew", !.again = TRUE, !.tries = call.tries]
        /\ UNCHANGED <<book, outcome>>
    BY <1>1, <1>2 DEF Takes
  <2>2. kind \in OAuth \cup {"b2"} /\ call.op # "build"  BY <1>2 DEF Renews
  <2>3. ConnectedMeansReached'  BY <1>0, <2>1 DEF ConnectedMeansReached, Done
  <2>4. call' = [op |-> call.op, arg |-> call.arg, stage |-> 0, page |-> 1, got |-> {}, tries |-> call.tries,
                   again |-> TRUE, tok |-> 0, at |-> "renew"]
    BY <2>1 DEF Fresh
  <2>5. UNCHANGED <<world, book, outcome>>  BY <2>1
  <2> QED  BY <2>2, <2>3, <2>4, <2>5, RenewFits
<1>3. CASE ~Renews(a, r) /\ r.tag = "next"
  <2>1. call' = [call EXCEPT !.stage = r.stage, !.got = r.val,
                      !.page = IF Request(call.op, call.stage) = "page" THEN @ + 1 ELSE @]
        /\ UNCHANGED <<book, outcome>>
    BY <1>1, <1>3 DEF Takes
  <2>2. Continues(r)  BY <1>1, <1>3, AnswerTells DEF Result
  <2>3. ConnectedMeansReached'  BY <1>0, <2>1 DEF ConnectedMeansReached, Done
  <2> QED  BY <2>1, <2>2, <2>3, NextFits
<1>4. CASE ~Renews(a, r) /\ r.tag # "next"
  <2>1. Returns(r)  BY <1>1, <1>4 DEF Takes
  <2>2. ~Continues(r)  BY <1>4 DEF Continues, More
  <2>3. Result(r) /\ Reaches(r)  BY <1>1, <2>2, AnswerTells
  <2>4. Landed  BY <2>1, <2>3, ReturnsLands
  <2> QED  BY <2>4, LandedFits
<1> QED  BY <1>2, <1>3, <1>4

LEMMA RefreshFailsBase ==
    ASSUME Base, RefreshFails
    PROVE  Base'
<1> USE DEF Base, Shapes
<1>0. /\ call.at \in {"refresh", "renew"} /\ UNCHANGED <<world, root, cached, tokens, other, deaths, aged>>
      /\ kind' = kind /\ job' = job
  BY DEF RefreshFails, kind, job
<1>1. faults' \in 0 .. MaxFaults /\ faults <= faults'
  <2>1. MaxFaults \in Nat  BY StorageCallsAssumption
  <2>2. faults' = faults \/ (faults < MaxFaults /\ faults' = faults + 1)  BY DEF RefreshFails
  <2> QED  BY <2>1, <2>2
<1>2. PICK s \in {"400", "401", "drop", "503"} : Returns(Err(StatusLine(s)))  BY DEF RefreshFails
<1>3. Result(Err(StatusLine(s))) /\ Err(StatusLine(s)).tag = "err"
  <2>1. s \in Codes  BY DEF Codes
  <2>2. StatusLine(s) \subseteq Texts \cup {"202", "206", "207"}  BY <2>1, SaysLine
  <2>3. StatusLine(s) \in SUBSET Texts  BY DEF StatusLine, Texts, Permanent, Transient
  <2> QED  BY <2>3, TextsAre DEF Result
<1>4. Landed  BY <1>0, <1>2, <1>3, ReturnsLands DEF Reaches
<1>5. TokensFit'  BY <1>0, <1>4, LandedFits DEF TokensFit
<1>6. RootFits'  BY <1>0, <1>1 DEF RootFits
<1> QED  BY <1>0, <1>1, <1>4, <1>5, <1>6, LandedFits

(* broken: the request failed, and one failure more is counted. *)
LEMMA ExchangeMeets ==
    ASSUME Exchange \/ ExchangeFails
    PROVE  \E a, broken : Meets(a, broken) /\ Takes(a) /\ (broken => faults' = faults + 1)
<1>1. CASE Exchange
  <2>1. Takes(IF Accepted THEN Honest ELSE Refusal)  BY <1>1 DEF Exchange
  <2>2. Meets(IF Accepted THEN Honest ELSE Refusal, FALSE)  BY DEF Meets
  <2> QED  BY <2>1, <2>2
<1>2. CASE ExchangeFails
  <2>1. PICK a \in Faulty : Takes(a)  BY <1>2 DEF ExchangeFails
  <2>2. Meets(a, TRUE) /\ faults' = faults + 1  BY <1>2 DEF ExchangeFails, Meets
  <2> QED  BY <2>1, <2>2
<1> QED  BY <1>1, <1>2

LEMMA ExchangeBase ==
    ASSUME Base, Exchange \/ ExchangeFails
    PROVE  Base'
<1> USE DEF Base, Shapes
<1>0. /\ call.at = "ask" /\ UNCHANGED <<world, root, other, deaths, aged>> /\ kind' = kind /\ job' = job
      /\ MaxFaults \in Nat
  BY StorageCallsAssumption DEF Exchange, ExchangeFails, kind, job
<1>1. PICK a, broken : Meets(a, broken) /\ Takes(a)  BY ExchangeMeets
<1>2. /\ call' \in Calls /\ book' \in Books /\ outcome' \in Results /\ Open' /\ ConnectedMeansReached'
      /\ (Done <=> call.at = "idle")'
      /\ call'.tok = 0 \/ call'.tok = call.tok
      /\ kind \in OAuth /\ call'.at \in {"ask", "arriving", "renewed"} => call'.tok = call.tok
  BY <1>0, <1>1, TakesFits
<1>3. faults' \in 0 .. MaxFaults /\ faults <= faults'
  BY <1>0 DEF Exchange, ExchangeFails
<1>4. RootFits'  BY <1>0, <1>3 DEF RootFits
<1>5. JobFits /\ PlaceFits /\ ConnectFits  BY <1>0 DEF Open
<1>6. CASE UNCHANGED <<cached, tokens>>
  <2>1. TokensFit'  BY <1>0, <1>2, <1>6 DEF TokensFit
  <2> QED  BY <1>0, <1>2, <1>3, <1>4, <1>6, <2>1
<1>7. CASE call.op = "build" /\ cached' = [tok |-> 1, fresh |-> TRUE] /\ tokens' = [issued |-> 1, alive |-> {1}] /\ world.good
  <2>1. call.tok = 0 /\ job \in {"connect", "test"} /\ kind = "b2" /\ other = 0  BY <1>0, <1>5, <1>7 DEF PlaceFits, TokensFit
  <2>2. cached' \in [tok : Nat, fresh : BOOLEAN] /\ tokens' \in [issued : Nat, alive : SUBSET Nat]
    BY <1>7
  <2>3. tokens'.issued = 1 /\ tokens'.alive = 1 .. 1 /\ cached'.tok = 1 /\ call'.tok = 0  BY <1>2, <1>7, <2>1
  <2>4. TokensFit'  BY <1>0, <1>2, <1>7, <2>1, <2>3 DEF TokensFit, OAuth
  <2> QED  BY <1>0, <1>2, <1>3, <1>4, <2>2, <2>4
<1> QED  BY <1>6, <1>7 DEF Exchange, ExchangeFails

LEMMA TimeoutBase ==
    ASSUME Base, TestTimesOut
    PROVE  Base'
<1> USE DEF Base, Shapes
<1>0. /\ call.at # "idle" /\ UNCHANGED <<world, root, book, cached, tokens, other, faults, deaths, aged>>
      /\ kind' = kind /\ job' = job
  BY DEF TestTimesOut, kind, job
<1>1. Result(Err({"timed out"})) /\ Err({"timed out"}).tag = "err"
  <2>1. {"timed out"} \in SUBSET Texts  BY DEF Texts, Transient
  <2> QED  BY <2>1, TextsAre DEF Result
<1>2. outcome' = Err({"timed out"}) /\ Ends  BY <1>1, FinishEnds DEF TestTimesOut
<1>3. Landed  BY <1>0, <1>1, <1>2 DEF Landed
<1>4. TokensFit'  BY <1>0, <1>3, LandedFits DEF TokensFit
<1>5. RootFits'  BY <1>0 DEF RootFits
<1> QED  BY <1>0, <1>3, <1>4, <1>5, LandedFits

LEMMA HangsBase ==
    ASSUME Base, Hangs
    PROVE  Base'
<1> USE DEF Base, Shapes
<1>0. /\ call.at = "ask" /\ kind \in Untimed /\ call' = [call EXCEPT !.at = "hung"]
      /\ UNCHANGED <<world, root, book, outcome, cached, tokens, other, faults, deaths, aged>>
      /\ kind' = kind /\ job' = job
  BY DEF Hangs, kind, job
<1>1. kind \notin OAuth \cup {"b2"}  BY <1>0 DEF Untimed, Stores, OAuth
<1>2. call' \in Calls  BY <1>0 DEF Calls, Places
<1>3. /\ call'.at = "hung" /\ call'.op = call.op /\ call'.arg = call.arg /\ call'.stage = call.stage
      /\ call'.tok = call.tok /\ call'.again = call.again
  BY <1>0 DEF Calls
<1>4. JobFits /\ PlaceFits /\ ConnectFits  BY <1>0 DEF Open
<1>5. PlaceFits'  BY <1>0, <1>1, <1>3, <1>4 DEF PlaceFits
<1>6. JobFits' /\ ConnectFits'  BY <1>0, <1>3, <1>4 DEF JobFits, Belongs, ConnectFits, Along, Usable, Ops
<1>7. (Done <=> call.at = "idle")' /\ ConnectedMeansReached'
  BY <1>0, <1>3 DEF Done, ConnectedMeansReached
<1>8. TokensFit' /\ RootFits'  BY <1>0, <1>1, <1>3 DEF TokensFit, RootFits
<1> QED  BY <1>0, <1>2, <1>5, <1>6, <1>7, <1>8 DEF Open

LEMMA WorldBase ==
    ASSUME Base, TokenAges \/ TokensDie \/ OtherRefreshes \/ OtherArrives \/ Unmounts
    PROVE  Base'
<1> USE DEF Base, Shapes
<1>0. /\ ~Done /\ UNCHANGED <<world, call, book, outcome>> /\ kind' = kind /\ job' = job
  BY DEF TokenAges, TokensDie, OtherRefreshes, OtherArrives, Unmounts, kind, job
<1>1. /\ JobFits' /\ PlaceFits' /\ ConnectFits'
      /\ JobFits /\ PlaceFits /\ ConnectFits /\ call.at # "idle"
  BY <1>0 DEF Open, JobFits, Belongs, PlaceFits, ConnectFits, Along, Usable, Ops
<1>2. Open' /\ (Done <=> call.at = "idle")' /\ ConnectedMeansReached'
  BY <1>0, <1>1 DEF Open, Done, ConnectedMeansReached
<1>3. MaxFaults \in Nat /\ MaxDeaths \in Nat  BY StorageCallsAssumption
<1>4. CASE TokenAges
  <2>1. cached' = [cached EXCEPT !.fresh = FALSE] /\ aged' = TRUE /\ UNCHANGED <<root, tokens, other, faults, deaths>>
    BY <1>4 DEF TokenAges
  <2>2. TokensFit' /\ RootFits'  BY <1>0, <2>1 DEF TokensFit, RootFits
  <2> QED  BY <1>0, <1>2, <2>1, <2>2
<1>5. CASE TokensDie
  <2>1. /\ deaths' = deaths + 1 /\ deaths < MaxDeaths /\ tokens' = [tokens EXCEPT !.alive = {}]
        /\ UNCHANGED <<root, cached, other, faults, aged>>
    BY <1>5 DEF TokensDie
  <2>2. TokensFit' /\ RootFits'  BY <1>0, <2>1 DEF TokensFit, RootFits
  <2>3. deaths' \in 0 .. MaxDeaths  BY <1>3, <2>1
  <2> QED  BY <1>0, <1>2, <2>1, <2>2, <2>3
<1>6. CASE OtherRefreshes
  <2>1. /\ tokens' = [issued |-> tokens.issued + 1, alive |-> tokens.alive \cup {tokens.issued + 1}]
        /\ other' = tokens.issued + 1 /\ job = "get" /\ kind \in OAuth
        /\ UNCHANGED <<root, cached, faults, deaths, aged>>
    BY <1>6 DEF OtherRefreshes
  <2>2. tokens'.issued = tokens.issued + 1 /\ tokens'.alive = tokens.alive \cup {tokens.issued + 1}
        /\ tokens' \in [issued : Nat, alive : SUBSET Nat]
    BY <2>1
  <2>3. tokens'.alive \subseteq 1 .. tokens'.issued /\ (deaths = 0 => tokens'.alive = 1 .. tokens'.issued)
    BY <2>2 DEF TokensFit
  <2>4. call \in Calls  OBVIOUS
  <2>5. TokensFit' /\ RootFits'  BY <1>0, <2>1, <2>2, <2>3, <2>4 DEF TokensFit, RootFits, Calls
  <2> QED  BY <1>0, <1>2, <2>1, <2>2, <2>5
<1>7. CASE OtherArrives
  <2>1. /\ cached' = [tok |-> other, fresh |-> TRUE] /\ other' = 0 /\ other # 0
        /\ UNCHANGED <<root, tokens, faults, deaths, aged>>
    BY <1>7 DEF OtherArrives
  <2>2. kind \in OAuth \cup {"b2"}
    BY <2>1 DEF TokensFit
  <2>3. TokensFit' /\ RootFits'  BY <1>0, <2>1, <2>2 DEF TokensFit, RootFits
  <2> QED  BY <1>0, <1>2, <2>1, <2>3
<1>8. CASE Unmounts
  <2>1. /\ root' = FALSE /\ faults' = faults + 1 /\ faults < MaxFaults /\ kind \in {"local", "smb"}
        /\ UNCHANGED <<cached, tokens, other, deaths, aged>>
    BY <1>8 DEF Unmounts
  <2>2. TokensFit' /\ RootFits'  BY <1>0, <2>1 DEF TokensFit, RootFits
  <2>3. faults' \in 0 .. MaxFaults  BY <1>3, <2>1
  <2> QED  BY <1>0, <1>2, <2>1, <2>2, <2>3
<1> QED  BY <1>4, <1>5, <1>6, <1>7, <1>8

LEMMA StutterBase ==
    ASSUME Base, UNCHANGED vars
    PROVE  Base'
BY DEF Base, Shapes, TokensFit, RootFits, Open, JobFits, Belongs, PlaceFits, ConnectFits, Along, Usable, Done,
       ConnectedMeansReached, vars, kind, job, Ops

LEMMA NextBase ==
    ASSUME Base, [Next]_vars
    PROVE  Base'
<1>1. CASE Build  BY <1>1, BuildBase
<1>2. CASE GetToken \/ TokenIsStale \/ RefreshIssued \/ RefreshArrives  BY <1>2, TokenBase
<1>3. CASE RefreshFails  BY <1>3, RefreshFailsBase
<1>4. CASE Exchange \/ ExchangeFails  BY <1>4, ExchangeBase
<1>5. CASE TestTimesOut  BY <1>5, TimeoutBase
<1>6. CASE TokenAges \/ TokensDie \/ OtherRefreshes \/ OtherArrives \/ Unmounts  BY <1>6, WorldBase
<1>7. CASE UNCHANGED vars  BY <1>7, StutterBase
<1>8. CASE Hangs  BY <1>8, HangsBase
<1> QED  BY <1>1, <1>2, <1>3, <1>4, <1>5, <1>6, <1>7, <1>8 DEF Next, Layers, Finished

(* The calls of every job are ones it makes, the tokens are ones that were *)
(* issued, and a root is gone only after a failure: in every reachable     *)
(* state, for any endpoints and any number of failures and revocations.    *)
THEOREM BaseIsInvariant == Spec => []Base
<1>1. Init => Base  BY InitBase
<1>2. Base /\ [Next]_vars => Base'  BY NextBase
<1> QED  BY <1>1, <1>2, PTL DEF Spec

(* The state keeps its shape, through every failure, renewal and restart. *)
THEOREM StorageCallsTypeOK == Spec => []TypeOK
<1>1. Base => TypeOK
  <2> SUFFICES ASSUME Base PROVE TypeOK  OBVIOUS
  <2> USE DEF Base, Shapes
  <2>1. /\ call.at \in Places /\ call.stage \in 0 .. 2 /\ call.page \in 1 .. 3 /\ call.tries \in 0 .. 2
    BY DEF Calls
  <2>2. book.todo \cup book.took \cup book.lost \subseteq {"x", "y"} /\ book.held \in Results  BY DEF Books
  <2>3. cached.tok \in 0 .. tokens.issued /\ tokens.alive \subseteq 1 .. tokens.issued /\ other \in 0 .. tokens.issued
    BY DEF TokensFit
  <2> QED  BY <2>1, <2>2, <2>3 DEF TypeOK, Places
<1> QED  BY <1>1, BaseIsInvariant, PTL

(* A connection reported as made was made to an endpoint whose             *)
(* configuration is complete and that takes the credentials, and whose     *)
(* root is there where the kind can tell (the object stores, Google Drive, *)
(* SMB), whatever failed and was tried again on the way.                   *)
THEOREM ConnectionsAreReal == Spec => []ConnectedMeansReached
<1>1. Base => ConnectedMeansReached  BY DEF Base
<1> QED  BY <1>1, BaseIsInvariant, PTL

-----------------------------------------------------------------------------
(* What the errors tell.                                                   *)

(* A truth holds on when less is known of the request, and when the root   *)
(* goes away.                                                              *)
LEMMA ToldMore ==
    ASSUME NEW op, NEW n, NEW r, NEW broken, NEW fits, NEW broken2, NEW fits2,
           Told(op, n, r, broken, fits), broken => broken2, fits2 => fits
    PROVE  Told(op, n, r, broken2, fits2)
BY DEF Told, Gives, Why

LEMMA ToldStays ==
    ASSUME NEW op, NEW n, NEW r, NEW broken, NEW fits, Told(op, n, r, broken, fits), UNCHANGED world, root' => root
    PROVE  Told(op, n, r, broken, fits)'
<1>1. /\ Gives(op, n, r.val, broken, fits) => Gives(op, n, r.val, broken, fits)'
      /\ \A code, body : Why(op, n, code, body, fits) => Why(op, n, code, body, fits)'
  BY DEF Gives, Why, Held, State, Unmounted, Reason, kind
<1> QED  BY <1>1 DEF Told

(* A call is turned away for wrong credentials or a revoked token. *)
LEMMA RefusedHasReason ==
    ASSUME Base, call.at = "ask", ~Accepted
    PROVE  ~world.good \/ deaths > 0
<1>1. call.tok \in Nat /\ deaths \in Nat /\ tokens.issued \in Nat /\ TokensFit  BY DEF Base, Shapes, Calls
<1> QED  BY <1>1 DEF Accepted, TokensFit

LEMMA SingleEnds ==
    ASSUME Base, call.at # "idle", job \in ObjectOps \cup Listings, NEW r, Result(r), Returns(r), Done'
    PROVE  outcome' = r /\ ~(r.tag = "err" /\ Retried /\ IsTransient(r.text))
<1>1. ~Done /\ job # "test"  BY DEF Base, ObjectOps, Listings
<1>2. CASE r.tag = "err" /\ Retried /\ IsTransient(r.text)
  <2>1. UNCHANGED outcome  BY <1>1, <1>2 DEF Returns, Exhausted
  <2> QED  BY <1>1, <2>1 DEF Done
<1>3. CASE ~(r.tag = "err" /\ Retried /\ IsTransient(r.text))
  <2>1. Proceed(r)  BY <1>3 DEF Returns
  <2>2. Finish(r)  BY <2>1 DEF Proceed, ObjectOps, Listings
  <2> QED  BY <1>3, <2>2 DEF Finish
<1> QED  BY <1>2, <1>3

(* A single operation on an object that has ended. *)
Truth ==
    Done /\ job \in ObjectOps =>
      /\ Told(job, "x", outcome, faults > 0, world.good /\ deaths = 0)
      /\ job \notin {"accessible", "initiate"} => ~(outcome.tag = "err" /\ IsTransient(outcome.text))

(* A single operation that ends tells the truth, and goes on telling it. *)
LEMMA TruthEnds ==
    ASSUME Base, call.at # "idle", job \in ObjectOps, NEW r, Result(r), Returns(r), Done',
           UNCHANGED <<world, root, deaths>>, Told(call.op, call.arg, r, faults' > 0, world.good /\ deaths = 0)
    PROVE  Truth'
<1>1. outcome' = r /\ ~(r.tag = "err" /\ Retried /\ IsTransient(r.text))  BY SingleEnds
<1>2. call.op = job /\ call.arg = "x"
  <2>1. job \in Ops(kind) /\ JobFits
    BY WorldIs DEF Base, Shapes, Open, Jobs, ObjectOps
  <2> QED  BY <2>1 DEF JobFits, Belongs
<1>3. PICK op, broken, fits : op = job /\ broken = (faults' > 0) /\ fits = (world.good /\ deaths = 0)  OBVIOUS
<1>4. Told(op, "x", r, broken, fits)  BY <1>2, <1>3
<1>5. Told(op, "x", r, broken, fits)'  BY <1>4, ToldStays
<1>6. op = job' /\ r = outcome' /\ broken = (faults' > 0) /\ fits = (world.good /\ deaths = 0)'
  BY <1>1, <1>3 DEF job
<1>7. Told(job, "x", outcome, faults > 0, world.good /\ deaths = 0)'  BY <1>5, <1>6
<1>8. job' \notin {"accessible", "initiate"} => ~(outcome'.tag = "err" /\ IsTransient(outcome'.text))
  BY <1>1, <1>2 DEF Retried, ObjectOps, job
<1> QED  BY <1>7, <1>8 DEF Truth

LEMMA TruthStep ==
    ASSUME Base, Truth, [Next]_vars
    PROVE  Truth'
<1> SUFFICES ASSUME Done', job' \in ObjectOps PROVE Truth'  BY DEF Truth
<1>0. Base'  BY NextBase
<1>1. CASE Done
  <2>1. UNCHANGED vars  BY <1>1, DoneStays
  <2>2. UNCHANGED <<world, root, deaths, faults, outcome>> /\ job' = job  BY <2>1 DEF vars, job
  <2>3. PICK op, r, broken, fits : op = job /\ r = outcome /\ broken = (faults > 0) /\ fits = (world.good /\ deaths = 0)
    OBVIOUS
  <2>4. Told(op, "x", r, broken, fits)'  BY <1>1, <2>2, <2>3, ToldStays DEF Truth
  <2>5. op = job' /\ r = outcome' /\ broken = (faults' > 0) /\ fits = (world.good /\ deaths = 0)'  BY <2>2, <2>3
  <2>6. Told(job, "x", outcome, faults > 0, world.good /\ deaths = 0)'  BY <2>4, <2>5
  <2> QED  BY <1>1, <2>2, <2>6 DEF Truth
<1>2. CASE ~Done
  <2>0. call.at # "idle" /\ call'.at = "idle" /\ ~(UNCHANGED call) /\ ~(UNCHANGED outcome)
    BY <1>0, <1>2 DEF Base, Done
  <2>1. CASE Build
    <3>1. job \in {"connect", "test"}  BY <2>0, <2>1 DEF Build, Base, Open, PlaceFits
    <3> QED  BY <2>1, <3>1 DEF Build, ObjectOps, job
  <2>2. CASE RefreshFails
    <3>1. /\ call.at # "idle" /\ UNCHANGED <<world, root, deaths>> /\ job' = job
      BY <2>0, <2>2 DEF RefreshFails, job
    <3>2. PICK s \in {"400", "401", "drop", "503"} :
              Returns(Err(StatusLine(s))) /\ (s \in {"400", "401"} => ~world.good)
      BY <2>2 DEF RefreshFails
    <3>3. s \in Failures /\ s \in Codes  BY DEF Failures, Codes
    <3>4. Fails(Err(StatusLine(s)), s, {})
      <4>1. StatusLine(s) \cup {} = StatusLine(s)  OBVIOUS
      <4>2. {} \in Bodies  BY DEF Bodies
      <4> QED  BY <3>3, <4>1, <4>2, LineTells
    <3>5. Result(Err(StatusLine(s)))  BY <3>4, FailsResult DEF Result
    <3>6. Why(call.op, call.arg, s, {}, world.good /\ deaths = 0)
      BY <3>2 DEF Why, Outages
    <3>7. Told(call.op, call.arg, Err(StatusLine(s)), faults' > 0, world.good /\ deaths = 0)
      BY <3>3, <3>4, <3>6, ToldErr DEF Bodies
    <3> QED  BY <3>1, <3>2, <3>5, <3>7, TruthEnds
  <2>3. CASE Exchange \/ ExchangeFails
    <3>0. call.at = "ask" /\ UNCHANGED <<world, root, deaths>> /\ job' = job /\ call \in Calls /\ faults \in Nat /\ deaths \in Nat
      BY <2>3 DEF Exchange, ExchangeFails, job, Base, Shapes
    <3>1. PICK a, broken : Meets(a, broken) /\ Takes(a) /\ (broken => faults' = faults + 1)
      BY <2>3, ExchangeMeets
    <3>2. PICK r : r = Handle(a)  OBVIOUS
    <3>3. ~Renews(a, r) /\ r.tag # "next"
      BY <2>0, <3>1, <3>2 DEF Takes
    <3>4. Returns(r)  BY <3>1, <3>2, <3>3 DEF Takes
    <3>5. ~Continues(r)  BY <3>3 DEF Continues, More
    <3>6. call.op \in ObjectOps
      <4>1. job \in Ops(kind) /\ JobFits
        BY <2>0, <3>0, WorldIs DEF Base, Shapes, Open, Jobs, ObjectOps
      <4> QED  BY <3>0, <4>1 DEF JobFits, Belongs
    <3>7. Result(r) /\ Told(call.op, call.arg, r, broken, Accepted)
      BY <3>0, <3>1, <3>2, <3>5, <3>6, AnswerTells
    <3>8. (broken => faults' > 0) /\ (world.good /\ deaths = 0 => Accepted)
      BY <3>0, <3>1, RefusedHasReason
    <3>9. Told(call.op, call.arg, r, faults' > 0, world.good /\ deaths = 0)
      <4>1. PICK b, f : b = (faults' > 0) /\ f = (world.good /\ deaths = 0)  OBVIOUS
      <4>2. (broken => b) /\ (f => Accepted)  BY <3>8, <4>1
      <4>3. Told(call.op, call.arg, r, b, f)  BY <3>7, <4>2, ToldMore
      <4> QED  BY <4>1, <4>3
    <3> QED  BY <2>0, <3>0, <3>4, <3>7, <3>9, TruthEnds
  <2>4. CASE TestTimesOut  BY <2>4 DEF TestTimesOut, ObjectOps, job
  <2> QED
    <3>1. ~(GetToken \/ TokenIsStale \/ RefreshIssued \/ RefreshArrives)
      BY <2>0 DEF GetToken, TokenIsStale, RefreshIssued, RefreshArrives
    <3>2. ~(Hangs \/ TokenAges \/ TokensDie \/ OtherRefreshes \/ OtherArrives \/ Unmounts \/ Finished \/ UNCHANGED vars)
      BY <2>0 DEF Hangs, TokenAges, TokensDie, OtherRefreshes, OtherArrives, Unmounts, Finished, vars
    <3> QED  BY <2>1, <2>2, <2>3, <2>4, <3>1, <3>2 DEF Next, Layers
<1> QED  BY <1>1, <1>2

(* What the code above makes of a text. *)
LEMMA ClassOf ==
    ASSUME Legible, NEW r, NEW code \in Codes, NEW body \in Bodies, Fails(r, code, body)
    PROVE  /\ ClassifyError(r.text) = "storage_missing_object" => body = {} /\ code \in {"404", "enoent"}
           /\ ClassifyError(r.text) = "archive_retrieval_required" <=> body # {}
           /\ ClassifyError(r.text) = "auth_expired" => body = {} /\ code \in {"401", "403"}
           /\ code \in Outages => IsTransient(r.text)
<1>1. Tells(r.text, code, body)  BY DEF Fails
<1>2. CASE body # {}  BY <1>1, <1>2 DEF Tells, ClassifyError, IsTransient, Outages
<1>3. CASE body = {}  BY <1>1, <1>3 DEF Tells, ClassifyError, IsTransient, Outages
<1> QED  BY <1>2, <1>3

LEMMA TruthIsTold ==
    ASSUME Legible, Base, Truth
    PROVE  ErrorsTellTheTruth
<1> SUFFICES ASSUME Done, job \in ObjectJobs, ~Unmounted PROVE ErrorsTellTheTruth  BY DEF ErrorsTellTheTruth
<1> DEFINE broken == faults > 0
           fits == world.good /\ deaths = 0
<1>0. faults \in Nat /\ deaths \in Nat /\ job \in ObjectOps  BY DEF Base, Shapes, ObjectOps, ObjectJobs
<1>1. /\ Told(job, "x", outcome, broken, fits)
      /\ job \notin {"accessible", "initiate"} => ~(outcome.tag = "err" /\ IsTransient(outcome.text))
  BY <1>0 DEF Truth
<1>2. (~fits => ~world.good \/ deaths > 0) /\ (broken \/ ~fits => faults + deaths > 0 \/ ~world.good)
  BY <1>0
<1> HIDE DEF broken, fits
<1>3. CASE outcome = Ok(outcome.val) /\ Gives(job, "x", outcome.val, broken, fits)
  <2>1. outcome.tag = "ok"  BY <1>3 DEF Ok
  <2>2. ~Failed("storage_missing_object") /\ ~Failed("archive_retrieval_required") /\ ~Failed("auth_expired")
    BY <2>1 DEF Failed
  <2>3. outcome = Ok({}) => outcome.val = {}  BY DEF Ok
  <2>4. job \in {"get", "range", "size", "hash"} => Held("x")  BY <1>3 DEF Gives
  <2>5. job \in {"get", "range"} => outcome.val = {State("x")} \/ (~world.ranges /\ kind \in OAuth \cup {"b2"})
    BY <1>3 DEF Gives
  <2>6. outcome = Ok({}) /\ job = "exists" =>
            ~Held("x") \/ (kind \in Files \cup {"onedrive", "dropbox"} /\ (faults + deaths > 0 \/ ~world.good))
    BY <1>2, <1>3, <2>3 DEF Gives
  <2>7. outcome = Ok({}) /\ job = "accessible" => State("x") = "cold"  BY <1>3, <2>3 DEF Gives
  <2> QED  BY <2>1, <2>2, <2>4, <2>5, <2>6, <2>7 DEF ErrorsTellTheTruth
<1>4. ASSUME NEW code \in Codes, NEW body \in Bodies, Fails(outcome, code, body), Why(job, "x", code, body, fits)
      PROVE  ErrorsTellTheTruth
  <2>1. outcome.tag = "err" /\ outcome # Ok({})
    <3>1. Ok({}).tag = "ok"  BY DEF Ok
    <3> QED  BY <1>4, <3>1, FailsResult
  <2>2. Failed("storage_missing_object") => ~Held("x")
    BY <1>0, <1>4, ClassOf DEF Failed, Why, ObjectOps
  <2>3. Failed("archive_retrieval_required") => State("x") = "cold"  BY <1>4, ClassOf DEF Failed, Why
  <2>4. Failed("auth_expired") => ~world.good \/ deaths > 0  BY <1>2, <1>4, ClassOf DEF Failed, Why
  <2>5. State("x") = "cold" /\ Held("x") /\ job \in {"get", "range"} /\ world.good /\ deaths = 0 =>
          Failed("archive_retrieval_required")
    <3>1. world.good /\ deaths = 0 => fits  BY DEF fits
    <3>2. job \in {"get", "range"} => code \notin Outages  BY <1>1, <1>4, <2>1, ClassOf
    <3> QED  BY <1>4, <2>1, <3>1, <3>2, ClassOf DEF Failed, Why
  <2> QED  BY <2>1, <2>2, <2>3, <2>4, <2>5 DEF ErrorsTellTheTruth
<1> QED  BY <1>1, <1>3, <1>4 DEF Told

LEMMA InitTruth ==
    ASSUME Init
    PROVE  Truth
BY DEF Init, Truth, Done, Pending

(* What a single operation on an object reports of the endpoint is so,     *)
(* whatever the backend, and whatever failed, was tried again or renewed   *)
(* before; provided that no object's name spells out one of the codes an   *)
(* error is told by.                                                       *)
THEOREM ErrorsAreTrue ==
    ASSUME Legible
    PROVE  Spec => []ErrorsTellTheTruth
<1>1. Init => Base /\ Truth  BY InitBase, InitTruth
<1>2. Base /\ Truth /\ [Next]_vars => Base' /\ Truth'  BY NextBase, TruthStep
<1>3. Base /\ Truth => ErrorsTellTheTruth  BY TruthIsTold
<1> QED  BY <1>1, <1>2, <1>3, PTL DEF Spec
=============================================================================
