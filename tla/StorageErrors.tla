---------------------------- MODULE StorageErrors ----------------------------
(***************************************************************************)
(* What an error of a storage backend tells the code above it              *)
(* (crates/bkp-types/src/error.rs, crates/bkp-storage/src/retry.rs).       *)
(*                                                                         *)
(* Error::Storage carries a text, and everything that decides whether a    *)
(* call is tried again, whether a token is renewed and what the user is    *)
(* told looks phrases up in that text.  A text is modelled by the set of   *)
(* phrases it contains.  An error of another variant (Config, Crypto) is   *)
(* the phrase "not a storage error", which is in none of the lists.        *)
(***************************************************************************)
EXTENDS Naturals

(* HTTP status codes that an object's own name spells out: names are hex   *)
(* digits, and a text that names the object contains them.                 *)
CONSTANT IdCodes

ASSUME IdCodesAssumption ==
    IdCodes \subseteq {"400", "401", "403", "404", "429", "500", "502", "503", "504"}

Permanent == {"not found", "forbidden", "unauthorized", "bad request",
              "404", "403", "401", "400"}

Transient == {"connection refused", "connection reset", "connection closed", "stream reset",
              "broken pipe", "timed out", "timeout", "unexpected eof",
              "error sending request", "error decoding response body",
              "429", "500", "502", "503", "504", "too many requests", "service unavailable"}

Archived == {"invalidobjectstate", "blobarchived"}
Refused  == {"access denied", "invalid credentials", "expired token", "unauthorized", "403", "401"}
Missing  == {"not found", "nosuchkey", "no such file", "no such directory", "404"}
Outage   == {"error sending request", "error decoding response body", "connection closed",
             "connection reset", "stream reset", "timed out", "timeout"}

NotStorage == "not a storage error"

Says(text, phrases) == text \cap phrases # {}

(* Mutant: an answer of the 5xx kind is final. *)
IsTransientNetworkOnly(text) ==
    /\ NotStorage \notin text
    /\ ~Says(text, Permanent)
    /\ Says(text, Transient \ {"503", "service unavailable"})

IsTransient(text) ==
    /\ NotStorage \notin text
    /\ ~Says(text, Permanent)
    /\ Says(text, Transient)

(* Mutant: the refusal is looked for before the archive. *)
ClassifyRefusalFirst(text) ==
    IF Says(text, Refused) THEN "auth_expired"
    ELSE IF Says(text, Archived) THEN "archive_retrieval_required"
    ELSE IF Says(text, Missing) THEN "storage_missing_object"
    ELSE IF Says(text, Outage) THEN "network_transient" ELSE "internal"

(* The order matters: a cold object is refused with a 403. *)
ClassifyError(text) ==
    CASE NotStorage \in text -> "internal"
      [] OTHER ->
        IF Says(text, Archived) THEN "archive_retrieval_required"
        ELSE IF Says(text, Refused) THEN "auth_expired"
        ELSE IF Says(text, Missing) THEN "storage_missing_object"
        ELSE IF Says(text, Outage) THEN "network_transient" ELSE "internal"

-----------------------------------------------------------------------------
(* What a backend's operation comes to: a value (always a set: what was    *)
(* read, what was listed, {} or {"there"}), an error, or a further request *)
(* with what was gathered so far.                                          *)
Ok(val)          == [tag |-> "ok", val |-> val, text |-> {}, stage |-> 0]
Err(text)        == [tag |-> "err", val |-> {}, text |-> text, stage |-> 0]
More(stage, val) == [tag |-> "next", val |-> val, text |-> {}, stage |-> stage]

(* http::StatusCode's Display, and reqwest's and object_store's texts for  *)
(* a request that got no answer or whose answer broke off.                 *)
StatusLine(code) ==
    CASE code = "400" -> {"400", "bad request"}
      [] code = "401" -> {"401", "unauthorized"}
      [] code = "403" -> {"403", "forbidden"}
      [] code = "404" -> {"404", "not found"}
      [] code = "429" -> {"429", "too many requests"}
      [] code = "503" -> {"503", "service unavailable"}
      [] code = "drop" -> {"error sending request"}
      [] code = "cut"  -> {"error decoding response body"}
      [] code = "refused" -> {"connection refused"}
      [] code = "enoent" -> {"no such file"}
      [] OTHER -> {code}

(* A text that prints the status and the body, and one that also names the *)
(* object, in its own words or in the request's URL.                       *)
PlainText(a) == StatusLine(a.code) \cup a.body
Text(a)      == PlainText(a) \cup IdCodes
NotFound     == {"not found"} \cup IdCodes
Success(a)   == a.code \in {"200", "206"}
=============================================================================
