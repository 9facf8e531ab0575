------------------------------ MODULE RestorePaths ------------------------------
(***************************************************************************)
(* From the entries of a manifest to the files a restore writes            *)
(* (crates/bkp-restore/src/lib.rs): what is listed, what is collected, and *)
(* where each file goes.                                                   *)
(*                                                                         *)
(* A tree is the set of its entries, [path, dir]: the walks over the nodes *)
(* of a manifest number them all, the root left out.  The components that  *)
(* matter are the drives and a name with a colon.                          *)
(***************************************************************************)
EXTENDS TreeSelection, TLC

Drives == {"C:", "D:"}
Letter == ("C:" :> "C") @@ ("D:" :> "D")
Colons == ("C:" :> "C_") @@ ("D:" :> "D_") @@ ("ab:c" :> "ab_c")

(* list_snapshot_files: files, links and directories alike. *)
ListSnapshotFiles(tree) == tree

(* collect_files and the filters of restore_all. A directory is no file:   *)
(* nothing is written for one that holds none.                             *)
CollectFiles(tree, filter, excluded) ==
    {e.path : e \in {x \in tree : ~x.dir /\ PathSelected(x.path, filter, excluded)}}

PathToRelative(path) == IF Len(path) > 1 /\ path[1] \in Drives THEN Tail(path) ELSE path

(* The longest source prefix loses its parent; its own name stays. *)
StripSourcePrefix(path, prefixes) ==
    LET matching == Covering(path, prefixes)
    IN  IF matching = {} THEN PathToRelative(path)
        ELSE SubSeq(path, Max({Len(p) : p \in matching}), Len(path))

(* A leading drive becomes a folder, any other colon an underscore. *)
SanitizeCrossPlatformSubpath(path) ==
    [i \in DOMAIN path |->
        IF i = 1 /\ path[i] \in Drives THEN Letter[path[i]]
        ELSE IF path[i] \in DOMAIN Colons THEN Colons[path[i]] ELSE path[i]]

(* The path below the target's own folder. *)
ResolveDest(target, path, prefixes) ==
    CASE target = "original" -> path
      [] target = "desktop"  -> StripSourcePrefix(path, prefixes)
      [] target = "custom"   -> SanitizeCrossPlatformSubpath(StripSourcePrefix(path, prefixes))
=============================================================================
