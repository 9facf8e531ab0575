---------------------------- MODULE MCRecoveryWindow ----------------------------
(* Two endpoints: one holds a snapshot with nested folders and a snapshot  *)
(* of two drives, the other a snapshot of one file.                        *)
EXTENDS RecoveryWindow

Dir(p)  == [path |-> p, dir |-> TRUE]
File(p) == [path |-> p, dir |-> FALSE]

MCEndpoints == {"E1", "E2"}
MCSnapshots == {"s1", "s2", "s3"}
MCHolds     == ("E1" :> {"s1", "s2"}) @@ ("E2" :> {"s3"})
MCNewest    == ("E1" :> "s1") @@ ("E2" :> "s3")
MCTrees     ==
    ("s1" :> {Dir(<<"d">>), Dir(<<"d", "e">>), File(<<"d", "e", "f">>), File(<<"d", "g">>)}) @@
    ("s2" :> {File(<<"C:", "f">>), File(<<"D:", "f">>)}) @@
    ("s3" :> {File(<<"f">>)})
=============================================================================
