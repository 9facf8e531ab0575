---------------------------- MODULE MCStorageCalls ----------------------------
(***************************************************************************)
(* Endpoints of every kind, with the contents and the configuration that   *)
(* matter to each job.                                                     *)
(***************************************************************************)
EXTENDS StorageCalls, FiniteSets

World(k, j) ==
    [kind |-> k, job |-> j, conf |-> "ends", good |-> TRUE, root |-> TRUE,
     objs |-> [n \in Names |-> IF n \in {"x", "y"} THEN "good" ELSE "absent"],
     ranges |-> TRUE, meta |-> {"size", "hash"}]

MCKinds == Http \cup Files

(* Cold objects exist where there is an archive tier. *)
States(k) == {"good", "bad", "absent"} \cup (IF k \in {"s3", "azure"} THEN {"cold"} ELSE {})

Holds(k, j, x, b, y) == [World(k, j) EXCEPT !.objs["x"] = x, !.objs["x.bak"] = b, !.objs["y"] = y]

OpWorlds == UNION {{Holds(k, j, x, "absent", "good") : j \in Ops(k), x \in States(k)} : k \in MCKinds}

(* Servers that ignore a range, endpoints that give no size or hash.       *)
PoorWorlds ==
    {[World(k, "range") EXCEPT !.ranges = FALSE] : k \in Http}
      \cup {[World(k, j) EXCEPT !.meta = m] :
              k \in MCKinds \ {"webdav", "sftp"}, j \in {"size", "hash"}, m \in {{}, {"size"}}}
      \cup {[World(k, "get") EXCEPT !.good = FALSE] : k \in MCKinds \ {"local"}}
      \cup {[World(k, "packmap") EXCEPT !.good = FALSE] : k \in {"s3_compat", "b2"}}

CriticalWorlds ==
    UNION {{Holds(k, "critical", x, b, "absent") : x \in States(k), b \in States(k)}
             : k \in {"s3", "azure", "b2", "onedrive", "sftp", "local"}}

DiscoverWorlds ==
    UNION {{Holds(k, "discover", x, b, y) : x \in {"good", "bad", "absent"}, b \in {"good", "absent"},
                                            y \in {"good", "bad"}} : k \in {"gcs", "dropbox", "smb_direct"}}

PackMapWorlds ==
    {Holds(k, "packmap", x, "absent", y) : x \in {"good", "bad"}, y \in {"good", "absent"},
                                           k \in {"s3_compat", "b2", "googledrive", "smb"}}

ConnectWorlds ==
    {[World(k, j) EXCEPT !.good = g, !.root = r] :
        k \in MCKinds \ {"local"}, j \in {"connect", "test"}, g \in BOOLEAN, r \in BOOLEAN}
      \cup {[World(k, "connect") EXCEPT !.conf = "none"] : k \in {"s3", "s3_compat", "azure", "gcs", "onedrive", "dropbox", "webdav"}}
      \cup {[World("local", "connect") EXCEPT !.conf = f, !.root = FALSE] : f \in {"ends", "none"}}
      \cup {[World(k, "connect") EXCEPT !.conf = "half"] : k \in {"s3", "s3_compat", "azure", "dropbox", "webdav"}}
      \cup {[World(k, "connect") EXCEPT !.conf = "env"] : k \in {"s3", "s3_compat", "azure", "gcs"}}
      \cup {[World("azure", "connect") EXCEPT !.conf = "keyless", !.good = FALSE]}

ChunkWorlds ==
    {[World(k, "chunk") EXCEPT !.objs["x"] = x, !.objs["x.par"] = p, !.ranges = g] :
        k \in {"s3", "b2", "onedrive", "sftp"}, x \in {"good", "bent", "bad"}, p \in {"good", "bad", "absent"},
        g \in BOOLEAN}

(* The chunk worlds take a repair for granted.  Here it is done: packs of  *)
(* bits in two shards and one parity shard, their sum; any damage to the   *)
(* pack or its parity.                                                     *)
Identity(shard) == shard
Xor(data, k, m, s) == [j \in 0 .. m - 1 |-> [o \in 0 .. s - 1 |-> (data[0][o] + data[1][o]) % 2]]

P == INSTANCE PackParity WITH Byte <- {0, 1}, Zero <- 0, Crc32c <- Identity, RsEncode <- Xor

Packs(n) == UNION {[1 .. l -> {0, 1}] : l \in 0 .. n}

ASSUME ParityRepairs ==
    \A orig \in Packs(3), pack \in Packs(4) :
      LET par == P!EncodeParity(orig, "id", 2, 1) IN
      \A parity \in [0 .. 0 -> [0 .. par.shard_size - 1 -> {0, 1}]] :
        LET d == Cardinality(P!Damage(orig, pack, par, parity))
            r == P!RepairPack(pack, P!Worn(par, parity), "id") IN
        /\ P!ChecksumTells(orig, pack, par, parity) /\ P!IsErasureCode(2, 1, par.shard_size)
        /\ d = 0 => r = P!Repaired(pack)
        /\ d = 1 => r = P!Repaired(orig)
        /\ d > 1 => r = P!Refused

MCWorlds == OpWorlds \cup PoorWorlds \cup CriticalWorlds \cup DiscoverWorlds \cup PackMapWorlds \cup ConnectWorlds
    \cup ChunkWorlds
=============================================================================
