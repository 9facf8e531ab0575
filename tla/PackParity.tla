------------------------------ MODULE PackParity ------------------------------
(***************************************************************************)
(* Repair of a pack from its Reed-Solomon sibling                          *)
(* (crates/bkp-chunker/src/parity.rs, crates/bkp-types/src/parity.rs).     *)
(*                                                                         *)
(* A pack is a sequence of bytes, cut into k data shards of shard_size     *)
(* bytes, numbered from 0; the .par object holds m more shards and the     *)
(* CRC32C of all k + m.  The checksum and the erasure code are libraries:  *)
(* constants here, of which the theorems assume what they name.            *)
(* Simplified: a header is a record, whose magic, version and checksum are *)
(* one flag; sizes are natural numbers.                                    *)
(***************************************************************************)
EXTENDS Integers, Sequences, FiniteSets

CONSTANTS
    Byte,                   \* the values of a byte
    Zero,                   \* the byte that pads the last shard
    Crc32c(_),              \* crc32c::crc32c of a shard
    RsEncode(_, _, _, _)    \* ReedSolomon::encode: m shards for k data shards

Shard(s) == [0 .. s - 1 -> Byte]

(* Past the end of the pack a shard reads as zeros. *)
SplitDataShards(pack, k, s) ==
    [i \in 0 .. k - 1 |-> [o \in 0 .. s - 1 |->
        IF i * s + o < Len(pack) THEN pack[i * s + o + 1] ELSE Zero]]

(* The k shards one after the other, cut at n bytes. *)
Joined(shards, k, s, n) ==
    [b \in 1 .. (IF n < k * s THEN n ELSE k * s) |-> shards[(b - 1) \div s][(b - 1) % s]]

Codeword(data, k, m, s) ==
    [i \in 0 .. k + m - 1 |-> IF i < k THEN data[i] ELSE RsEncode(data, k, m, s)[i - k]]

(* ReedSolomon::reconstruct: the data whose codeword has these shards. *)
Reconstruct(shards, present, k, m, s) ==
    CHOOSE data \in [0 .. k - 1 -> Shard(s)] :
        \A i \in present : Codeword(data, k, m, s)[i] = shards[i]

-----------------------------------------------------------------------------
PAR_HEADER_LEN == 46

(* ParityGeometry::validate *)
ValidGeometry(k, m) == k >= 1 /\ m >= 1 /\ k + m <= 256

(* parse_par goes through. *)
Parses(par, id) ==
    /\ par.size >= PAR_HEADER_LEN
    /\ par.intact
    /\ par.pack_id = id
    /\ ValidGeometry(par.k, par.m) /\ par.shard_size # 0
    /\ par.size >= PAR_HEADER_LEN + (par.k + par.m) * 4 + par.m * par.shard_size

(* What is there of the k + m shards. *)
Shards(pack, par) ==
    [i \in 0 .. par.k + par.m - 1 |->
        IF i < par.k THEN SplitDataShards(pack, par.k, par.shard_size)[i] ELSE par.parity[i - par.k]]

Erasures(pack, par) ==
    {i \in 0 .. par.k + par.m - 1 : Crc32c(Shards(pack, par)[i]) # par.crcs[i]}

Repaired(bytes) == [ok |-> TRUE, bytes |-> bytes]
Refused         == [ok |-> FALSE, bytes |-> <<>>]

RepairPack(pack, par, id) ==
    LET erased  == Erasures(pack, par)
        present == (0 .. par.k + par.m - 1) \ erased
        data    == Reconstruct(Shards(pack, par), present, par.k, par.m, par.shard_size) IN
    IF ~Parses(par, id) THEN Refused
    ELSE IF erased = {} THEN Repaired(pack)
    ELSE IF Cardinality(erased) > par.m THEN Refused
    ELSE Repaired(Joined(data, par.k, par.shard_size, par.pack_len))

-----------------------------------------------------------------------------
(* What the application writes beside a pack (the encoder of the tests). *)
ShardSize(n, k) == IF n = 0 THEN 1 ELSE (n + k - 1) \div k

EncodeParity(pack, id, k, m) ==
    LET s    == ShardSize(Len(pack), k)
        data == SplitDataShards(pack, k, s)
        all  == Codeword(data, k, m, s) IN
    [intact |-> TRUE, pack_id |-> id, k |-> k, m |-> m, shard_size |-> s, pack_len |-> Len(pack),
     size |-> PAR_HEADER_LEN + (k + m) * 4 + m * s,
     crcs |-> [i \in 0 .. k + m - 1 |-> Crc32c(all[i])],
     parity |-> [j \in 0 .. m - 1 |-> RsEncode(data, k, m, s)[j]]]

(* The .par object with other parity shards than were written. *)
Worn(par, parity) == [par EXCEPT !.parity = parity]

(* The shards that are not what they were when both objects were written. *)
Damage(orig, pack, par, parity) ==
    {i \in 0 .. par.k + par.m - 1 : Shards(pack, Worn(par, parity))[i] # Shards(orig, par)[i]}

(* The checksum tells a damaged shard from the original. *)
ChecksumTells(orig, pack, par, parity) ==
    \A i \in 0 .. par.k + par.m - 1 :
        Crc32c(Shards(pack, Worn(par, parity))[i]) = Crc32c(Shards(orig, par)[i])
            => Shards(pack, Worn(par, parity))[i] = Shards(orig, par)[i]

(* Any k shards of a codeword determine its data. *)
IsErasureCode(k, m, s) ==
    \A c, d \in [0 .. k - 1 -> Shard(s)], I \in SUBSET (0 .. k + m - 1) :
        /\ Cardinality(I) >= k
        /\ \A i \in I : Codeword(c, k, m, s)[i] = Codeword(d, k, m, s)[i]
        => c = d
=============================================================================
