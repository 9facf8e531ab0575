--------------------------- MODULE PackParityProofs ---------------------------
(* Proofs about PackParity: what repair_pack returns. *)
EXTENDS PackParity, FiniteSetTheorems, TLAPS

(* Byte b of a pack is byte b % s of shard b \div s. *)
LEMMA Address ==
    ASSUME NEW s \in Nat \ {0}, NEW b \in Nat
    PROVE  /\ b \div s \in Nat /\ b % s \in 0 .. s - 1
           /\ b = (b \div s) * s + (b % s)
OBVIOUS

(* The shard size of the writer holds the whole pack. *)
LEMMA ShardsHoldThePack ==
    ASSUME NEW n \in Nat, NEW k \in Nat \ {0}
    PROVE  ShardSize(n, k) \in Nat \ {0} /\ n <= k * ShardSize(n, k)
BY DEF ShardSize

LEMMA AddressInPack ==
    ASSUME NEW s \in Nat \ {0}, NEW k \in Nat, NEW b \in Nat, b < k * s
    PROVE  b \div s \in 0 .. k - 1
<1> DEFINE q == b \div s
<1>1. q \in Nat /\ q * s <= b  BY Address
<1>2. CASE q >= k
  <2>1. PICK e \in Nat : q = k + e  BY <1>1, <1>2
  <2>2. q * s = k * s + e * s  BY <2>1
  <2>3. e * s \in Nat  BY <2>1
  <2> QED  BY <1>1, <2>2, <2>3
<1> QED  BY <1>1, <1>2

(* Cut into shards and joined again, a pack is itself. *)
LEMMA JoinedSplit ==
    ASSUME NEW orig \in Seq(Byte), NEW k \in Nat \ {0}, NEW s \in Nat \ {0}, Len(orig) <= k * s
    PROVE  Joined(SplitDataShards(orig, k, s), k, s, Len(orig)) = orig
<1> DEFINE n == Len(orig)
           J == Joined(SplitDataShards(orig, k, s), k, s, n)
<1>0. n \in Nat /\ k * s \in Nat  OBVIOUS
<1>1. J = [b \in 1 .. n |-> SplitDataShards(orig, k, s)[(b - 1) \div s][(b - 1) % s]]
  <2>1. (IF n < k * s THEN n ELSE k * s) = n  BY <1>0
  <2> QED  BY <2>1 DEF Joined
<1>2. ASSUME NEW b \in 1 .. n  PROVE J[b] = orig[b]
  <2> DEFINE c == b - 1
  <2>1. c \in Nat /\ c < n /\ c < k * s  BY <1>0, <1>2
  <2>2. c \div s \in 0 .. k - 1  BY <2>1, AddressInPack
  <2>3. c % s \in 0 .. s - 1 /\ (c \div s) * s + (c % s) = c  BY <2>1, Address
  <2>4. SplitDataShards(orig, k, s)[c \div s][c % s]
          = IF (c \div s) * s + (c % s) < n THEN orig[(c \div s) * s + (c % s) + 1] ELSE Zero
    BY <2>2, <2>3 DEF SplitDataShards
  <2>5. SplitDataShards(orig, k, s)[c \div s][c % s] = orig[c + 1]  BY <2>1, <2>3, <2>4
  <2>6. J[b] = SplitDataShards(orig, k, s)[c \div s][c % s]  BY <1>1, <1>2
  <2> QED  BY <2>5, <2>6, <1>2
<1>3. orig = [b \in 1 .. n |-> orig[b]]  OBVIOUS
<1>4. J = [b \in 1 .. n |-> J[b]]  BY <1>1
<1> QED  BY <1>2, <1>3, <1>4

(* The data shards of a pack of bytes are shards. *)
LEMMA SplitType ==
    ASSUME NEW orig \in Seq(Byte), Zero \in Byte, NEW k \in Nat \ {0}, NEW s \in Nat \ {0}
    PROVE  SplitDataShards(orig, k, s) \in [0 .. k - 1 -> Shard(s)]
<1>1. ASSUME NEW i \in 0 .. k - 1, NEW o \in 0 .. s - 1
      PROVE  (IF i * s + o < Len(orig) THEN orig[i * s + o + 1] ELSE Zero) \in Byte
  <2>1. i * s \in Nat  OBVIOUS
  <2>2. i * s + o \in Nat  BY <2>1
  <2> QED  BY <2>2
<1> QED  BY <1>1 DEF SplitDataShards, Shard

LEMMA Without ==
    ASSUME NEW S, IsFiniteSet(S), NEW T \in SUBSET S
    PROVE  Cardinality(S \ T) = Cardinality(S) - Cardinality(T)
<1>1. S \cap T = T  OBVIOUS
<1>2. Cardinality(S \cap T) = Cardinality(T)  BY <1>1, Zenon
<1>3. IsFiniteSet(T)  BY FS_Subset
<1>4. Cardinality(S \ T) = Cardinality(S) - Cardinality(S \cap T)  BY FS_Difference
<1> QED  BY <1>2, <1>4, Zenon

(* Reconstruction from k or more of its shards gives a pack's data back.  *)
LEMMA ReconstructGives ==
    ASSUME NEW k \in Nat \ {0}, NEW m \in Nat, NEW s \in Nat \ {0}, IsErasureCode(k, m, s),
           NEW data \in [0 .. k - 1 -> Shard(s)],
           NEW I \in SUBSET (0 .. k + m - 1), Cardinality(I) >= k,
           NEW shards, \A i \in I : shards[i] = Codeword(data, k, m, s)[i]
    PROVE  Reconstruct(shards, I, k, m, s) = data
<1> DEFINE P(d) == \A i \in I : Codeword(d, k, m, s)[i] = shards[i]
           r == CHOOSE d \in [0 .. k - 1 -> Shard(s)] : P(d)
<1>1. P(data)  OBVIOUS
<1> HIDE DEF P
<1>2. r \in [0 .. k - 1 -> Shard(s)] /\ P(r)  BY <1>1
<1>3. r = data
  <2>1. \A i \in I : Codeword(r, k, m, s)[i] = Codeword(data, k, m, s)[i]  BY <1>1, <1>2 DEF P
  <2> HIDE DEF r
  <2> QED  BY <2>1, <1>2 DEF IsErasureCode
<1> QED  BY <1>3 DEF Reconstruct, P

-----------------------------------------------------------------------------
(* What was written, and what is read back of it. *)
LEMMA WornFields ==
    ASSUME NEW a, NEW b, NEW c, NEW d, NEW e, NEW f, NEW g, NEW h, NEW i, NEW parity, NEW par,
           par = [intact |-> a, pack_id |-> b, k |-> c, m |-> d, shard_size |-> e, pack_len |-> f,
                  size |-> g, crcs |-> h, parity |-> i]
    PROVE  /\ Worn(par, parity).intact = a /\ Worn(par, parity).pack_id = b
           /\ Worn(par, parity).k = c /\ Worn(par, parity).m = d
           /\ Worn(par, parity).shard_size = e /\ Worn(par, parity).pack_len = f
           /\ Worn(par, parity).size = g /\ Worn(par, parity).crcs = h
           /\ Worn(par, parity).parity = parity
BY DEF Worn

Encoded(orig, k, m) ==
    Codeword(SplitDataShards(orig, k, ShardSize(Len(orig), k)), k, m, ShardSize(Len(orig), k))

Checksums(orig, k, m) == [i \in 0 .. k + m - 1 |-> Crc32c(Encoded(orig, k, m)[i])]

Kept(orig, k, m) ==
    [j \in 0 .. m - 1 |-> RsEncode(SplitDataShards(orig, k, ShardSize(Len(orig), k)), k, m, ShardSize(Len(orig), k))[j]]

LEMMA Header ==
    ASSUME NEW orig, NEW id, NEW k, NEW m
    PROVE  /\ EncodeParity(orig, id, k, m).k = k /\ EncodeParity(orig, id, k, m).m = m
           /\ EncodeParity(orig, id, k, m).shard_size = ShardSize(Len(orig), k)
           /\ EncodeParity(orig, id, k, m).crcs = Checksums(orig, k, m)
           /\ EncodeParity(orig, id, k, m).parity = Kept(orig, k, m)
<1> DEFINE s == ShardSize(Len(orig), k)
           data == SplitDataShards(orig, k, s)
           size == PAR_HEADER_LEN + (k + m) * 4 + m * s
           crcs == [i \in 0 .. k + m - 1 |-> Crc32c(Codeword(data, k, m, s)[i])]
           kept == [j \in 0 .. m - 1 |-> RsEncode(data, k, m, s)[j]]
           n == Len(orig)
           par == EncodeParity(orig, id, k, m)
<1>1. par = [intact |-> TRUE, pack_id |-> id, k |-> k, m |-> m, shard_size |-> s, pack_len |-> n,
             size |-> size, crcs |-> crcs, parity |-> kept]
  BY Zenon DEF EncodeParity
<1>2. crcs = Checksums(orig, k, m)  BY Zenon DEF Checksums, Encoded
<1>3. kept = Kept(orig, k, m)  BY Zenon DEF Kept
<1> HIDE DEF s, data, size, crcs, kept, n, par
<1>4. par.k = k /\ par.m = m /\ par.shard_size = s /\ par.crcs = crcs /\ par.parity = kept
  BY <1>1
<1> QED  BY <1>2, <1>3, <1>4 DEF s, par

LEMMA WornHeader ==
    ASSUME NEW orig, NEW id, NEW k, NEW m, NEW parity
    PROVE  /\ Worn(EncodeParity(orig, id, k, m), parity).intact
           /\ Worn(EncodeParity(orig, id, k, m), parity).pack_id = id
           /\ Worn(EncodeParity(orig, id, k, m), parity).k = k
           /\ Worn(EncodeParity(orig, id, k, m), parity).m = m
           /\ Worn(EncodeParity(orig, id, k, m), parity).shard_size = ShardSize(Len(orig), k)
           /\ Worn(EncodeParity(orig, id, k, m), parity).pack_len = Len(orig)
           /\ Worn(EncodeParity(orig, id, k, m), parity).size = PAR_HEADER_LEN + (k + m) * 4 + m * ShardSize(Len(orig), k)
           /\ Worn(EncodeParity(orig, id, k, m), parity).crcs = EncodeParity(orig, id, k, m).crcs
           /\ Worn(EncodeParity(orig, id, k, m), parity).parity = parity
<1> DEFINE s == ShardSize(Len(orig), k)
           data == SplitDataShards(orig, k, s)
           size == PAR_HEADER_LEN + (k + m) * 4 + m * s
           crcs == [i \in 0 .. k + m - 1 |-> Crc32c(Codeword(data, k, m, s)[i])]
           kept == [j \in 0 .. m - 1 |-> RsEncode(data, k, m, s)[j]]
           n == Len(orig)
           par == EncodeParity(orig, id, k, m)
<1>1. par = [intact |-> TRUE, pack_id |-> id, k |-> k, m |-> m, shard_size |-> s, pack_len |-> n,
             size |-> size, crcs |-> crcs, parity |-> kept]
  BY Zenon DEF EncodeParity
<1> HIDE DEF s, data, size, crcs, kept, n, par
<1>2. par.crcs = crcs  BY <1>1
<1>3. /\ Worn(par, parity).intact = TRUE /\ Worn(par, parity).pack_id = id
      /\ Worn(par, parity).k = k /\ Worn(par, parity).m = m
      /\ Worn(par, parity).shard_size = s /\ Worn(par, parity).pack_len = n
      /\ Worn(par, parity).size = size /\ Worn(par, parity).crcs = crcs
      /\ Worn(par, parity).parity = parity
  BY <1>1, WornFields
<1> QED  BY <1>2, <1>3 DEF s, size, n, par

LEMMA Written ==
    ASSUME NEW orig \in Seq(Byte), NEW id, NEW k \in Nat, NEW m \in Nat, ValidGeometry(k, m), NEW parity
    PROVE  /\ Worn(EncodeParity(orig, id, k, m), parity).k = k /\ Worn(EncodeParity(orig, id, k, m), parity).m = m
           /\ Worn(EncodeParity(orig, id, k, m), parity).shard_size = ShardSize(Len(orig), k)
           /\ Worn(EncodeParity(orig, id, k, m), parity).pack_len = Len(orig)
           /\ Worn(EncodeParity(orig, id, k, m), parity).crcs = EncodeParity(orig, id, k, m).crcs
           /\ Worn(EncodeParity(orig, id, k, m), parity).parity = parity /\ Worn(EncodeParity(orig, id, k, m), parity).pack_id = id
           /\ Parses(Worn(EncodeParity(orig, id, k, m), parity), id)
           /\ EncodeParity(orig, id, k, m).k = k /\ EncodeParity(orig, id, k, m).m = m
           /\ EncodeParity(orig, id, k, m).shard_size = ShardSize(Len(orig), k)
<1> DEFINE s == ShardSize(Len(orig), k)
           par == EncodeParity(orig, id, k, m)
           p == Worn(par, parity)
<1>1. k \in Nat \ {0} /\ m \in Nat \ {0}  BY DEF ValidGeometry
<1>2. s \in Nat \ {0}  BY <1>1, ShardsHoldThePack
<1>3. par.k = k /\ par.m = m /\ par.shard_size = s  BY Header
<1>4. /\ p.k = k /\ p.m = m /\ p.shard_size = s /\ p.pack_len = Len(orig) /\ p.intact
      /\ p.crcs = par.crcs /\ p.parity = parity /\ p.pack_id = id
      /\ p.size = PAR_HEADER_LEN + (k + m) * 4 + m * s
  BY WornHeader
<1> HIDE DEF s, par, p
<1>5. Parses(p, id)
  <2>1. m * s \in Nat  BY <1>1, <1>2
  <2>2. p.size >= PAR_HEADER_LEN /\ p.size >= PAR_HEADER_LEN + (k + m) * 4 + m * s
    BY <1>1, <1>4, <2>1 DEF PAR_HEADER_LEN
  <2> QED  BY <1>2, <1>4, <2>2 DEF Parses
<1> QED  BY <1>3, <1>4, <1>5 DEF s, par, p

LEMMA WrittenShard ==
    ASSUME NEW orig \in Seq(Byte), NEW id, NEW k \in Nat, NEW m \in Nat, NEW i \in 0 .. k + m - 1
    PROVE  /\ Shards(orig, EncodeParity(orig, id, k, m))[i] = Encoded(orig, k, m)[i]
           /\ EncodeParity(orig, id, k, m).crcs[i] = Crc32c(Shards(orig, EncodeParity(orig, id, k, m))[i])
<1> DEFINE s == ShardSize(Len(orig), k)
           par == EncodeParity(orig, id, k, m)
           data == SplitDataShards(orig, k, s)
<1>1. par.k = k /\ par.m = m /\ par.shard_size = s  BY Header
<1>2. par.crcs = Checksums(orig, k, m) /\ par.parity = Kept(orig, k, m)  BY Header
<1>3. Encoded(orig, k, m)[i] = IF i < k THEN data[i] ELSE RsEncode(data, k, m, s)[i - k]
  BY DEF Encoded, Codeword
<1>4. ~(i < k) => Kept(orig, k, m)[i - k] = RsEncode(data, k, m, s)[i - k]
  <2>1. ~(i < k) => i - k \in 0 .. m - 1  OBVIOUS
  <2> QED  BY <2>1 DEF Kept
<1>5. Checksums(orig, k, m)[i] = Crc32c(Encoded(orig, k, m)[i])  BY DEF Checksums
<1> HIDE DEF s, par
<1>6. Shards(orig, par)[i] = IF i < k THEN data[i] ELSE par.parity[i - k]
  BY <1>1 DEF Shards, data
<1>7. Shards(orig, par)[i] = Encoded(orig, k, m)[i]  BY <1>2, <1>3, <1>4, <1>6
<1> QED  BY <1>2, <1>5, <1>7 DEF par

(* The shards that fail their checksum are the damaged ones. *)
LEMMA ErasedIsDamaged ==
    ASSUME NEW orig \in Seq(Byte), NEW pack \in Seq(Byte), NEW id, NEW k \in Nat, NEW m \in Nat,
           ValidGeometry(k, m), NEW parity,
           ChecksumTells(orig, pack, EncodeParity(orig, id, k, m), parity)
    PROVE  Erasures(pack, Worn(EncodeParity(orig, id, k, m), parity)) = Damage(orig, pack, EncodeParity(orig, id, k, m), parity)
<1> DEFINE par == EncodeParity(orig, id, k, m)
           p == Worn(par, parity)
<1>0. /\ p.k = k /\ p.m = m /\ par.k = k /\ par.m = m /\ p.crcs = par.crcs
  BY Written
<1>1. \A i \in 0 .. k + m - 1 : par.crcs[i] = Crc32c(Shards(orig, par)[i])
  BY WrittenShard
<1> HIDE DEF par, p
<1>2. \A i \in 0 .. k + m - 1 :
        Crc32c(Shards(pack, p)[i]) = Crc32c(Shards(orig, par)[i]) <=> Shards(pack, p)[i] = Shards(orig, par)[i]
  BY <1>0 DEF ChecksumTells, par, p
<1>3. Erasures(pack, p) = {i \in 0 .. k + m - 1 : Crc32c(Shards(pack, p)[i]) # par.crcs[i]}
  BY <1>0 DEF Erasures
<1>4. Damage(orig, pack, par, parity) = {i \in 0 .. k + m - 1 : Shards(pack, p)[i] # Shards(orig, par)[i]}
  BY <1>0 DEF Damage, par, p
<1> QED  BY <1>0, <1>1, <1>2, <1>3, <1>4 DEF par, p

(* parity.rs:169-227, repair_pack: a pack some of whose shards, or of its  *)
(* parity's, are damaged, no more than there are parity shards, comes back *)
(* byte for byte, truncated, overgrown or overwritten as it may have been. *)
THEOREM RepairRestores ==
    ASSUME NEW orig \in Seq(Byte), NEW pack \in Seq(Byte), Zero \in Byte,
           NEW id, NEW k \in Nat, NEW m \in Nat, ValidGeometry(k, m),
           NEW parity,
           IsErasureCode(k, m, ShardSize(Len(orig), k)),
           ChecksumTells(orig, pack, EncodeParity(orig, id, k, m), parity),
           Damage(orig, pack, EncodeParity(orig, id, k, m), parity) # {},
           Cardinality(Damage(orig, pack, EncodeParity(orig, id, k, m), parity)) <= m
    PROVE  RepairPack(pack, Worn(EncodeParity(orig, id, k, m), parity), id) = Repaired(orig)
<1> DEFINE par == EncodeParity(orig, id, k, m)
           s == ShardSize(Len(orig), k)
           p == Worn(par, parity)
           data == SplitDataShards(orig, k, s)
           erased == Erasures(pack, p)
           present == (0 .. k + m - 1) \ erased
<1>1. k \in Nat \ {0} /\ m \in Nat \ {0}  BY DEF ValidGeometry
<1>2. s \in Nat \ {0} /\ Len(orig) <= k * s  BY <1>1, ShardsHoldThePack
<1>3. /\ p.k = k /\ p.m = m /\ p.shard_size = s /\ p.pack_len = Len(orig) /\ Parses(p, id)
      /\ par.k = k /\ par.m = m
  BY Written
<1>12. \A i \in 0 .. k + m - 1 : Shards(orig, par)[i] = Codeword(data, k, m, s)[i]
  BY WrittenShard DEF Encoded
<1>4. erased = Damage(orig, pack, par, parity)  BY ErasedIsDamaged
<1> HIDE DEF s, par, p, data
<1>5. data \in [0 .. k - 1 -> Shard(s)]  BY <1>1, <1>2, SplitType DEF data
<1>6. erased \in SUBSET (0 .. k + m - 1)  BY <1>3 DEF Erasures
<1>7. Cardinality(present) >= k
  <2> DEFINE all == 0 .. k + m - 1
  <2>1. IsFiniteSet(all) /\ Cardinality(all) = k + m  BY <1>1, FS_Interval
  <2>2. Cardinality(erased) <= m  BY <1>4 DEF par
  <2> HIDE DEF all, erased
  <2>3. erased \in SUBSET all  BY <1>6 DEF all
  <2>4. Cardinality(erased) \in Nat  BY <2>1, <2>3, FS_Subset, FS_CardinalityType
  <2>5. Cardinality(all \ erased) = Cardinality(all) - Cardinality(erased)  BY <2>1, <2>3, Without
  <2>6. Cardinality(all \ erased) >= k  BY <2>1, <2>2, <2>4, <2>5
  <2> QED  BY <2>6 DEF all
<1>8. \A i \in present : Shards(pack, p)[i] = Codeword(data, k, m, s)[i]
  <2>1. \A i \in 0 .. k + m - 1 : i \notin erased => Shards(pack, p)[i] = Shards(orig, par)[i]
    BY <1>3, <1>4 DEF Damage, par, p
  <2> QED  BY <1>12, <2>1
<1>9. Reconstruct(Shards(pack, p), present, k, m, s) = data
  <2>1. IsErasureCode(k, m, s)  BY DEF s
  <2>2. present \in SUBSET (0 .. k + m - 1)  OBVIOUS
  <2> DEFINE read == Shards(pack, p)
  <2>3. \A i \in present : read[i] = Codeword(data, k, m, s)[i]  BY <1>8
  <2> HIDE DEF present, read
  <2>4. Reconstruct(read, present, k, m, s) = data
    BY <1>1, <1>2, <1>5, <1>7, <2>1, <2>2, <2>3, ReconstructGives
  <2> QED  BY <2>4 DEF read
<1>10. Joined(data, k, s, Len(orig)) = orig  BY <1>1, <1>2, JoinedSplit DEF data
<1>11. Cardinality(erased) <= m /\ erased # {}  BY <1>4 DEF par
<1>13. RepairPack(pack, p, id) = Repaired(Joined(Reconstruct(Shards(pack, p), present, k, m, s), k, s, Len(orig)))
  <2>1. present = (0 .. p.k + p.m - 1) \ Erasures(pack, p)  BY <1>3
  <2> HIDE DEF present
  <2>3. Cardinality(erased) \in Nat
    <3>1. IsFiniteSet(0 .. k + m - 1)  BY FS_Interval
    <3> QED  BY <1>6, <3>1, FS_Subset, FS_CardinalityType
  <2>2. ~(Cardinality(erased) > m)
    <3> HIDE DEF erased
    <3> QED  BY <1>11, <2>3
  <2> QED  BY <1>3, <1>11, <2>1, <2>2, Zenon DEF RepairPack
<1> QED  BY <1>9, <1>10, <1>13 DEF par, p

(* parity.rs:200-206: when no shard is damaged the bytes are handed on as  *)
(* they are, and they begin with the pack, unless they are fewer.          *)
THEOREM IntactIsUntouched ==
    ASSUME NEW orig \in Seq(Byte), NEW pack \in Seq(Byte),
           NEW id, NEW k \in Nat, NEW m \in Nat, ValidGeometry(k, m),
           NEW parity,
           ChecksumTells(orig, pack, EncodeParity(orig, id, k, m), parity),
           Damage(orig, pack, EncodeParity(orig, id, k, m), parity) = {}
    PROVE  /\ RepairPack(pack, Worn(EncodeParity(orig, id, k, m), parity), id) = Repaired(pack)
           /\ Len(orig) <= Len(pack) => \A b \in 1 .. Len(orig) : pack[b] = orig[b]
<1> DEFINE par == EncodeParity(orig, id, k, m)
           s == ShardSize(Len(orig), k)
           p == Worn(par, parity)
<1>1. k \in Nat \ {0} /\ m \in Nat \ {0}  BY DEF ValidGeometry
<1>2. s \in Nat \ {0} /\ Len(orig) <= k * s  BY <1>1, ShardsHoldThePack
<1>3. p.k = k /\ p.m = m /\ p.shard_size = s /\ Parses(p, id)  BY Written
<1>8. par.k = k /\ par.m = m /\ par.shard_size = s  BY Header
<1>4. Erasures(pack, p) = {}  BY ErasedIsDamaged
<1>5. \A i \in 0 .. k + m - 1 : Shards(pack, p)[i] = Shards(orig, par)[i]
  BY <1>8 DEF Damage
<1> HIDE DEF s, par, p
<1>6. ASSUME Len(orig) <= Len(pack), NEW b \in 1 .. Len(orig)  PROVE pack[b] = orig[b]
  <2> DEFINE c == b - 1
             i == c \div s
             o == c % s
  <2>1. c \in Nat /\ c < Len(orig) /\ c < k * s /\ c < Len(pack)  BY <1>1, <1>2, <1>6
  <2>2. i \in 0 .. k - 1  BY <1>1, <1>2, <2>1, AddressInPack
  <2>3. o \in 0 .. s - 1 /\ i * s + o = c  BY <1>2, <2>1, Address
  <2> HIDE DEF i, o
  <2>4. i \in 0 .. k + m - 1 /\ i < k  BY <1>1, <2>2
  <2>5. Shards(pack, p)[i] = SplitDataShards(pack, k, s)[i]  BY <1>3, <2>4 DEF Shards
  <2>6. Shards(orig, par)[i] = SplitDataShards(orig, k, s)[i]  BY <1>8, <2>4 DEF Shards
  <2>7. SplitDataShards(pack, k, s)[i][o] = pack[c + 1]
    BY <2>1, <2>2, <2>3 DEF SplitDataShards
  <2>8. SplitDataShards(orig, k, s)[i][o] = orig[c + 1]
    BY <2>1, <2>2, <2>3 DEF SplitDataShards
  <2>9. pack[c + 1] = orig[c + 1]  BY <1>5, <2>4, <2>5, <2>6, <2>7, <2>8
  <2> QED  BY <2>9, <1>6
<1>7. RepairPack(pack, p, id) = Repaired(pack)  BY <1>3, <1>4 DEF RepairPack
<1> QED  BY <1>6, <1>7 DEF par, p

(* parity.rs:207-212 and 111-113: damage beyond the parity shards is       *)
(* refused, never guessed at, and so is the parity of another pack.        *)
THEOREM BeyondRepairIsRefused ==
    ASSUME NEW orig \in Seq(Byte), NEW pack \in Seq(Byte), NEW id, NEW other,
           NEW k \in Nat, NEW m \in Nat, ValidGeometry(k, m),
           NEW parity,
           ChecksumTells(orig, pack, EncodeParity(orig, id, k, m), parity)
    PROVE  /\ Cardinality(Damage(orig, pack, EncodeParity(orig, id, k, m), parity)) > m
                => RepairPack(pack, Worn(EncodeParity(orig, id, k, m), parity), id) = Refused
           /\ other # id => RepairPack(pack, Worn(EncodeParity(orig, id, k, m), parity), other) = Refused
<1> DEFINE par == EncodeParity(orig, id, k, m)
           p == Worn(par, parity)
<1>1. p.k = k /\ p.m = m /\ Parses(p, id) /\ p.pack_id = id  BY Written
<1>2. Erasures(pack, p) = Damage(orig, pack, par, parity)  BY ErasedIsDamaged
<1> HIDE DEF par, p
<1>3. ASSUME Cardinality(Damage(orig, pack, par, parity)) > m  PROVE RepairPack(pack, p, id) = Refused
  <2>1. Erasures(pack, p) # {}
    <3>1. Cardinality({}) = 0 /\ m >= 0  BY FS_EmptySet
    <3>2. Cardinality(Erasures(pack, p)) > m  BY <1>2, <1>3 DEF par
    <3>3. Erasures(pack, p) = {} => Cardinality(Erasures(pack, p)) = 0  BY <3>1, Zenon
    <3> QED  BY <3>1, <3>2, <3>3
  <2>2. Cardinality(Erasures(pack, p)) > m  BY <1>2, <1>3 DEF par
  <2> QED  BY <1>1, <2>1, <2>2, Zenon DEF RepairPack
<1>4. ASSUME other # id  PROVE RepairPack(pack, p, other) = Refused
  BY <1>1, <1>4 DEF RepairPack, Parses
<1> QED  BY <1>3, <1>4 DEF par, p
=============================================================================
