--------------------------- MODULE PackCacheProofs ---------------------------
(***************************************************************************)
(* Theorems about PackCache for any set of workers and packs, any sizes    *)
(* and any byte budget.  TLC checks the same formulas on three of each.    *)
(*                                                                         *)
(* The inductive invariant is TypeOK, SingleFlight and LruIsReady          *)
(* together.  SingleFlight needs LruIsReady because insert_ready evicts    *)
(* whatever the queue names: only if it names nothing but Ready packs is a *)
(* Pending slot out of its reach.  LruIsReady needs SingleFlight because   *)
(* insert_ready appends its key: the queue stays free of duplicates only   *)
(* if that key's slot was Pending.                                         *)
(*                                                                         *)
(* Budget and Accounting are inductive on top of it.  Accounting compares  *)
(* readyBytes with a recursive sum; the proof names the sums of a queue by *)
(* the equations they satisfy (Sums), shows that they exist and are what   *)
(* the recursion computes, and follows them through an insertion and a     *)
(* promotion.                                                              *)
(***************************************************************************)
EXTENDS PackCache, SequenceTheorems, WellFoundedInduction, TLAPS

Injective(s) == \A i, j \in 1 .. Len(s) : s[i] = s[j] => i = j

(* Removing the one occurrence of k from a queue without duplicates.  It is*)
(* what a cache hit does to the recency queue before it re-appends k.      *)
LEMMA WithoutProperties ==
    ASSUME NEW s \in Seq(Packs), Injective(s), NEW k \in SetOfSeq(s)
    PROVE  /\ Without(s, k) \in Seq(Packs)
           /\ Len(Without(s, k)) = Len(s) - 1
           /\ SetOfSeq(Without(s, k)) = SetOfSeq(s) \ {k}
           /\ Injective(Without(s, k))
<1> DEFINE p == CHOOSE i \in 1 .. Len(s) : s[i] = k
           t == Without(s, k)
<1>1. p \in 1 .. Len(s) /\ s[p] = k
  BY DEF SetOfSeq
<1>2. t = [i \in 1 .. Len(s) - 1 |-> IF i < p THEN s[i] ELSE s[i + 1]]
  BY DEF Without
<1> HIDE DEF p, t
<1>3. Len(s) \in Nat /\ \A i \in 1 .. Len(s) : s[i] \in Packs
  BY LenProperties, ElementOfSeq
<1>4. t \in Seq(Packs) /\ Len(t) = Len(s) - 1
  <2>1. \A i \in 1 .. Len(s) - 1 :
            (IF i < p THEN s[i] ELSE s[i + 1]) \in Packs
    BY <1>1, <1>3
  <2>2. t \in [1 .. Len(s) - 1 -> Packs]
    BY <1>2, <2>1
  <2> QED
    BY <1>1, <1>3, <2>2, IsASeq, LenProperties
<1>5. \A i \in 1 .. Len(t) : t[i] = IF i < p THEN s[i] ELSE s[i + 1]
  BY <1>2, <1>4
<1>6. SetOfSeq(t) = SetOfSeq(s) \ {k}
  <2>1. ASSUME NEW x \in SetOfSeq(t) PROVE x \in SetOfSeq(s) \ {k}
    <3>1. PICK i \in 1 .. Len(t) : x = t[i]
      BY <2>1 DEF SetOfSeq
    <3>2. CASE i < p
      BY <3>1, <3>2, <1>1, <1>3, <1>4, <1>5 DEF SetOfSeq, Injective
    <3>3. CASE ~(i < p)
      <4>1. i + 1 \in 1 .. Len(s) /\ x = s[i + 1] /\ i + 1 # p
        BY <3>1, <3>3, <1>1, <1>3, <1>4, <1>5
      <4> QED
        BY <4>1, <1>1 DEF SetOfSeq, Injective
    <3> QED
      BY <3>2, <3>3
  <2>2. ASSUME NEW x \in SetOfSeq(s), x # k PROVE x \in SetOfSeq(t)
    <3>1. PICK j \in 1 .. Len(s) : x = s[j]
      BY <2>2 DEF SetOfSeq
    <3>2. j # p
      BY <2>2, <3>1, <1>1
    <3>3. CASE j < p
      BY <3>1, <3>3, <1>1, <1>3, <1>4, <1>5 DEF SetOfSeq
    <3>4. CASE j > p
      <4>1. j - 1 \in 1 .. Len(t) /\ ~(j - 1 < p) /\ (j - 1) + 1 = j
        BY <3>4, <1>1, <1>3, <1>4
      <4>2. t[j - 1] = s[j]
        BY <4>1, <1>5
      <4> QED
        BY <3>1, <4>1, <4>2 DEF SetOfSeq
    <3> QED
      BY <3>2, <3>3, <3>4, <1>1
  <2> QED
    BY <2>1, <2>2
<1>7. Injective(t)
  <2> SUFFICES ASSUME NEW i \in 1 .. Len(t), NEW j \in 1 .. Len(t), t[i] = t[j]
               PROVE  i = j
    BY DEF Injective
  <2> DEFINE at(x) == IF x < p THEN x ELSE x + 1
  <2>1. at(i) \in 1 .. Len(s) /\ at(j) \in 1 .. Len(s)
    BY <1>1, <1>3, <1>4
  <2>2. t[i] = s[at(i)] /\ t[j] = s[at(j)]
    BY <1>5
  <2>3. at(i) = at(j)
    BY <2>1, <2>2 DEF Injective
  <2> QED
    BY <2>3, <1>1, <1>3, <1>4
<1> QED
  BY <1>4, <1>6, <1>7 DEF t

(* Appending a new element to a queue without duplicates. *)
LEMMA AppendNew ==
    ASSUME NEW s \in Seq(Packs), Injective(s),
           NEW k \in Packs, k \notin SetOfSeq(s)
    PROVE  /\ Append(s, k) \in Seq(Packs)
           /\ Len(Append(s, k)) = Len(s) + 1
           /\ SetOfSeq(Append(s, k)) = SetOfSeq(s) \cup {k}
           /\ Injective(Append(s, k))
<1> DEFINE t == Append(s, k)
<1>1. /\ Len(s) \in Nat
      /\ t \in Seq(Packs)
      /\ Len(t) = Len(s) + 1
      /\ \A i \in 1 .. Len(s) : t[i] = s[i]
      /\ t[Len(s) + 1] = k
  BY AppendProperties, LenProperties
<1> HIDE DEF t
<1>2. SetOfSeq(t) = SetOfSeq(s) \cup {k}
  <2>1. \A i \in 1 .. Len(t) : i \in 1 .. Len(s) \/ i = Len(s) + 1
    BY <1>1
  <2>2. \A i \in 1 .. Len(s) : i \in 1 .. Len(t)
    BY <1>1
  <2>3. Len(s) + 1 \in 1 .. Len(t)
    BY <1>1
  <2> QED
    BY <1>1, <2>1, <2>2, <2>3 DEF SetOfSeq
<1>3. Injective(t)
  BY <1>1 DEF Injective, SetOfSeq
<1> QED
  BY <1>1, <1>2, <1>3 DEF t

(* Dropping the first n elements of a queue without duplicates. *)
LEMMA DropFront ==
    ASSUME NEW s \in Seq(Packs), Injective(s), NEW n \in 0 .. Len(s)
    PROVE  LET t == SubSeq(s, n + 1, Len(s)) IN
           /\ t \in Seq(Packs)
           /\ Len(t) = Len(s) - n
           /\ SetOfSeq(t) = SetOfSeq(s) \ {s[i] : i \in 1 .. n}
           /\ Injective(t)
<1> DEFINE t == SubSeq(s, n + 1, Len(s))
<1>1. Len(s) \in Nat /\ \A i \in 1 .. Len(s) : s[i] \in Packs
  BY LenProperties, ElementOfSeq
<1>2. /\ t \in Seq(Packs)
      /\ Len(t) = Len(s) - n
      /\ \A i \in 1 .. Len(t) : t[i] = s[n + i]
  <2>1. n + 1 \in Int /\ Len(s) \in Int /\ \A i \in n + 1 .. Len(s) : s[i] \in Packs
    BY <1>1
  <2>2. /\ t \in Seq(Packs)
        /\ Len(t) = IF n + 1 <= Len(s) THEN Len(s) - (n + 1) + 1 ELSE 0
        /\ \A i \in 1 .. Len(s) - (n + 1) + 1 : t[i] = s[(n + 1) + i - 1]
    BY <2>1, SubSeqProperties
  <2> QED
    BY <1>1, <2>2
<1> HIDE DEF t
<1>3. SetOfSeq(t) = SetOfSeq(s) \ {s[i] : i \in 1 .. n}
  <2>1. ASSUME NEW x \in SetOfSeq(t) PROVE x \in SetOfSeq(s) \ {s[i] : i \in 1 .. n}
    <3>1. PICK i \in 1 .. Len(t) : x = t[i]
      BY <2>1 DEF SetOfSeq
    <3>2. n + i \in 1 .. Len(s) /\ x = s[n + i] /\ ~(n + i \in 1 .. n)
      BY <1>1, <1>2, <3>1
    <3>3. \A j \in 1 .. n : j \in 1 .. Len(s) /\ j # n + i
      BY <1>1, <3>2
    <3> QED
      BY <3>2, <3>3 DEF SetOfSeq, Injective
  <2>2. ASSUME NEW x \in SetOfSeq(s), x \notin {s[i] : i \in 1 .. n}
        PROVE  x \in SetOfSeq(t)
    <3>1. PICK j \in 1 .. Len(s) : x = s[j]
      BY <2>2 DEF SetOfSeq
    <3>2. ~(j \in 1 .. n)
      BY <2>2, <3>1
    <3>3. j - n \in 1 .. Len(t) /\ n + (j - n) = j
      BY <1>1, <1>2, <3>2
    <3> QED
      BY <1>2, <3>1, <3>3 DEF SetOfSeq
  <2> QED
    BY <2>1, <2>2
<1>4. Injective(t)
  <2> SUFFICES ASSUME NEW i \in 1 .. Len(t), NEW j \in 1 .. Len(t), t[i] = t[j]
               PROVE  i = j
    BY DEF Injective
  <2>1. n + i \in 1 .. Len(s) /\ n + j \in 1 .. Len(s) /\ s[n + i] = s[n + j]
    BY <1>1, <1>2
  <2>2. n + i = n + j
    BY <2>1 DEF Injective
  <2> QED
    BY <2>2, <1>1, <1>2
<1> QED
  BY <1>2, <1>3, <1>4 DEF t

-----------------------------------------------------------------------------
IInv == TypeOK /\ SingleFlight /\ LruIsReady

(* Every reachable state before the first request satisfies IInv. *)
LEMMA InitIInv == Init => IInv
<1> SUFFICES ASSUME Init PROVE IInv
  OBVIOUS
<1>1. lru = <<>> /\ Len(lru) = 0
  BY DEF Init
<1>2. TypeOK
  BY <1>1, EmptySeq, NoneAssumption DEF Init, TypeOK, SlotStates, WorkerStates
<1>3. SingleFlight
  BY DEF Init, SingleFlight, Owning
<1>4. LruIsReady
  BY <1>1 DEF Init, LruIsReady, SetOfSeq
<1> QED
  BY <1>2, <1>3, <1>4 DEF IInv

(* What ReturnAndNotify and DropNotify do to the other workers: only armed *)
(* ones change, so a worker that owns a Pending slot keeps it.             *)
LEMMA NotifyKeepsOwners ==
    ASSUME TypeOK, NEW w \in Workers, pc[w] \in Owning,
           pc' = ReturnAndNotify(w), holds' = DropNotify(w)
    PROVE  /\ pc' \in [Workers -> WorkerStates]
           /\ holds' \in [Workers -> Notifies \cup {NoNotify}]
           /\ pc'[w] = "idle"
           /\ \A v \in Workers : v # w =>
                 /\ pc'[v] \in Owning <=> pc[v] \in Owning
                 /\ pc'[v] \in Owning => pc'[v] = pc[v] /\ holds'[v] = holds[v]
BY DEF TypeOK, ReturnAndNotify, DropNotify, Owning, WorkerStates

(* insert_ready on a Pending slot: the recency queue still names exactly   *)
(* the Ready packs, and no other Pending slot is touched.                  *)
LEMMA InsertReadyProperties ==
    ASSUME IInv, NEW k \in Packs, slot[k] = "pending", InsertReady(k)
    PROVE  /\ slot' \in [Packs -> SlotStates]
           /\ lru' \in Seq(Packs)
           /\ readyBytes' \in Nat
           /\ slot'[k] = "ready"
           /\ \A j \in Packs \ {k} :
                 /\ slot'[j] = "pending" <=> slot[j] = "pending"
                 /\ slot'[j] = "ready" => slot[j] = "ready"
           /\ LruIsReady'
           /\ Budget'
<1>1. PICK n \in 0 .. Len(lru) : \E left \in [0 .. n -> 0 .. readyBytes] :
        /\ EvictionRun(lru, Size[k], n, left)
        /\ readyBytes' = left[n] + Size[k]
        /\ lru' = Append(SubSeq(lru, n + 1, Len(lru)), k)
        /\ slot' = [j \in Packs |->
                       IF j = k THEN "ready"
                       ELSE IF \E i \in 1 .. n : lru[i] = j THEN "absent"
                       ELSE slot[j]]
  BY DEF InsertReady
<1>2. PICK left \in [0 .. n -> 0 .. readyBytes] :
        /\ EvictionRun(lru, Size[k], n, left)
        /\ readyBytes' = left[n] + Size[k]
  BY <1>1
<1> DEFINE rest    == SubSeq(lru, n + 1, Len(lru))
           evicted == {lru[i] : i \in 1 .. n}
<1>3. /\ lru \in Seq(Packs) /\ Len(lru) \in Nat /\ Injective(lru)
      /\ slot \in [Packs -> SlotStates] /\ readyBytes \in Nat
      /\ SetOfSeq(lru) = {j \in Packs : slot[j] = "ready"}
  BY LenProperties DEF IInv, TypeOK, LruIsReady, Injective
<1>4. /\ rest \in Seq(Packs)
      /\ Len(rest) = Len(lru) - n
      /\ SetOfSeq(rest) = SetOfSeq(lru) \ evicted
      /\ Injective(rest)
  BY <1>3, DropFront
<1>5. evicted \subseteq SetOfSeq(lru)
  BY <1>3 DEF SetOfSeq
<1>6. k \notin SetOfSeq(lru)
  BY <1>3
<1>7. lru' = Append(rest, k)
  BY <1>1
<1>8. slot' = [j \in Packs |-> IF j = k THEN "ready"
                               ELSE IF j \in evicted THEN "absent"
                               ELSE slot[j]]
  BY <1>1
<1> HIDE DEF rest, evicted
<1>9. /\ lru' \in Seq(Packs)
      /\ Len(lru') = Len(rest) + 1
      /\ SetOfSeq(lru') = SetOfSeq(rest) \cup {k}
      /\ Injective(lru')
  <2>1. k \notin SetOfSeq(rest)
    BY <1>4, <1>6
  <2> QED
    BY <1>4, <1>7, <2>1, AppendNew
<1>10. slot' \in [Packs -> SlotStates] /\ slot'[k] = "ready"
  BY <1>3, <1>8 DEF SlotStates
<1>11. \A j \in Packs \ {k} :
          /\ slot'[j] = "pending" <=> slot[j] = "pending"
          /\ slot'[j] = "ready" => slot[j] = "ready"
  BY <1>3, <1>5, <1>8
<1>12. SetOfSeq(lru') = {j \in Packs : slot'[j] = "ready"}
  BY <1>3, <1>4, <1>5, <1>6, <1>8, <1>9
<1>13. LruIsReady'
  <2>1. SetOfSeq(lru)' = SetOfSeq(lru')
    BY DEF SetOfSeq
  <2> QED
    BY <1>9, <1>12, <2>1 DEF LruIsReady, Injective
<1>14. left[n] \in Nat /\ Size[k] \in Nat
  BY <1>2, <1>3, SizeAssumption
<1>15. readyBytes' \in Nat
  BY <1>2, <1>14
<1>16. Budget'
  <2>1. CASE left[n] + Size[k] > MaxBytes
    <3>1. n = Len(lru)
      BY <1>2, <2>1 DEF EvictionRun
    <3>2. Len(lru') = 1
      BY <3>1, <1>3, <1>4, <1>9
    <3> QED
      BY <3>2 DEF Budget
  <2>2. CASE ~(left[n] + Size[k] > MaxBytes)
    BY <2>2, <1>2, <1>14, MaxBytesAssumption DEF Budget
  <2> QED
    BY <2>1, <2>2
<1> QED
  BY <1>9, <1>10, <1>11, <1>13, <1>15, <1>16

-----------------------------------------------------------------------------
(* A cache hit re-orders the queue and changes no slot. *)
LEMMA LookupReadyIInv ==
    ASSUME IInv, NEW w \in Workers, LookupReady(w)
    PROVE  IInv' /\ Len(lru') = Len(lru)
<1>1. lru \in Seq(Packs) /\ Injective(lru) /\ want[w] \in SetOfSeq(lru)
  BY DEF IInv, TypeOK, LruIsReady, LookupReady, Injective
<1> DEFINE rest == Without(lru, want[w])
<1>2. /\ rest \in Seq(Packs)
      /\ Len(rest) = Len(lru) - 1
      /\ SetOfSeq(rest) = SetOfSeq(lru) \ {want[w]}
      /\ Injective(rest)
  BY <1>1, WithoutProperties
<1>3. want[w] \in Packs /\ want[w] \notin SetOfSeq(rest)
  BY <1>2 DEF IInv, TypeOK
<1>4. lru' = Append(rest, want[w])
  BY DEF LookupReady
<1> HIDE DEF rest
<1>5. /\ lru' \in Seq(Packs)
      /\ Len(lru') = Len(lru)
      /\ SetOfSeq(lru') = SetOfSeq(lru)
      /\ Injective(lru')
  <2> DEFINE t == Append(rest, want[w])
  <2>1. /\ t \in Seq(Packs)
        /\ Len(t) = Len(rest) + 1
        /\ SetOfSeq(t) = SetOfSeq(rest) \cup {want[w]}
        /\ Injective(t)
    BY <1>2, <1>3, AppendNew
  <2>2. lru' = t
    BY <1>4
  <2> HIDE DEF t
  <2>3. SetOfSeq(t) = SetOfSeq(lru)
    BY <1>1, <1>2, <2>1
  <2>4. Len(lru) \in Nat
    BY <1>1, LenProperties
  <2>5. Len(t) = Len(lru)
    BY <1>2, <2>1, <2>4
  <2> QED
    BY <2>1, <2>2, <2>3, <2>5
<1>6. TypeOK'
  BY <1>5 DEF IInv, TypeOK, LookupReady, WorkerStates
<1>7. SingleFlight'
  BY DEF IInv, TypeOK, SingleFlight, LookupReady, Owning
<1>8. LruIsReady'
  <2>1. SetOfSeq(lru)' = SetOfSeq(lru')
    BY DEF SetOfSeq
  <2> QED
    BY <1>5, <2>1 DEF IInv, LruIsReady, LookupReady, Injective
<1> QED
  BY <1>5, <1>6, <1>7, <1>8 DEF IInv

(* Publishing a pack hands its slot from Pending to Ready. *)
LEMMA PublishIInv ==
    ASSUME IInv, NEW w \in Workers, Publish(w)
    PROVE  IInv' /\ Budget'
<1>1. pc[w] = "fetched" /\ pc[w] \in Owning /\ want[w] \in Packs
  BY DEF Publish, Owning, IInv, TypeOK
<1>2. slot[want[w]] = "pending"
  BY <1>1 DEF IInv, SingleFlight
<1>3. /\ slot' \in [Packs -> SlotStates] /\ lru' \in Seq(Packs) /\ readyBytes' \in Nat
      /\ slot'[want[w]] = "ready"
      /\ \A j \in Packs \ {want[w]} : slot'[j] = "pending" <=> slot[j] = "pending"
      /\ LruIsReady' /\ Budget'
  BY <1>1, <1>2, InsertReadyProperties DEF Publish
<1>4. /\ pc' \in [Workers -> WorkerStates]
      /\ holds' \in [Workers -> Notifies \cup {NoNotify}]
      /\ pc'[w] = "idle"
      /\ \A v \in Workers : v # w =>
            /\ pc'[v] \in Owning <=> pc[v] \in Owning
            /\ pc'[v] \in Owning => pc'[v] = pc[v] /\ holds'[v] = holds[v]
  BY <1>1, NotifyKeepsOwners DEF Publish, IInv
<1>5. TypeOK'
  BY <1>3, <1>4 DEF Publish, IInv, TypeOK
<1>6. SingleFlight'
  BY <1>1, <1>3, <1>4 DEF Publish, IInv, TypeOK, SingleFlight, Owning
<1> QED
  BY <1>3, <1>5, <1>6 DEF IInv

(* Giving a download up frees its slot. *)
LEMMA AbandonIInv ==
    ASSUME IInv, NEW w \in Workers, Abandon(w)
    PROVE  IInv'
<1>1. pc[w] = "failed" /\ pc[w] \in Owning /\ want[w] \in Packs
  BY DEF Abandon, Owning, IInv, TypeOK
<1>2. /\ pc' \in [Workers -> WorkerStates]
      /\ holds' \in [Workers -> Notifies \cup {NoNotify}]
      /\ pc'[w] = "idle"
      /\ \A v \in Workers : v # w =>
            /\ pc'[v] \in Owning <=> pc[v] \in Owning
            /\ pc'[v] \in Owning => pc'[v] = pc[v] /\ holds'[v] = holds[v]
  BY <1>1, NotifyKeepsOwners DEF Abandon, IInv
<1>3. TypeOK'
  BY <1>2 DEF Abandon, IInv, TypeOK, SlotStates
<1>4. SingleFlight'
  BY <1>1, <1>2 DEF Abandon, IInv, TypeOK, SingleFlight, Owning
<1>5. LruIsReady'
  <2>1. slot[want[w]] = "pending"
    BY <1>1 DEF IInv, SingleFlight
  <2>2. \A k \in Packs : slot'[k] = "ready" <=> slot[k] = "ready"
    BY <2>1, <1>1 DEF Abandon, IInv, TypeOK
  <2> QED
    BY <2>2 DEF Abandon, IInv, LruIsReady, SetOfSeq
<1> QED
  BY <1>3, <1>4, <1>5 DEF IInv

(* Every step preserves the inductive invariant. *)
LEMMA NextIInv == IInv /\ [Next]_vars => IInv'
<1> SUFFICES ASSUME IInv, [Next]_vars PROVE IInv'
  OBVIOUS
<1>1. ASSUME NEW w \in Workers, Request(w) PROVE IInv'
  BY <1>1 DEF Request, cacheVars, IInv, TypeOK, SingleFlight, LruIsReady,
              SetOfSeq, Owning, WorkerStates
<1>2. ASSUME NEW w \in Workers, LookupReady(w) PROVE IInv'
  BY <1>2, LookupReadyIInv
<1>3. ASSUME NEW w \in Workers, LookupPending(w) PROVE IInv'
  BY <1>3 DEF LookupPending, cacheVars, IInv, TypeOK, SingleFlight, LruIsReady,
              SetOfSeq, Owning, WorkerStates
<1>4. ASSUME NEW w \in Workers, LookupAbsent(w) PROVE IInv'
  <2>1. TypeOK'
    BY <1>4 DEF LookupAbsent, IInv, TypeOK, WorkerStates, SlotStates
  <2>2. SingleFlight'
    BY <1>4 DEF LookupAbsent, IInv, TypeOK, SingleFlight, Owning
  <2>3. LruIsReady'
    BY <1>4 DEF LookupAbsent, IInv, TypeOK, LruIsReady, SetOfSeq
  <2> QED
    BY <2>1, <2>2, <2>3 DEF IInv
<1>5. ASSUME NEW w \in Workers, Arm(w) PROVE IInv'
  BY <1>5 DEF Arm, cacheVars, IInv, TypeOK, SingleFlight, LruIsReady,
              SetOfSeq, Owning, WorkerStates
<1>6. ASSUME NEW w \in Workers, DownloadEnds(w) PROVE IInv'
  BY <1>6 DEF DownloadEnds, cacheVars, IInv, TypeOK, SingleFlight, LruIsReady,
              SetOfSeq, Owning, WorkerStates
<1>7. ASSUME NEW w \in Workers, Publish(w) PROVE IInv'
  BY <1>7, PublishIInv
<1>8. ASSUME NEW w \in Workers, Abandon(w) PROVE IInv'
  BY <1>8, AbandonIInv
<1>9. CASE UNCHANGED vars
  BY <1>9 DEF vars, cacheVars, workerVars, IInv, TypeOK, SingleFlight,
              LruIsReady, SetOfSeq
<1> QED
  BY <1>1, <1>2, <1>3, <1>4, <1>5, <1>6, <1>7, <1>8, <1>9 DEF Next, Step

(* The variables of the cache and of its workers keep their types. *)
THEOREM TypeCorrect == Spec => []TypeOK
<1>1. IInv => TypeOK
  BY DEF IInv
<1> QED
  BY InitIInv, NextIInv, <1>1, PTL DEF Spec

(* A pack is downloaded by at most one worker at a time and its Pending    *)
(* slot lives exactly as long as that download.                            *)
THEOREM SingleFlightHolds == Spec => []SingleFlight
<1>1. IInv => SingleFlight
  BY DEF IInv
<1> QED
  BY InitIInv, NextIInv, <1>1, PTL DEF Spec

(* The eviction loop always finds exactly the Ready packs in the queue. *)
THEOREM LruIsReadyHolds == Spec => []LruIsReady
<1>1. IInv => LruIsReady
  BY DEF IInv
<1> QED
  BY InitIInv, NextIInv, <1>1, PTL DEF Spec

(* The cache holds more than max_bytes only while a single pack does. *)
THEOREM BudgetHolds == Spec => []Budget
<1>1. Init => IInv /\ Budget
  <2>1. Init => Budget
    BY MaxBytesAssumption DEF Init, Budget
  <2> QED
    BY <2>1, InitIInv
<1>2. IInv /\ Budget /\ [Next]_vars => IInv' /\ Budget'
  <2> SUFFICES ASSUME IInv, Budget, [Next]_vars PROVE Budget'
    BY NextIInv
  <2>1. ASSUME NEW w \in Workers, LookupReady(w) PROVE Budget'
    BY <2>1, LookupReadyIInv DEF LookupReady, Budget
  <2>2. ASSUME NEW w \in Workers, Publish(w) PROVE Budget'
    BY <2>2, PublishIInv
  <2>3. ASSUME UNCHANGED <<lru, readyBytes>> PROVE Budget'
    BY <2>3 DEF Budget
  <2> QED
    BY <2>1, <2>2, <2>3 DEF Next, Step, Request, LookupPending, LookupAbsent,
       Arm, DownloadEnds, Abandon, vars, cacheVars
<1> QED
  BY <1>1, <1>2, PTL DEF Spec

-----------------------------------------------------------------------------
(* Induction up to n over a set: the library's induction theorem takes a   *)
(* predicate, which this form does without.                                *)
LEMMA UpTo ==
    ASSUME NEW n \in Nat, NEW S, 0 \in S, \A i \in 1 .. n : i - 1 \in S => i \in S
    PROVE  \A i \in 0 .. n : i \in S
<1> DEFINE Bad  == {i \in 0 .. n : i \notin S}
           Less == OpToRel(<, Nat)
<1> SUFFICES ASSUME Bad # {} PROVE FALSE
  OBVIOUS
<1>1. Bad \in SUBSET Nat
  OBVIOUS
<1>2. \E m \in Bad : \A i \in Bad : ~(<<i, m>> \in Less)
  <2> HIDE DEF Bad
  <2> QED
    BY <1>1, WFMin, NatLessThanWellFounded, Zenon
<1>3. \A i, m \in Nat : i < m => <<i, m>> \in Less
  BY DEF OpToRel
<1>4. PICK m \in Bad : \A i \in Bad : ~(i < m)
  <2> HIDE DEF Bad, Less
  <2> QED
    BY <1>1, <1>2, <1>3
<1>5. m \in 1 .. n
  BY SMT
<1>6. m - 1 \in S
  <2>1. m - 1 \in 0 .. n /\ m - 1 < m
    BY <1>5, SMT
  <2> QED
    BY <1>4, <2>1
<1> QED
  BY <1>5, <1>6

(* f[i] is the size of the first i packs of queue q. *)
Sums(q, f) ==
    /\ f \in [0 .. Len(q) -> Int]
    /\ f[0] = 0
    /\ \A i \in 1 .. Len(q) : f[i] = f[i - 1] + Size[q[i]]

(* The recursive function Accounting adds the sizes up with. *)
SumOf(q) ==
    LET sum[i \in 0 .. Len(q)] == IF i = 0 THEN 0 ELSE sum[i - 1] + Size[q[i]]
    IN  sum

(* Every queue has its sums, by induction on the length of a prefix. *)
LEMMA SumsExist ==
    ASSUME NEW q \in Seq(Packs)
    PROVE  \E f : Sums(q, f)
<1> DEFINE Summed(m) ==
               \E f \in [0 .. m -> Int] :
                   f[0] = 0 /\ \A i \in 1 .. m : f[i] = f[i - 1] + Size[q[i]]
           Done == {m \in 0 .. Len(q) : Summed(m)}
<1>1. Len(q) \in Nat /\ \A i \in 1 .. Len(q) : Size[q[i]] \in Int
  BY LenProperties, ElementOfSeq, SizeAssumption
<1>2. 0 \in Done
  <2> DEFINE f == [i \in 0 .. 0 |-> 0]
  <2>1. f \in [0 .. 0 -> Int] /\ f[0] = 0
    OBVIOUS
  <2>2. \A i \in 1 .. 0 : f[i] = f[i - 1] + Size[q[i]]
    BY SMT
  <2> HIDE DEF f
  <2>3. Summed(0)
    BY <2>1, <2>2
  <2> QED
    BY <1>1, <2>3
<1>3. ASSUME NEW m \in 1 .. Len(q), m - 1 \in Done PROVE m \in Done
  <2>1. PICK f \in [0 .. m - 1 -> Int] :
            f[0] = 0 /\ \A i \in 1 .. m - 1 : f[i] = f[i - 1] + Size[q[i]]
    BY <1>3
  <2> DEFINE g == [i \in 0 .. m |-> IF i = m THEN f[m - 1] + Size[q[m]] ELSE f[i]]
  <2>2. m - 1 \in 0 .. m - 1 /\ \A i \in 0 .. m : i # m => i \in 0 .. m - 1
    BY <1>1, SMT
  <2>3. f[m - 1] \in Int /\ Size[q[m]] \in Int
    BY <1>1, <2>2
  <2>4. g \in [0 .. m -> Int]
    BY <2>2, <2>3
  <2>5. g[0] = 0
    BY <1>1, <2>1
  <2>6. ASSUME NEW i \in 1 .. m PROVE g[i] = g[i - 1] + Size[q[i]]
    <3>1. i \in 0 .. m /\ i - 1 \in 0 .. m /\ i - 1 # m
      BY <1>1, SMT
    <3>2. CASE i = m
      BY <3>1, <3>2
    <3>3. CASE i # m
      <4>1. i \in 1 .. m - 1
        BY <1>1, <3>3, SMT
      <4> QED
        BY <2>1, <3>1, <3>3, <4>1
    <3> QED
      BY <3>2, <3>3
  <2> HIDE DEF g
  <2>7. Summed(m)
    BY <2>4, <2>5, <2>6
  <2>8. m \in 0 .. Len(q)
    BY <1>1, SMT
  <2> QED
    BY <2>7, <2>8
<1>4. \A i \in 0 .. Len(q) : i \in Done
  <2> HIDE DEF Done
  <2> QED
    BY <1>1, <1>2, <1>3, UpTo
<1>5. Summed(Len(q))
  <2>1. Len(q) \in Done
    <3> HIDE DEF Done
    <3> QED
      BY <1>1, <1>4
  <2> QED
    BY <2>1
<1> QED
  BY <1>5 DEF Sums

(* What the recursive function computes is the one function of sums. *)
LEMMA SumOfSums ==
    ASSUME NEW q \in Seq(Packs), NEW f, Sums(q, f)
    PROVE  SumOf(q)[Len(q)] = f[Len(q)]
<1> DEFINE s == SumOf(q)
           eq(x) == x = [i \in 0 .. Len(q) |->
                            IF i = 0 THEN 0 ELSE x[i - 1] + Size[q[i]]]
           Same == {i \in 0 .. Len(q) : s[i] = f[i]}
<1>1. Len(q) \in Nat
  BY LenProperties
<1>2. eq(f)
  <2>1. f = [i \in 0 .. Len(q) |-> f[i]]
    BY DEF Sums
  <2>2. \A i \in 0 .. Len(q) :
            f[i] = IF i = 0 THEN 0 ELSE f[i - 1] + Size[q[i]]
    BY <1>1, SMT DEF Sums
  <2> QED
    BY <2>1, <2>2
<1>3. s = CHOOSE x : eq(x)
  BY DEF SumOf
<1>4. eq(s)
  <2> HIDE DEF eq, s
  <2> QED
    BY <1>2, <1>3, Zenon
<1> HIDE DEF s
<1>5. s[0] = 0 /\ \A i \in 1 .. Len(q) : s[i] = s[i - 1] + Size[q[i]]
  BY <1>1, <1>4
<1>6. 0 \in Same
  BY <1>1, <1>5 DEF Sums
<1>7. \A i \in 1 .. Len(q) : i - 1 \in Same => i \in Same
  BY <1>1, <1>5 DEF Sums
<1>8. \A i \in 0 .. Len(q) : i \in Same
  <2> HIDE DEF Same
  <2> QED
    BY <1>1, <1>6, <1>7, UpTo
<1>9. Len(q) \in 0 .. Len(q)
  BY <1>1
<1> QED
  BY <1>8, <1>9 DEF s

(* Sizes are not negative, so no prefix is larger than the whole queue. *)
LEMMA PrefixIsNoLarger ==
    ASSUME NEW q \in Seq(Packs), NEW f, Sums(q, f), NEW i \in 0 .. Len(q)
    PROVE  f[i] <= f[Len(q)]
<1> DEFINE Under == {j \in 0 .. Len(q) : f[Len(q) - j] <= f[Len(q)]}
<1>1. /\ Len(q) \in Nat /\ \A j \in 1 .. Len(q) : Size[q[j]] \in Nat
      /\ \A j \in 0 .. Len(q) : f[j] \in Int
  BY LenProperties, ElementOfSeq, SizeAssumption DEF Sums
<1>2. 0 \in Under
  BY <1>1, SMT
<1>3. ASSUME NEW j \in 1 .. Len(q), j - 1 \in Under PROVE j \in Under
  <2> DEFINE at == Len(q) - (j - 1)
  <2>1. at \in 1 .. Len(q) /\ at - 1 = Len(q) - j /\ j \in 0 .. Len(q)
        /\ at \in 0 .. Len(q) /\ at - 1 \in 0 .. Len(q)
    BY <1>1, SMT
  <2>2. f[at] <= f[Len(q)]
    BY <1>3
  <2> HIDE DEF at
  <2>3. f[at] = f[at - 1] + Size[q[at]]
    BY <2>1 DEF Sums
  <2>4. f[at] \in Int /\ f[at - 1] \in Int /\ Size[q[at]] \in Nat /\ f[Len(q)] \in Int
    BY <1>1, <2>1
  <2>5. f[at - 1] <= f[Len(q)]
    BY <2>2, <2>3, <2>4, SMT
  <2> QED
    BY <2>1, <2>5
<1>4. \A j \in 0 .. Len(q) : j \in Under
  <2> HIDE DEF Under
  <2> QED
    BY <1>1, <1>2, <1>3, UpTo
<1>5. Len(q) - i \in 0 .. Len(q) /\ Len(q) - (Len(q) - i) = i
  BY <1>1, SMT
<1> QED
  BY <1>4, <1>5

(* insert_ready: ready_bytes runs down the sums of the evicted packs, and  *)
(* the subtraction never saturates.                                        *)
LEMMA EvictionFollowsSums ==
    ASSUME NEW q \in Seq(Packs), NEW f, Sums(q, f), readyBytes = f[Len(q)],
           NEW n \in 0 .. Len(q), NEW left \in [0 .. n -> 0 .. readyBytes], NEW size,
           EvictionRun(q, size, n, left)
    PROVE  left[n] = f[Len(q)] - f[n]
<1> DEFINE Fits == {i \in 0 .. n : left[i] = f[Len(q)] - f[i]}
<1>1. /\ Len(q) \in Nat /\ n \in Nat
      /\ \A j \in 1 .. Len(q) : Size[q[j]] \in Nat
      /\ \A j \in 0 .. Len(q) : f[j] \in Int
  <2>1. Len(q) \in Nat
    BY LenProperties
  <2>2. \A j \in 1 .. Len(q) : Size[q[j]] \in Nat
    BY ElementOfSeq, SizeAssumption
  <2>3. \A j \in 0 .. Len(q) : f[j] \in Int
    BY DEF Sums
  <2> QED
    BY <2>1, <2>2, <2>3
<1>2. 0 \in Fits
  BY <1>1, SMT DEF EvictionRun, Sums
<1>3. ASSUME NEW i \in 1 .. n, i - 1 \in Fits PROVE i \in Fits
  <2>1. i \in 1 .. Len(q) /\ i \in 0 .. Len(q) /\ i - 1 \in 0 .. Len(q) /\ i \in 0 .. n
        /\ Len(q) \in 0 .. Len(q)
    BY <1>1, SMT
  <2>2. left[i - 1] = f[Len(q)] - f[i - 1]
    BY <1>3
  <2>3. f[i] = f[i - 1] + Size[q[i]]
    BY <2>1 DEF Sums
  <2>4. f[i] <= f[Len(q)]
    BY <2>1, PrefixIsNoLarger
  <2>5. left[i] = SaturatingSub(left[i - 1], Size[q[i]])
    BY DEF EvictionRun
  <2>6. f[i] \in Int /\ f[i - 1] \in Int /\ f[Len(q)] \in Int /\ Size[q[i]] \in Nat
    BY <1>1, <2>1
  <2>7. left[i] = f[Len(q)] - f[i]
    <3>1. \A l, a \in Int, z \in Nat :
              a + z <= l => SaturatingSub(l - a, z) = l - (a + z)
      BY SMT DEF SaturatingSub
    <3>2. f[i - 1] + Size[q[i]] <= f[Len(q)]
      BY <2>3, <2>4, Zenon
    <3>3. SaturatingSub(f[Len(q)] - f[i - 1], Size[q[i]])
          = f[Len(q)] - (f[i - 1] + Size[q[i]])
      BY <2>6, <3>1, <3>2
    <3> QED
      BY <2>2, <2>3, <2>5, <3>3, Zenon
  <2> QED
    BY <2>1, <2>7
<1>4. \A i \in 0 .. n : i \in Fits
  <2> HIDE DEF Fits
  <2> QED
    BY <1>1, <1>2, <1>3, UpTo
<1>5. n \in 0 .. n
  BY <1>1, SMT
<1> QED
  BY <1>4, <1>5

(* Arithmetic, stated once for the solvers. *)
LEMMA Shift == \A x, y, z \in Int : (x + z) - y = (x - y) + z
BY SMT

(* The sums of the queue that insert_ready leaves behind. *)
LEMMA SumsAfterInsert ==
    ASSUME NEW q \in Seq(Packs), NEW f, Sums(q, f),
           NEW n \in 0 .. Len(q), NEW k \in Packs
    PROVE  LET t == Append(SubSeq(q, n + 1, Len(q)), k) IN
           \E g : Sums(t, g) /\ g[Len(t)] = f[Len(q)] - f[n] + Size[k]
<1> DEFINE rest == SubSeq(q, n + 1, Len(q))
           t    == Append(rest, k)
           L    == Len(q)
           g    == [j \in 0 .. L - n + 1 |-> IF j <= L - n THEN f[n + j] - f[n]
                                             ELSE f[L] - f[n] + Size[k]]
<1>1. /\ L \in Nat /\ n \in Nat /\ n <= L /\ Size[k] \in Nat
      /\ \A j \in 1 .. L : Size[q[j]] \in Nat /\ q[j] \in Packs
      /\ \A j \in 0 .. L : f[j] \in Int
  <2>1. L \in Nat
    BY LenProperties
  <2>2. \A j \in 1 .. L : Size[q[j]] \in Nat /\ q[j] \in Packs
    BY ElementOfSeq, SizeAssumption
  <2>3. \A j \in 0 .. L : f[j] \in Int
    BY DEF Sums
  <2> QED
    BY <2>1, <2>2, <2>3, SizeAssumption
<1>2. /\ rest \in Seq(Packs)
      /\ Len(rest) = L - n
      /\ \A i \in 1 .. L - n : rest[i] = q[n + i]
  <2>1. n + 1 \in Int /\ L \in Int /\ \A i \in n + 1 .. L : q[i] \in Packs
    BY <1>1
  <2>2. /\ rest \in Seq(Packs)
        /\ Len(rest) = IF n + 1 <= L THEN L - (n + 1) + 1 ELSE 0
        /\ \A i \in 1 .. L - (n + 1) + 1 : rest[i] = q[(n + 1) + i - 1]
    BY <2>1, SubSeqProperties
  <2> HIDE DEF rest
  <2> QED
    BY <1>1, <2>2, SMT
<1> HIDE DEF rest
<1>3. /\ Len(t) = L - n + 1
      /\ \A i \in 1 .. L - n : t[i] = q[n + i]
      /\ t[L - n + 1] = k
  <2>1. /\ Len(t) = Len(rest) + 1
        /\ \A i \in 1 .. Len(rest) : t[i] = rest[i]
        /\ t[Len(rest) + 1] = k
    BY <1>2, AppendProperties
  <2> HIDE DEF t
  <2> QED
    BY <1>2, <2>1
<1> HIDE DEF t
<1>4. g \in [0 .. Len(t) -> Int]
  <2>1. \A j \in 0 .. L - n + 1 :
            (IF j <= L - n THEN f[n + j] - f[n] ELSE f[L] - f[n] + Size[k]) \in Int
    BY <1>1, SMT
  <2> QED
    BY <1>3, <2>1
<1>5. g[0] = 0
  BY <1>1, SMT
<1>6. ASSUME NEW i \in 1 .. Len(t) PROVE g[i] = g[i - 1] + Size[t[i]]
  <2>1. i \in 1 .. L - n + 1 /\ i \in 0 .. L - n + 1 /\ i - 1 \in 0 .. L - n + 1
        /\ i - 1 <= L - n
    BY <1>1, <1>3, SMT
  <2>2. g[i - 1] = f[n + (i - 1)] - f[n]
    BY <2>1
  <2>3. CASE i <= L - n
    <3>1. n + i \in 1 .. L /\ (n + i) - 1 = n + (i - 1) /\ n + (i - 1) \in 0 .. L
          /\ n + i \in 0 .. L /\ i \in 1 .. L - n
      BY <1>1, <2>1, <2>3, SMT
    <3>2. f[n + i] = f[n + (i - 1)] + Size[q[n + i]]
      BY <3>1 DEF Sums
    <3>3. g[i] = f[n + i] - f[n] /\ t[i] = q[n + i]
      BY <1>3, <2>1, <2>3, <3>1
    <3>4. f[n + i] \in Int /\ f[n + (i - 1)] \in Int /\ f[n] \in Int /\ Size[q[n + i]] \in Nat
      BY <1>1, <3>1
    <3>5. (f[n + (i - 1)] + Size[q[n + i]]) - f[n]
          = (f[n + (i - 1)] - f[n]) + Size[q[n + i]]
      BY <3>4, Shift
    <3> HIDE DEF g
    <3> QED
      BY <2>2, <3>2, <3>3, <3>5
  <2>4. CASE ~(i <= L - n)
    <3>1. i = L - n + 1 /\ n + (i - 1) = L
      BY <1>1, <2>1, <2>4, SMT
    <3>2. g[i] = f[L] - f[n] + Size[k] /\ t[i] = k
      BY <1>3, <2>1, <2>4, <3>1
    <3>3. f[L] \in Int /\ f[n] \in Int
      BY <1>1
    <3> HIDE DEF g
    <3> QED
      BY <1>1, <2>2, <3>1, <3>2, <3>3, SMT
  <2> QED
    BY <2>3, <2>4
<1>7. g[Len(t)] = f[L] - f[n] + Size[k]
  BY <1>1, <1>3, SMT
<1> HIDE DEF g
<1>8. Sums(t, g)
  BY <1>4, <1>5, <1>6 DEF Sums
<1> QED
  BY <1>7, <1>8 DEF t, rest

(* The sums of the queue that a cache hit leaves behind: k moved to the    *)
(* end, the total unchanged.                                               *)
LEMMA SumsAfterPromotion ==
    ASSUME NEW q \in Seq(Packs), NEW f, Sums(q, f), Injective(q),
           NEW k \in SetOfSeq(q)
    PROVE  LET t == Append(Without(q, k), k) IN
           \E g : Sums(t, g) /\ g[Len(t)] = f[Len(q)]
<1> DEFINE p    == CHOOSE i \in 1 .. Len(q) : q[i] = k
           rest == Without(q, k)
           t    == Append(rest, k)
           L    == Len(q)
           g    == [j \in 0 .. L |-> IF j < p THEN f[j]
                                     ELSE IF j < L THEN f[j + 1] - Size[k]
                                     ELSE f[L]]
<1>1. p \in 1 .. L /\ q[p] = k
  BY DEF SetOfSeq
<1>2. rest \in Seq(Packs) /\ Len(rest) = L - 1
  BY WithoutProperties
<1>3. \A i \in 1 .. L - 1 : rest[i] = IF i < p THEN q[i] ELSE q[i + 1]
  BY DEF Without
<1> HIDE DEF p, rest
<1>4. /\ L \in Nat /\ k \in Packs /\ Size[k] \in Nat
      /\ \A j \in 1 .. L : Size[q[j]] \in Nat
      /\ \A j \in 0 .. L : f[j] \in Int
  BY <1>1, LenProperties, ElementOfSeq, SizeAssumption DEF Sums
<1>5. /\ Len(t) = L
      /\ \A i \in 1 .. L - 1 : t[i] = IF i < p THEN q[i] ELSE q[i + 1]
      /\ t[L] = k
  <2>1. /\ Len(t) = Len(rest) + 1
        /\ \A i \in 1 .. Len(rest) : t[i] = rest[i]
        /\ t[Len(rest) + 1] = k
    BY <1>2, <1>4, AppendProperties
  <2> HIDE DEF t
  <2>2. Len(rest) + 1 = L
    BY <1>2, <1>4, SMT
  <2> QED
    BY <1>2, <1>3, <2>1, <2>2
<1> HIDE DEF t
<1>6. g \in [0 .. Len(t) -> Int]
  <2>1. \A j \in 0 .. L : (IF j < p THEN f[j] ELSE IF j < L THEN f[j + 1] - Size[k]
                           ELSE f[L]) \in Int
    BY <1>1, <1>4, SMT
  <2> QED
    BY <1>5, <2>1
<1>7. g[0] = 0
  BY <1>1, <1>4, SMT DEF Sums
<1>8. ASSUME NEW i \in 1 .. Len(t) PROVE g[i] = g[i - 1] + Size[t[i]]
  <2>1. i \in 1 .. L /\ i \in 0 .. L /\ i - 1 \in 0 .. L /\ i - 1 < L
        /\ (i - 1) + 1 = i
    BY <1>4, <1>5, SMT
  <2>2. f[i] = f[i - 1] + Size[q[i]] /\ f[i] \in Int /\ f[i - 1] \in Int
        /\ Size[q[i]] \in Nat
    BY <1>4, <2>1 DEF Sums
  <2>3. CASE i < p
    <3>1. i - 1 < p /\ i \in 1 .. L - 1
      BY <1>1, <1>4, <2>1, <2>3, SMT
    <3>2. g[i] = f[i] /\ g[i - 1] = f[i - 1] /\ t[i] = q[i]
      BY <1>5, <2>1, <2>3, <3>1
    <3> QED
      BY <2>2, <3>2
  <2>4. CASE ~(i < p) /\ i < L
    <3>1. i + 1 \in 1 .. L /\ i \in 1 .. L - 1 /\ (i + 1) - 1 = i /\ i + 1 \in 0 .. L
      BY <1>4, <2>1, <2>4, SMT
    <3>2. g[i] = f[i + 1] - Size[k] /\ t[i] = q[i + 1]
      BY <1>5, <2>1, <2>4, <3>1
    <3>3. f[i + 1] = f[i] + Size[q[i + 1]] /\ f[i + 1] \in Int /\ Size[q[i + 1]] \in Nat
      BY <1>4, <3>1 DEF Sums
    <3>4. g[i - 1] = f[i] - Size[k]
      <4>1. CASE i = p
        <5>1. g[i - 1] = f[i - 1]
          BY <1>1, <1>4, <2>1, <4>1, SMT
        <5> HIDE DEF g
        <5> QED
          BY <1>1, <1>4, <2>2, <4>1, <5>1, SMT
      <4>2. CASE i # p
        <5>1. ~(i - 1 < p)
          BY <1>1, <1>4, <2>1, <2>4, <4>2, SMT
        <5> QED
          BY <2>1, <5>1
      <4> QED
        BY <4>1, <4>2
    <3>5. (f[i] + Size[q[i + 1]]) - Size[k] = (f[i] - Size[k]) + Size[q[i + 1]]
      <4>1. Size[k] \in Int /\ Size[q[i + 1]] \in Int /\ f[i] \in Int
        BY <1>4, <2>2, <3>3
      <4> QED
        BY <4>1, Shift
    <3> HIDE DEF g
    <3> QED
      BY <3>2, <3>3, <3>4, <3>5
  <2>5. CASE ~(i < p) /\ ~(i < L)
    <3>1. i = L
      BY <1>4, <2>1, <2>5, SMT
    <3>2. g[i] = f[i] /\ t[i] = k
      BY <1>5, <2>1, <2>5, <3>1
    <3>3. g[i - 1] = f[i] - Size[k]
      <4>1. CASE i = p
        <5>1. g[i - 1] = f[i - 1]
          BY <1>1, <1>4, <2>1, <4>1, SMT
        <5> HIDE DEF g
        <5> QED
          BY <1>1, <1>4, <2>2, <4>1, <5>1, SMT
      <4>2. CASE i # p
        <5>1. ~(i - 1 < p)
          BY <1>1, <1>4, <2>1, <2>5, <4>2, SMT
        <5> QED
          BY <2>1, <5>1
      <4> QED
        BY <4>1, <4>2
    <3> HIDE DEF g
    <3> QED
      BY <1>4, <2>2, <3>2, <3>3, SMT
  <2> QED
    BY <2>3, <2>4, <2>5
<1>9. g[Len(t)] = f[L]
  BY <1>1, <1>4, <1>5, SMT
<1> HIDE DEF g
<1>10. Sums(t, g)
  BY <1>5, <1>6, <1>7, <1>8 DEF Sums
<1> QED
  BY <1>9, <1>10 DEF t, rest

(* Accounting, with any sums of the queue in place of the recursion. *)
LEMMA AccountingBySums ==
    ASSUME NEW f, lru \in Seq(Packs), Sums(lru, f)
    PROVE  Accounting <=> readyBytes = f[Len(lru)]
<1>1. Accounting <=> readyBytes = SumOf(lru)[Len(lru)]
  BY Zenon DEF Accounting, SumOf
<1> QED
  BY <1>1, SumOfSums

(* The same of the next state. *)
LEMMA AccountingBySumsNext ==
    ASSUME NEW f, lru' \in Seq(Packs), Sums(lru', f), readyBytes' = f[Len(lru')]
    PROVE  Accounting'
<1>1. Accounting' <=> readyBytes' = SumOf(lru')[Len(lru')]
  BY Zenon DEF Accounting, SumOf
<1>2. SumOf(lru')[Len(lru')] = f[Len(lru')]
  BY SumOfSums
<1> QED
  BY <1>1, <1>2

(* ready_bytes is the size of what the queue names after every sequence of *)
(* insertions, evictions, hits and failures: a counter kept by additions   *)
(* and saturating subtractions never drifts from what it counts.           *)
THEOREM AccountingHolds == Spec => []Accounting
<1>1. Init => IInv /\ Accounting
  <2> SUFFICES ASSUME Init PROVE Accounting
    BY InitIInv
  <2>1. lru \in Seq(Packs) /\ Len(lru) = 0 /\ readyBytes = 0
    BY EmptySeq DEF Init
  <2>2. PICK f : Sums(lru, f)
    BY <2>1, SumsExist
  <2>3. readyBytes = f[Len(lru)]
    BY <2>1, <2>2 DEF Sums
  <2> QED
    BY <2>1, <2>2, <2>3, AccountingBySums
<1>2. IInv /\ Accounting /\ [Next]_vars => IInv' /\ Accounting'
  <2> SUFFICES ASSUME IInv, Accounting, [Next]_vars PROVE Accounting'
    BY NextIInv
  <2>1. lru \in Seq(Packs) /\ Injective(lru) /\ lru' \in Seq(Packs)
    BY NextIInv DEF IInv, TypeOK, LruIsReady, Injective
  <2>2. PICK f : Sums(lru, f)
    BY <2>1, SumsExist
  <2>3. readyBytes = f[Len(lru)]
    BY <2>1, <2>2, AccountingBySums
  <2>4. ASSUME NEW w \in Workers, LookupReady(w) PROVE Accounting'
    <3>1. want[w] \in SetOfSeq(lru)
      BY <2>4 DEF LookupReady, IInv, TypeOK, LruIsReady
    <3>2. lru' = Append(Without(lru, want[w]), want[w]) /\ readyBytes' = readyBytes
      BY <2>4 DEF LookupReady
    <3>3. PICK g : Sums(lru', g) /\ g[Len(lru')] = f[Len(lru)]
      BY <2>1, <2>2, <3>1, <3>2, SumsAfterPromotion
    <3> QED
      BY <2>1, <2>3, <3>2, <3>3, AccountingBySumsNext
  <2>5. ASSUME NEW w \in Workers, Publish(w) PROVE Accounting'
    <3>1. want[w] \in Packs
      BY DEF IInv, TypeOK
    <3>2. PICK n \in 0 .. Len(lru) : \E left \in [0 .. n -> 0 .. readyBytes] :
            /\ EvictionRun(lru, Size[want[w]], n, left)
            /\ readyBytes' = left[n] + Size[want[w]]
            /\ lru' = Append(SubSeq(lru, n + 1, Len(lru)), want[w])
      BY <2>5 DEF Publish, InsertReady
    <3>3. PICK left \in [0 .. n -> 0 .. readyBytes] :
            /\ EvictionRun(lru, Size[want[w]], n, left)
            /\ readyBytes' = left[n] + Size[want[w]]
      BY <3>2
    <3>4. left[n] = f[Len(lru)] - f[n]
      BY <2>1, <2>2, <2>3, <3>3, EvictionFollowsSums
    <3>5. lru' = Append(SubSeq(lru, n + 1, Len(lru)), want[w])
      BY <3>2
    <3>6. PICK g : Sums(lru', g) /\ g[Len(lru')] = f[Len(lru)] - f[n] + Size[want[w]]
      <4>1. PICK q \in Seq(Packs) : q = lru
        BY <2>1
      <4>2. PICK k \in Packs : k = want[w]
        BY <3>1
      <4>3. Sums(q, f) /\ n \in 0 .. Len(q)
        BY <2>2, <4>1
      <4>4. PICK t : t = Append(SubSeq(q, n + 1, Len(q)), k)
        OBVIOUS
      <4>5. \E g : Sums(t, g) /\ g[Len(t)] = f[Len(q)] - f[n] + Size[k]
        BY <4>3, <4>4, SumsAfterInsert
      <4>6. t = lru'
        BY <3>5, <4>1, <4>2, <4>4
      <4> QED
        BY <4>1, <4>2, <4>5, <4>6
    <3> QED
      BY <2>1, <3>3, <3>4, <3>6, AccountingBySumsNext
  <2>6. ASSUME UNCHANGED <<lru, readyBytes>> PROVE Accounting'
    <3>1. Sums(lru', f) /\ readyBytes' = f[Len(lru')]
      BY <2>2, <2>3, <2>6
    <3> QED
      BY <2>1, <3>1, AccountingBySumsNext
  <2> QED
    BY <2>4, <2>5, <2>6 DEF Next, Step, Request, LookupPending, LookupAbsent,
       Arm, DownloadEnds, Abandon, vars, cacheVars
<1> QED
  BY <1>1, <1>2, PTL DEF Spec

-----------------------------------------------------------------------------
(* The refinement mapping, named so that a step can be stated about it. *)
cachedPacks == {k \in Packs : slot[k] = "ready"}
fetchingOf  == [w \in Workers |-> IF pc[w] \in Owning THEN want[w] ELSE NoPack]

(* A cache miss starts a fetch of a pack that nobody fetches. *)
LEMMA LookupAbsentStarts ==
    ASSUME IInv, NEW w \in Workers, LookupAbsent(w)
    PROVE  Fetch!Start(w, want[w])
<1>1. pc[w] \notin Owning /\ slot[want[w]] = "absent" /\ want[w] \in Packs
  BY DEF LookupAbsent, Owning, IInv, TypeOK
<1>2. fetchingOf[w] = NoPack /\ want[w] \notin cachedPacks
  BY <1>1 DEF fetchingOf, cachedPacks
<1>3. \A v \in Workers : fetchingOf[v] # want[w]
  BY <1>1, NoneAssumption DEF fetchingOf, IInv, SingleFlight
<1>4. cachedPacks' = cachedPacks
  BY <1>1 DEF cachedPacks, LookupAbsent, IInv, TypeOK
<1>5. fetchingOf' = [fetchingOf EXCEPT ![w] = want[w]]
  BY <1>1 DEF fetchingOf, LookupAbsent, IInv, TypeOK, Owning
<1> QED
  BY <1>2, <1>3, <1>4, <1>5 DEF Fetch!Start, cachedPacks, fetchingOf

(* A publication finishes the fetch and evicts some of the cached packs. *)
LEMMA PublishFinishes ==
    ASSUME IInv, NEW w \in Workers, Publish(w)
    PROVE  Fetch!Finish(w)
<1>1. pc[w] \in Owning /\ want[w] \in Packs /\ slot[want[w]] = "pending"
  BY DEF Publish, Owning, IInv, TypeOK, SingleFlight
<1>2. /\ slot' \in [Packs -> SlotStates]
      /\ slot'[want[w]] = "ready"
      /\ \A j \in Packs \ {want[w]} : slot'[j] = "ready" => slot[j] = "ready"
  BY <1>1, InsertReadyProperties DEF Publish
<1>3. fetchingOf[w] = want[w] /\ want[w] # NoPack
  BY <1>1, NoneAssumption DEF fetchingOf
<1>4. \E kept \in SUBSET cachedPacks : cachedPacks' = kept \cup {want[w]}
  <2> DEFINE kept == {j \in Packs \ {want[w]} : slot'[j] = "ready"}
  <2>1. kept \in SUBSET cachedPacks
    BY <1>2 DEF cachedPacks
  <2>2. cachedPacks' = kept \cup {want[w]}
    BY <1>1, <1>2 DEF cachedPacks
  <2> QED
    BY <2>1, <2>2
<1>5. fetchingOf' = [fetchingOf EXCEPT ![w] = NoPack]
  <2>1. /\ pc'[w] = "idle"
        /\ \A v \in Workers : v # w => (pc'[v] \in Owning <=> pc[v] \in Owning)
    BY <1>1, NotifyKeepsOwners DEF Publish, IInv
  <2> QED
    BY <1>1, <2>1 DEF fetchingOf, Publish, Owning
<1> QED
  BY <1>3, <1>4, <1>5 DEF Fetch!Finish, cachedPacks, fetchingOf

(* A failed download ends the fetch and leaves the cached packs alone. *)
LEMMA AbandonFails ==
    ASSUME IInv, NEW w \in Workers, Abandon(w)
    PROVE  Fetch!Fail(w)
<1>1. pc[w] \in Owning /\ want[w] \in Packs /\ slot[want[w]] = "pending"
  BY DEF Abandon, Owning, IInv, TypeOK, SingleFlight
<1>2. fetchingOf[w] = want[w] /\ want[w] # NoPack
  BY <1>1, NoneAssumption DEF fetchingOf
<1>3. cachedPacks' = cachedPacks
  BY <1>1 DEF cachedPacks, Abandon, IInv, TypeOK
<1>4. fetchingOf' = [fetchingOf EXCEPT ![w] = NoPack]
  <2>1. /\ pc'[w] = "idle"
        /\ \A v \in Workers : v # w => (pc'[v] \in Owning <=> pc[v] \in Owning)
    BY <1>1, NotifyKeepsOwners DEF Abandon, IInv
  <2> QED
    BY <1>1, <2>1 DEF fetchingOf, Abandon, Owning
<1> QED
  BY <1>2, <1>3, <1>4 DEF Fetch!Fail, cachedPacks, fetchingOf

(* Everything else is invisible to a caller of the abstract cache. *)
LEMMA OtherStepsStutter ==
    ASSUME IInv,
           \/ \E w \in Workers : \/ Request(w) \/ LookupReady(w)
                                 \/ LookupPending(w) \/ Arm(w) \/ DownloadEnds(w)
           \/ UNCHANGED vars
    PROVE  UNCHANGED Fetch!vars
<1>1. cachedPacks' = cachedPacks
  BY DEF cachedPacks, Request, LookupReady, LookupPending, Arm, DownloadEnds,
         vars, cacheVars
<1>2. fetchingOf' = fetchingOf
  BY DEF fetchingOf, Request, LookupReady, LookupPending, Arm, DownloadEnds,
         vars, cacheVars, workerVars, Owning, IInv, TypeOK
<1> QED
  BY <1>1, <1>2 DEF Fetch!vars, cachedPacks, fetchingOf

(* get_or_download_pack with its lock, Notify objects and eviction order   *)
(* implements the cache that downloads each pack at most once at a time.   *)
THEOREM CacheImplementsPackFetch == Spec => ImplementsPackFetch
<1>1. Init => Fetch!Init
  BY DEF Init, Fetch!Init, Owning
<1>2. IInv /\ [Next]_vars => [Fetch!Next]_(Fetch!vars)
  <2> SUFFICES ASSUME IInv, [Next]_vars PROVE Fetch!Next \/ UNCHANGED Fetch!vars
    OBVIOUS
  <2>1. ASSUME NEW w \in Workers, LookupAbsent(w) PROVE Fetch!Next
    <3>1. Fetch!Start(w, want[w]) /\ want[w] \in Packs
      BY <2>1, LookupAbsentStarts DEF IInv, TypeOK
    <3> QED
      BY <3>1 DEF Fetch!Next, Fetch!Start
  <2>2. ASSUME NEW w \in Workers, Publish(w) PROVE Fetch!Next
    BY <2>2, PublishFinishes DEF Fetch!Next
  <2>3. ASSUME NEW w \in Workers, Abandon(w) PROVE Fetch!Next
    BY <2>3, AbandonFails DEF Fetch!Next
  <2> QED
    BY <2>1, <2>2, <2>3, OtherStepsStutter DEF Next, Step
<1> QED
  BY InitIInv, NextIInv, <1>1, <1>2, PTL DEF Spec, ImplementsPackFetch, Fetch!Spec
=============================================================================
