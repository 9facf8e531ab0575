--------------------------- MODULE TreeSelectionProofs ---------------------------
(***************************************************************************)
(* What one click does to the rules, and that the tree, the size shown and *)
(* the engine agree on what they take, for every tree and every pair of    *)
(* rule sets.  All of it rests on one fact: two rules that cover the same  *)
(* path lie one under the other, so the longer is the deeper.              *)
(***************************************************************************)
EXTENDS TreeSelection, TLAPS, WellFoundedInduction

Paths == Seq(STRING) \ {<<>>}

(* What lies under a path under a rule lies under the rule. *)
LEMMA UnderIsTransitive ==
    ASSUME NEW p \in Paths, NEW q \in Paths, NEW r \in Paths,
           IsAtOrUnder(p, q), IsAtOrUnder(q, r)
    PROVE  IsAtOrUnder(p, r)
BY SMT DEF Paths, IsAtOrUnder, IsPathInside

(* Two rules that cover one path lie one under the other. *)
LEMMA CoversAreNested ==
    ASSUME NEW p \in Paths, NEW q \in Paths, NEW r \in Paths,
           IsAtOrUnder(p, q), IsAtOrUnder(p, r), ~IsAtOrUnder(r, q)
    PROVE  IsAtOrUnder(q, r) /\ Len(r) < Len(q)
<1>1. Len(q) <= Len(p) /\ \A i \in 1 .. Len(q) : p[i] = q[i]
  BY SMT DEF Paths, IsAtOrUnder, IsPathInside
<1>2. Len(r) <= Len(p) /\ \A i \in 1 .. Len(r) : p[i] = r[i]
  BY SMT DEF Paths, IsAtOrUnder, IsPathInside
<1>3. CASE Len(r) < Len(q)
  BY <1>1, <1>2, <1>3, SMT DEF Paths, IsAtOrUnder, IsPathInside
<1>4. CASE Len(r) = Len(q)
  <2>1. \A i \in 1 .. Len(q) : r[i] = q[i]
    BY <1>1, <1>2, <1>4, SMT DEF Paths
  <2>2. r = q
    BY <2>1, <1>4, SMT DEF Paths
  <2> QED
    BY <2>2 DEF IsAtOrUnder
<1>5. CASE Len(q) < Len(r)
  BY <1>1, <1>2, <1>5, SMT DEF Paths, IsAtOrUnder, IsPathInside
<1> QED
  BY <1>3, <1>4, <1>5, SMT DEF Paths

(* Dropping the rules at or beneath a path leaves those that cover         *)
(* anything outside it, and for what is under it those that cover the path *)
(* from above.                                                             *)
LEMMA KeptOutside ==
    ASSUME NEW P \in Paths, NEW p \in Paths, NEW rules \in SUBSET Paths, ~IsAtOrUnder(p, P)
    PROVE  Covering(p, WithoutDescendants(rules, P)) = Covering(p, rules)
BY UnderIsTransitive DEF Covering, WithoutDescendants

(* What is kept covers all of the subtree alike, and lies above it. *)
LEMMA KeptInside ==
    ASSUME NEW P \in Paths, NEW p \in Paths, NEW rules \in SUBSET Paths, IsAtOrUnder(p, P)
    PROVE  /\ Covering(p, WithoutDescendants(rules, P)) = Covering(P, WithoutDescendants(rules, P))
           /\ \A r \in Covering(P, WithoutDescendants(rules, P)) : Len(r) < Len(P)
<1> DEFINE kept == WithoutDescendants(rules, P)
<1>1. \A r \in kept : r \in Paths /\ ~IsAtOrUnder(r, P)
  BY DEF WithoutDescendants
<1>2. \A r \in kept : IsAtOrUnder(p, r) => IsAtOrUnder(P, r) /\ Len(r) < Len(P)
  BY <1>1, CoversAreNested
<1>3. \A r \in kept : IsAtOrUnder(P, r) => IsAtOrUnder(p, r)
  BY <1>1, UnderIsTransitive
<1> HIDE DEF kept
<1>4. Covering(p, kept) = Covering(P, kept)
  BY <1>2, <1>3 DEF Covering
<1>5. \A r \in Covering(P, kept) : Len(r) < Len(P)
  BY <1>2, <1>4 DEF Covering
<1> QED
  BY <1>4, <1>5 DEF kept

(* Rules are looked for one by one. *)
LEMMA CoveringOfUnion ==
    ASSUME NEW p, NEW A, NEW B
    PROVE  Covering(p, A \cup B) = Covering(p, A) \cup Covering(p, B)
BY DEF Covering

LEMMA CoveringOfOne ==
    ASSUME NEW p, NEW P
    PROVE  Covering(p, {P}) = IF IsAtOrUnder(p, P) THEN {P} ELSE {}
BY DEF Covering

(* toggleRule: what lies at or under the path gets the opposite of what    *)
(* the path was, and nothing else changes.                                 *)
THEOREM ToggleTurnsTheSubtree ==
    ASSUME NEW P \in Paths, NEW p \in Paths, NEW sel \in SUBSET Paths, NEW exc \in SUBSET Paths
    PROVE  LET next == ToggleRule(P, sel, exc)
           IN  Included(p, next.sel, next.exc) =
                  IF IsAtOrUnder(p, P) THEN ~Included(P, sel, exc) ELSE Included(p, sel, exc)
<1> DEFINE kept == WithoutDescendants(sel, P)
           out  == WithoutDescendants(exc, P)
           want == ~Included(P, sel, exc)
           rule == IF want = Included(P, kept, out) THEN {} ELSE {P}
           next == ToggleRule(P, sel, exc)
<1>0. /\ next.sel = IF want THEN kept \cup rule ELSE kept
      /\ next.exc = IF want THEN out ELSE out \cup rule
  BY DEF ToggleRule
<1>1. kept \in SUBSET Paths /\ out \in SUBSET Paths /\ rule \in SUBSET {P}
  BY DEF WithoutDescendants
<1>2. CASE ~IsAtOrUnder(p, P)
  <2>1. Covering(p, rule) = {}
    BY <1>2 DEF Covering
  <2>2. Covering(p, kept) = Covering(p, sel) /\ Covering(p, out) = Covering(p, exc)
    BY <1>2, KeptOutside
  <2> HIDE DEF kept, out, want, rule, next
  <2>3. Covering(p, next.sel) = Covering(p, sel) /\ Covering(p, next.exc) = Covering(p, exc)
    <3>1. Covering(p, kept \cup rule) = Covering(p, sel) /\ Covering(p, out \cup rule) = Covering(p, exc)
      <4>1. Covering(p, kept \cup rule) = Covering(p, kept) \cup Covering(p, rule)
        BY CoveringOfUnion
      <4>2. Covering(p, out \cup rule) = Covering(p, out) \cup Covering(p, rule)
        BY CoveringOfUnion
      <4> QED
        BY <4>1, <4>2, <2>1, <2>2
    <3> QED
      BY <3>1, <2>2, <1>0
  <2>4. Included(p, next.sel, next.exc) = Included(p, sel, exc)
    BY <2>3, Zenon DEF Included
  <2> QED
    BY <2>4, <1>2 DEF next
<1>3. CASE IsAtOrUnder(p, P)
  <2>1. /\ Covering(p, kept) = Covering(P, kept)
        /\ \A s \in Covering(P, kept) : Len(s) < Len(P)
        /\ Covering(p, out) = Covering(P, out)
        /\ \A e \in Covering(P, out) : Len(e) < Len(P)
    BY <1>3, KeptInside
  <2>2. Included(p, kept, out) = Included(P, kept, out)
    BY <2>1, Zenon DEF Included
  <2>3. want \in BOOLEAN /\ Included(P, kept, out) \in BOOLEAN
    BY DEF Included
  <2>4. Covering(p, {P}) = {P}
    BY <1>3, CoveringOfOne
  <2>l. Len(P) \in Nat /\ ~(Len(P) < Len(P))
    BY SMT DEF Paths
  <2>s. \A s \in Covering(P, kept) : ~(Len(P) < Len(s))
    <3>1. \A s \in Covering(P, kept) : Len(s) \in Nat
      BY <1>1, SMT DEF Covering, Paths
    <3> HIDE DEF kept
    <3> QED
      BY <3>1, <2>1, <2>l, SMT
  <2> HIDE DEF kept, out, want, next
  <2>5. CASE want = Included(P, kept, out)
    <3>1. next.sel = kept /\ next.exc = out
      BY <1>0, <2>5, SMT
    <3> QED
      BY <3>1, <2>2, <2>5, <1>3, Zenon DEF next, want
  <2>6. CASE want # Included(P, kept, out) /\ want
    <3>1. next.sel = kept \cup {P} /\ next.exc = out
      BY <1>0, <2>6, SMT
    <3>2. P \in Covering(p, next.sel) /\ Covering(p, next.exc) = Covering(P, out)
      BY <3>1, <2>1, <2>4, CoveringOfUnion
    <3>3. Included(p, next.sel, next.exc)
      BY <3>2, <2>1, Zenon DEF Included
    <3> QED
      BY <3>3, <2>6, <1>3, Zenon DEF next, want
  <2>7. CASE want # Included(P, kept, out) /\ ~want
    <3>1. next.sel = kept /\ next.exc = out \cup {P}
      BY <1>0, <2>7, SMT
    <3>2. P \in Covering(p, next.exc) /\ Covering(p, next.sel) = Covering(P, kept)
      BY <3>1, <2>1, <2>4, CoveringOfUnion
    <3>3. ~Included(p, next.sel, next.exc)
      BY <3>2, <2>s, Zenon DEF Included
    <3> QED
      <4>1. Included(P, sel, exc)
        BY <2>7 DEF want
      <4> QED
        BY <4>1, <3>3, <1>3 DEF next, Included
  <2> QED
    BY <2>3, <2>5, <2>6, <2>7
<1> QED
  BY <1>2, <1>3

-----------------------------------------------------------------------------
(* The engine looks for the longest rule of each kind. *)
LEMMA MaxOfBounded ==
    ASSUME NEW n \in Nat, NEW S \in SUBSET (0 .. n), S # {}
    PROVE  Max(S) \in S /\ \A y \in S : y <= Max(S)
<1> DEFINE Below == {n - y : y \in S}
           Less  == OpToRel(<, Nat)
<1>0. \A y \in S : y \in Nat /\ n - y \in Nat
  BY SMT
<1>1. Below \in SUBSET Nat /\ Below # {}
  BY <1>0, Zenon
<1>2. \E x \in Below : \A y \in Below : ~(<<y, x>> \in Less)
  <2> HIDE DEF Below
  <2> QED
    BY <1>1, WFMin, NatLessThanWellFounded, Zenon
<1>3. \A x, y \in Nat : x < y => <<x, y>> \in Less
  BY DEF OpToRel
<1>4. PICK x \in Below : \A y \in Below : ~(y < x)
  <2> HIDE DEF Below, Less
  <2> QED
    BY <1>1, <1>2, <1>3
<1>5. PICK m \in S : x = n - m
  OBVIOUS
<1>6. \A y \in S : m >= y
  <2> SUFFICES ASSUME NEW y \in S PROVE m >= y
    OBVIOUS
  <2>1. n - y \in Below
    OBVIOUS
  <2>2. ~(n - y < n - m)
    BY <1>4, <1>5, <2>1
  <2>3. y \in 0 .. n /\ m \in 0 .. n
    OBVIOUS
  <2> HIDE DEF Below
  <2> QED
    BY <2>2, <2>3
<1> HIDE DEF Below, Less
<1>7. Max(S) \in S /\ \A y \in S : Max(S) >= y
  BY <1>6, Zenon DEF Max
<1>8. S \in SUBSET Nat
  OBVIOUS
<1> QED
  BY <1>7, <1>8

(* A rule that covers a path is not empty and no longer than the path. *)
LEMMA CoverIsNoLonger ==
    ASSUME NEW p \in Paths, NEW rules \in SUBSET Paths, NEW r \in Covering(p, rules)
    PROVE  r \in Paths /\ Len(r) \in 1 .. Len(p)
<1>1. r \in Paths /\ IsAtOrUnder(p, r)
  BY DEF Covering
<1>2. Len(r) <= Len(p)
  BY <1>1, SMT DEF IsAtOrUnder, IsPathInside, Paths
<1>3. Len(r) \in Nat /\ Len(r) # 0
  BY <1>1, SMT DEF Paths
<1> QED
  BY <1>1, <1>2, <1>3, SMT DEF Paths

(* Best is 0 without a rule, and else the length of the longest. *)
LEMMA BestIsTheDeepest ==
    ASSUME NEW p \in Paths, NEW rules \in SUBSET Paths
    PROVE  /\ Best(p, rules) \in Nat
           /\ \A r \in Covering(p, rules) : Len(r) <= Best(p, rules)
           /\ Best(p, rules) # 0 => \E r \in Covering(p, rules) : Len(r) = Best(p, rules)
<1>1. CASE Covering(p, rules) = {}
  BY <1>1, SMT DEF Best
<1>2. CASE Covering(p, rules) # {}
  <2> DEFINE lens == {Len(r) : r \in Covering(p, rules)}
  <2>1. lens \in SUBSET (0 .. Len(p)) /\ lens # {} /\ Len(p) \in Nat
    <3>1. \A r \in Covering(p, rules) : Len(r) \in 1 .. Len(p)
      BY CoverIsNoLonger
    <3>2. Len(p) \in Nat
      BY SMT DEF Paths
    <3>3. \A r \in Covering(p, rules) : Len(r) \in 0 .. Len(p)
      BY <3>1, <3>2, SMT
    <3> QED
      BY <1>2, <3>2, <3>3, Zenon
  <2>2. Best(p, rules) = Max(lens)
    BY <1>2 DEF Best
  <2>3. Max(lens) \in lens /\ \A y \in lens : y <= Max(lens)
    <3> HIDE DEF lens
    <3> QED
      BY <2>1, MaxOfBounded
  <2>4. Max(lens) \in Nat
    <3> HIDE DEF lens
    <3> QED
      <4>1. Max(lens) \in 0 .. Len(p)
        BY <2>1, <2>3
      <4> QED
        BY <4>1, <2>1, SMT
  <2> QED
    BY <2>2, <2>3, <2>4
<1> QED
  BY <1>1, <1>2

(* The tree and path_selected "must match case for case": with a selection *)
(* they do, ties and exclusions under selections under exclusions          *)
(* included.  Without one the engine takes everything, the tree nothing;   *)
(* the window starts no restore then.                                      *)
THEOREM EngineAgreesWithTheTree ==
    ASSUME NEW p \in Paths, NEW sel \in SUBSET Paths, NEW exc \in SUBSET Paths, sel # {}
    PROVE  PathSelected(p, sel, exc) <=> Included(p, sel, exc)
<1> DEFINE chosen == Best(p, sel)
           ruled  == Best(p, exc)
<1>1. /\ chosen \in Nat /\ \A s \in Covering(p, sel) : Len(s) <= chosen
      /\ chosen # 0 => \E s \in Covering(p, sel) : Len(s) = chosen
  BY BestIsTheDeepest
<1>2. /\ ruled \in Nat /\ \A e \in Covering(p, exc) : Len(e) <= ruled
      /\ ruled # 0 => \E e \in Covering(p, exc) : Len(e) = ruled
  BY BestIsTheDeepest
<1>3. /\ \A s \in Covering(p, sel) : Len(s) \in Nat /\ Len(s) > 0
      /\ \A e \in Covering(p, exc) : Len(e) \in Nat /\ Len(e) > 0
  BY CoverIsNoLonger, SMT
<1>4. PathSelected(p, sel, exc) <=> chosen > ruled
  BY <1>1, <1>2, SMT DEF PathSelected
<1> HIDE DEF chosen, ruled
<1>5. ASSUME chosen > ruled PROVE Included(p, sel, exc)
  <2>1. PICK s \in Covering(p, sel) : Len(s) = chosen
    BY <1>1, <1>2, <1>5, SMT
  <2>2. \A e \in Covering(p, exc) : Len(e) < Len(s)
    BY <1>1, <1>2, <1>3, <1>5, <2>1, SMT
  <2> QED
    BY <2>1, <2>2 DEF Included
<1>6. ASSUME Included(p, sel, exc) PROVE chosen > ruled
  <2>1. PICK s \in Covering(p, sel) : \A e \in Covering(p, exc) : Len(e) < Len(s)
    BY <1>6 DEF Included
  <2>2. Len(s) <= chosen /\ Len(s) > 0 /\ Len(s) \in Nat
    BY <1>1, <1>3
  <2>3. CASE ruled = 0
    BY <1>1, <2>2, <2>3, SMT
  <2>4. CASE ruled # 0
    <3>1. PICK e \in Covering(p, exc) : Len(e) = ruled
      BY <1>2, <2>4
    <3>2. Len(e) < Len(s)
      BY <2>1
    <3> QED
      BY <1>1, <1>2, <2>2, <3>1, <3>2, SMT
  <2> QED
    BY <2>3, <2>4
<1> QED
  BY <1>4, <1>5, <1>6

-----------------------------------------------------------------------------
(* The check box of a row, against the files below it. *)

(* What is included at a path is included below it, down to the next       *)
(* exclusion.                                                              *)
LEMMA IncludedBelow ==
    ASSUME NEW p \in Paths, NEW P \in Paths, NEW sel \in SUBSET Paths, NEW exc \in SUBSET Paths,
           IsAtOrUnder(p, P), Included(P, sel, exc),
           p = P \/ ~HasDescendantIn(P, exc)
    PROVE  Included(p, sel, exc)
<1>1. CASE p = P
  BY <1>1
<1>2. CASE ~HasDescendantIn(P, exc)
  <2>1. PICK s \in Covering(P, sel) : \A e \in Covering(P, exc) : Len(e) < Len(s)
    BY DEF Included
  <2>2. s \in Covering(p, sel)
    BY <2>1, UnderIsTransitive DEF Covering
  <2>3. ASSUME NEW e \in Covering(p, exc) PROVE e \in Covering(P, exc)
    <3>1. e \in exc /\ e \in Paths /\ IsAtOrUnder(p, e)
      BY DEF Covering
    <3>2. IsAtOrUnder(P, e) \/ IsAtOrUnder(e, P)
      BY <3>1, CoversAreNested
    <3>3. IsAtOrUnder(e, P) => e = P
      BY <1>2, <3>1 DEF IsAtOrUnder, HasDescendantIn
    <3> QED
      BY <3>1, <3>2, <3>3 DEF Covering, IsAtOrUnder
  <2> QED
    BY <2>1, <2>2, <2>3 DEF Included
<1> QED
  BY <1>1, <1>2

(* What is ruled out at a path is ruled out below it, down to the next     *)
(* selection.                                                              *)
LEMMA RuledOutBelow ==
    ASSUME NEW p \in Paths, NEW P \in Paths, NEW sel \in SUBSET Paths, NEW exc \in SUBSET Paths,
           IsAtOrUnder(p, P), ~Included(P, sel, exc),
           p = P \/ ~HasDescendantIn(P, sel)
    PROVE  ~Included(p, sel, exc)
<1>1. CASE p = P
  BY <1>1
<1>2. CASE ~HasDescendantIn(P, sel)
  <2> SUFFICES ASSUME Included(p, sel, exc) PROVE FALSE
    OBVIOUS
  <2>1. PICK s \in Covering(p, sel) : \A e \in Covering(p, exc) : Len(e) < Len(s)
    BY DEF Included
  <2>2. s \in Covering(P, sel)
    <3>1. s \in sel /\ s \in Paths /\ IsAtOrUnder(p, s)
      BY DEF Covering
    <3>2. IsAtOrUnder(P, s) \/ IsAtOrUnder(s, P)
      BY <3>1, CoversAreNested
    <3>3. IsAtOrUnder(s, P) => s = P
      BY <1>2, <3>1 DEF IsAtOrUnder, HasDescendantIn
    <3> QED
      BY <3>1, <3>2, <3>3 DEF Covering, IsAtOrUnder
  <2>3. \A e \in Covering(P, exc) : e \in Covering(p, exc)
    BY UnderIsTransitive DEF Covering
  <2> QED
    BY <2>1, <2>2, <2>3 DEF Included
<1> QED
  BY <1>1, <1>2

(* A file's own row has nothing below it, so it is never half taken; a     *)
(* folder's full row hides no exclusion, and its empty row no selection.   *)
LEMMA RowTellsTheFiles ==
    ASSUME NEW rows, NEW r \in rows, NEW x \in rows,
           NEW sel \in SUBSET Paths, NEW exc \in SUBSET Paths,
           r.path \in Paths, x.path \in Paths, r.dir \in BOOLEAN,
           IsPathInside(x.path, r.path) => r.dir, IsAtOrUnder(x.path, r.path)
    PROVE  LET state == StateFor(r, sel, exc, {y.path : y \in rows})
           IN  /\ state = "full" => Included(x.path, sel, exc)
               /\ state = "none" => ~Included(x.path, sel, exc)
               /\ state = "partial" => r.dir
<1> DEFINE all   == {y.path : y \in rows}
           below == {p \in all : IsAtOrUnder(p, r.path)}
           taken == {p \in below : Included(p, sel, exc)}
           state == StateFor(r, sel, exc, all)
<1>1. ~r.dir => x.path = r.path
  BY DEF IsAtOrUnder
<1>2. x.path \in below /\ (x.path \in taken <=> Included(x.path, sel, exc))
  OBVIOUS
<1> HIDE DEF all, below, taken
<1>3. CASE Included(r.path, sel, exc)
  <2>1. state = IF r.dir /\ HasDescendantIn(r.path, exc) THEN "partial" ELSE "full"
    BY <1>3, Zenon DEF StateFor, RuledOut
  <2>2. state = "full" => Included(x.path, sel, exc)
    BY <1>1, <1>3, <2>1, IncludedBelow
  <2> QED
    BY <2>1, <2>2 DEF all
<1>4. CASE RuledOut(r.path, sel, exc)
  <2>1. ~Included(r.path, sel, exc)
    BY <1>4 DEF RuledOut
  <2>2. state = IF r.dir /\ HasDescendantIn(r.path, sel) THEN "partial" ELSE "none"
    BY <1>4, <2>1, Zenon DEF StateFor
  <2>3. state = "none" => ~Included(x.path, sel, exc)
    BY <1>1, <2>1, <2>2, RuledOutBelow
  <2> QED
    BY <2>2, <2>3 DEF all
<1>5. CASE ~Included(r.path, sel, exc) /\ ~RuledOut(r.path, sel, exc)
  <2>1. state = IF ~r.dir \/ taken = {} THEN "none" ELSE IF taken = below THEN "full" ELSE "partial"
    BY <1>5, Zenon DEF StateFor, taken, below
  <2>2. state = "full" => x.path \in taken
    BY <1>2, <2>1
  <2>3. state = "none" => ~Included(x.path, sel, exc)
    BY <1>1, <1>2, <1>5, <2>1
  <2> QED
    BY <1>2, <2>1, <2>2, <2>3 DEF all
<1> QED
  BY <1>3, <1>4, <1>5

(* The size counts no file that is left out, and misses none unless a      *)
(* selection lies under an exclusion.                                      *)
LEMMA PreviewIsOfTheFiles ==
    ASSUME NEW p \in Paths, NEW sel \in SUBSET Paths, NEW exc \in SUBSET Paths,
           \A s \in sel : ~IsPathInside(s, p)
    PROVE  LET counted == PathMatchesAny(p, sel, TRUE) /\ ~PathMatchesAny(p, exc, FALSE)
           IN  /\ counted => Included(p, sel, exc)
               /\ (\A s \in sel : Covering(s, exc) = {}) /\ Included(p, sel, exc) => counted
<1>1. PathMatchesAny(p, sel, TRUE) <=> Covering(p, sel) # {}
  BY DEF PathMatchesAny, Covering
<1>2. PathMatchesAny(p, exc, FALSE) <=> Covering(p, exc) # {}
  BY DEF PathMatchesAny, Covering
<1>3. Covering(p, sel) # {} /\ Covering(p, exc) = {} => Included(p, sel, exc)
  BY DEF Included
<1>4. ASSUME \A s \in sel : Covering(s, exc) = {}, Included(p, sel, exc)
      PROVE  Covering(p, sel) # {} /\ Covering(p, exc) = {}
  <2>1. PICK s \in Covering(p, sel) : \A e \in Covering(p, exc) : Len(e) < Len(s)
    BY <1>4 DEF Included
  <2>2. ASSUME NEW e \in Covering(p, exc) PROVE FALSE
    <3>1. /\ e \in exc /\ e \in Paths /\ IsAtOrUnder(p, e)
          /\ s \in sel /\ s \in Paths /\ IsAtOrUnder(p, s)
      BY DEF Covering
    <3>2. ~IsAtOrUnder(s, e)
      BY <1>4, <3>1 DEF Covering
    <3>3. Len(s) < Len(e) /\ Len(e) < Len(s)
      BY <2>1, <3>1, <3>2, CoversAreNested
    <3>4. Len(s) \in Nat /\ Len(e) \in Nat
      BY <3>1, SMT DEF Paths
    <3> QED
      BY <3>3, <3>4, SMT
  <2> QED
    BY <2>1, <2>2
<1> QED
  BY <1>1, <1>2, <1>3, <1>4
=============================================================================
