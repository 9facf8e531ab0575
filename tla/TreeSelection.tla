----------------------------- MODULE TreeSelection -----------------------------
(***************************************************************************)
(* Which files of a snapshot a pair of rule sets takes, in the three       *)
(* places that decide it: the tree of the window                           *)
(* (ui/src/lib/treeSelection.ts), the engine (crates/bkp-restore/src/      *)
(* lib.rs, path_selected) and the size shown before a restore              *)
(* (ui/src/views/Browse.svelte, pathMatchesAny).                           *)
(*                                                                         *)
(* A path is the sequence of its components, without a leading separator.  *)
(* The code compares strings segment by segment, takes either separator    *)
(* and measures a rule by its string length: among rules that cover one    *)
(* path, the longer string is the one with more components.                *)
(***************************************************************************)
EXTENDS Naturals, Sequences, FiniteSets, FiniteSetsExt

IsPathInside(child, parent) ==
    /\ Len(parent) < Len(child)
    /\ \A i \in DOMAIN parent : child[i] = parent[i]

(* at_or_under and norm_rule of the engine come to the same. *)
IsAtOrUnder(path, rule) == path = rule \/ IsPathInside(path, rule)

Covering(path, rules) == {r \in rules : IsAtOrUnder(path, r)}

(* ruleFor(...)?.include === true: a selection deeper than any exclusion. *)
Included(path, sel, exc) ==
    \E s \in Covering(path, sel) : \A e \in Covering(path, exc) : Len(e) < Len(s)

RuledOut(path, sel, exc) ==
    Covering(path, sel \cup exc) # {} /\ ~Included(path, sel, exc)

HasDescendantIn(path, paths) == \E p \in paths : IsPathInside(p, path)

(* Mutant: a folder with a rule of its own does not look below itself. *)
StateForRuleOnly(row, sel, exc, all) ==
    LET below == {p \in all : IsAtOrUnder(p, row.path)}
        taken == {p \in below : Included(p, sel, exc)}
    IN  CASE Included(row.path, sel, exc) -> "full"
          [] RuledOut(row.path, sel, exc) -> "none"
          [] OTHER -> IF taken = {} THEN "none" ELSE IF taken = below THEN "full" ELSE "partial"

(* The check box of a row. A directory without a rule of its own asks what *)
(* lies below it, itself among them.                                       *)
StateFor(row, sel, exc, all) ==
    LET below == {p \in all : IsAtOrUnder(p, row.path)}
        taken == {p \in below : Included(p, sel, exc)}
    IN  CASE Included(row.path, sel, exc) ->
                 IF row.dir /\ HasDescendantIn(row.path, exc) THEN "partial" ELSE "full"
          [] RuledOut(row.path, sel, exc) ->
                 IF row.dir /\ HasDescendantIn(row.path, sel) THEN "partial" ELSE "none"
          [] OTHER ->
                 IF ~row.dir \/ taken = {} THEN "none"
                 ELSE IF taken = below THEN "full" ELSE "partial"

WithoutDescendants(rules, path) == {r \in rules : ~IsAtOrUnder(r, path)}

(* Mutant: the rules beneath the toggled path are left in place. *)
ToggleRuleKeepsBelow(path, sel, exc) ==
    LET kept == sel \ {path}
        out  == exc \ {path}
        want == ~Included(path, sel, exc)
        rule == IF want = Included(path, kept, out) THEN {} ELSE {path}
    IN  [sel |-> IF want THEN kept \cup rule ELSE kept, exc |-> IF want THEN out ELSE out \cup rule]

(* One click: every rule at or beneath the path goes, and a rule for it is *)
(* added only if what it inherits is not what is wanted.                   *)
ToggleRule(path, sel, exc) ==
    LET kept == WithoutDescendants(sel, path)
        out  == WithoutDescendants(exc, path)
        want == ~Included(path, sel, exc)
        rule == IF want = Included(path, kept, out) THEN {} ELSE {path}
    IN  [sel |-> IF want THEN kept \cup rule ELSE kept, exc |-> IF want THEN out ELSE out \cup rule]

-----------------------------------------------------------------------------
(* How deep the deepest rule covering a path is, 0 when there is none. *)
Best(path, rules) ==
    IF Covering(path, rules) = {} THEN 0 ELSE Max({Len(r) : r \in Covering(path, rules)})

(* What the engine restores: on a tie the exclusion wins, and without any  *)
(* rule an empty selection stands for everything.                          *)
PathSelected(path, filter, excluded) ==
    LET chosen == Best(path, filter)
        ruled  == Best(path, excluded)
    IN  IF chosen = 0 /\ ruled = 0 THEN filter = {} ELSE chosen > ruled

(* pathMatchesAny: any pattern at or above the path, or, with              *)
(* allowParentDir, below it.                                               *)
PathMatchesAny(path, patterns, allowParentDir) ==
    \E p \in patterns : IsAtOrUnder(path, p) \/ (allowParentDir /\ IsPathInside(p, path))

(* selectedPreview: an exclusion anywhere above vetoes a file. *)
Previewed(rows, sel, exc) ==
    {r.path : r \in {x \in rows : /\ ~x.dir
                                  /\ PathMatchesAny(x.path, sel, TRUE)
                                  /\ ~PathMatchesAny(x.path, exc, FALSE)}}

(* pickSnapshot selects every entry that lies under no other. *)
Roots(rows) == {r.path : r \in {x \in rows : \A y \in rows : ~IsPathInside(x.path, y.path)}}
=============================================================================
