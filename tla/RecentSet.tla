----------------------------- MODULE RecentSet -----------------------------
(***************************************************************************)
(* What the consensus relay cache promises: a set of at most Cap items in  *)
(* which an item, once added, stays until Cap newer items have been added  *)
(* after it, and adding an item already held changes nothing.  The state   *)
(* is the age of each held item: how many items were added after it.      *)
(***************************************************************************)
EXTENDS Naturals

CONSTANTS Items, Cap

VARIABLE ages

Init == ages = [x \in {} |-> 0]

\* Adding a new item ages every held one and forgets those that reach Cap.
Add(p) ==
    IF p \in DOMAIN ages
    THEN UNCHANGED ages
    ELSE ages' = [x \in {y \in DOMAIN ages : ages[y] + 1 < Cap} \cup {p} |->
                      IF x = p THEN 0 ELSE ages[x] + 1]

Next == \E p \in Items : Add(p)

Spec == Init /\ [][Next]_ages

\* Held items have distinct ages below Cap, so at most Cap are held.
RecentSetOK ==
    /\ DOMAIN ages \subseteq Items
    /\ \A x \in DOMAIN ages : ages[x] \in 0 .. Cap - 1
    /\ \A x, y \in DOMAIN ages : x # y => ages[x] # ages[y]
=============================================================================
