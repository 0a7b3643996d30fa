----------------------------- MODULE RefCounter -----------------------------
(***************************************************************************)
(* The VM's reference counter (pkg/vm/ref_counter.go) with the per-item   *)
(* counts of compound stack items (stackitem.rc, unnamed/part_006).  The   *)
(* VM calls Add for every item it pushes on a stack and Remove for every  *)
(* item it pops; the counter's size is the number of item references the  *)
(* VM holds, and it is what the VM's stack size limit is checked against. *)
(*                                                                         *)
(* The items form a fixed heap: a compound item (Array, Struct or Map) has *)
(* the sequence of the items it holds (for a Map, its values; the keys are *)
(* primitive and not counted).  The instructions that change a compound's *)
(* contents are not in the tree, so the heap does not change here.         *)
(***************************************************************************)
EXTENDS Integers, FiniteSets, Sequences, Bags, TLC

LOCAL SX == INSTANCE SequencesExt
LOCAL FX == INSTANCE FiniteSetsExt
LOCAL BX == INSTANCE BagsExt

CONSTANTS
    Items,      \* the stack items, model values
    Compound,   \* the Array, Struct and Map items among them
    Children,   \* Children[c]: the items compound c holds, in order
    MaxStack    \* the number of items the stacks hold at most

ASSUME Compound \subseteq Items
ASSUME Children \in [Compound -> Seq(Items)]

VARIABLES
    size,       \* refCounter.size
    rc,         \* compound item -> its rc.count
    estack      \* the bag of items on the VM's stacks

vars == <<size, rc, estack>>

-----------------------------------------------------------------------------

AddRef(st, i)    == [st EXCEPT !.rc[i] = @ + 1]

RemoveRef(st, i) == [st EXCEPT !.rc[i] = @ - 1]

RECURSIVE Add_NoShortCut(_, _)
Add_NoShortCut(st, i) ==
    LET st1 == [st EXCEPT !.size = @ + 1] IN
    IF i \notin Compound THEN st1
    ELSE SX!FoldLeft(Add_NoShortCut, AddRef(st1, i), Children[i])

\* Add: one more reference; a compound item referenced for the first time
\* adds its elements in turn, one already referenced stops there.
RECURSIVE Add(_, _)
Add(st, i) ==
    LET st1 == [st EXCEPT !.size = @ + 1] IN
    IF i \notin Compound THEN st1
    ELSE LET st2 == AddRef(st1, i) IN
         IF st2.rc[i] > 1 THEN st2
         ELSE SX!FoldLeft(Add, st2, Children[i])

\* Remove: one reference less; a compound item that loses its last
\* reference removes its elements in turn.
RECURSIVE Remove(_, _)
Remove(st, i) ==
    LET st1 == [st EXCEPT !.size = @ - 1] IN
    IF i \notin Compound THEN st1
    ELSE LET st2 == RemoveRef(st1, i) IN
         IF st2.rc[i] > 0 THEN st2
         ELSE SX!FoldLeft(Remove, st2, Children[i])

Counters == [size |-> size, rc |-> rc]

-----------------------------------------------------------------------------

\* newRefCounter, and items whose counts start at zero.
Init ==
    /\ size = 0
    /\ rc = [c \in Compound |-> 0]
    /\ estack = EmptyBag

\* The VM pushes an item: Add.
Push(i) ==
    /\ BagCardinality(estack) < MaxStack
    /\ estack' = BX!BagAdd(estack, i)
    /\ LET st == Add(Counters, i) IN size' = st.size /\ rc' = st.rc

\* The VM pops an item it holds: Remove.
Pop(i) ==
    /\ BagIn(i, estack)
    /\ estack' = BX!BagRemove(estack, i)
    /\ LET st == Remove(Counters, i) IN size' = st.size /\ rc' = st.rc

Next == \E i \in Items : Push(i) \/ Pop(i)

Spec == Init /\ [][Next]_vars

-----------------------------------------------------------------------------
(* The reference definition: the references the VM holds are the stack    *)
(* slots and the element slots of every compound item reachable from the  *)
(* stacks.                                                                 *)

Elems(c) == {Children[c][k] : k \in DOMAIN Children[c]}

RECURSIVE Closure(_)
Closure(S) ==
    LET T == S \cup UNION {Elems(c) : c \in S \cap Compound}
    IN  IF T = S THEN S ELSE Closure(T)

Reachable == Closure(BagToSet(estack)) \cap Compound

Occurrences(i, s) == Cardinality({k \in DOMAIN s : s[k] = i})

ExpectedSize ==
    BagCardinality(estack) + FX!MapThenSumSet(LAMBDA c : Len(Children[c]), Reachable)

ExpectedRC(c) ==
    CopiesIn(c, estack) + FX!MapThenSumSet(LAMBDA p : Occurrences(c, Children[p]), Reachable)

\* After any sequence of pushes and pops of a heap with shared items, the
\* counter's size is the number of references the stacks and the reachable
\* compound items hold, and every compound's rc.count is the number of
\* those references to it: Add's and Remove's early returns on a count
\* above one or zero keep a shared item's elements from being counted twice
\* or released while still referenced.
RefCountExact ==
    /\ size = ExpectedSize
    /\ \A c \in Compound : rc[c] = ExpectedRC(c)
=============================================================================
