----------------------------- MODULE RelayCache -----------------------------
(***************************************************************************)
(* relayCache of pkg/consensus/cache.go: a FIFO of payloads (queue) with   *)
(* an index by hash (elems) and the capacity maxCap.  Add runs under the   *)
(* write lock and is one action; Has and Get only read under the read lock *)
(* and are operators.  A payload is a model value standing for its hash.   *)
(***************************************************************************)
EXTENDS Naturals, Sequences

LOCAL SX == INSTANCE SequencesExt

CONSTANTS Payloads, maxCap, None

ASSUME maxCap \in Nat \ {0}

VARIABLES
    queue,  \* the list, front first
    elems   \* the hashes that have an element in the map

vars == <<queue, elems>>

\* newFIFOCache
Init ==
    /\ queue = <<>>
    /\ elems = {}

EvictWhen_Over(q) == Len(q) > maxCap

\* The capacity test of Add.
EvictWhen(q) == Len(q) >= maxCap

Unindex_Keep(e, q) == e

\* The front's hash is deleted from the map.
Unindex(e, q) == e \ {Head(q)}

\* Add: a payload already indexed is ignored; at capacity the front is
\* removed from the list and the map before the new one is pushed back.
Add(p) ==
    IF p \in elems
    THEN UNCHANGED vars
    ELSE LET evict == EvictWhen(queue)
         IN  /\ queue' = Append(IF evict THEN Tail(queue) ELSE queue, p)
             /\ elems' = (IF evict THEN Unindex(elems, queue) ELSE elems) \cup {p}

Next == \E p \in Payloads : Add(p)

Spec == Init /\ [][Next]_vars

\* Has and Get read the map only.
Has(h) == h \in elems

Get(h) == IF h \in elems THEN h ELSE None

-----------------------------------------------------------------------------
(* Properties.                                                             *)

TypeOK ==
    /\ queue \in Seq(Payloads)
    /\ Len(queue) <= maxCap
    /\ elems \subseteq Payloads

\* The refinement mapping: the age of a payload is the number of payloads
\* behind it in the queue.  A hash in the map whose element is not in the
\* queue gets the age Cap, which RecentSet never allows.
Position(h) == CHOOSE i \in 1 .. Len(queue) : queue[i] = h

AgeOf(h) ==
    IF h \in SX!ToSet(queue) THEN Len(queue) - Position(h) ELSE maxCap

RS == INSTANCE RecentSet WITH
        Items <- Payloads, Cap <- maxCap,
        ages <- [h \in elems |-> AgeOf(h)]

\* Has answers as a set of the maxCap most recently added distinct
\* payloads would: Add keeps the map and the FIFO in step and evicts only
\* the oldest payload, and only when the queue is full.
RefinesRecentSet == RS!Spec

=============================================================================
