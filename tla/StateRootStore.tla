--------------------------- MODULE StateRootStore ---------------------------
(***************************************************************************)
(* The state root Module of pkg/core/stateroot/store.go: the roots kept    *)
(* per block index (local ones computed from the MPT, validated ones       *)
(* received from the network with the state validators' witness), the      *)
(* local height and the validated height.  A root is a model value; the    *)
(* store key of index i is i (makeStateRootKey is injective on indexes).   *)
(***************************************************************************)
EXTENDS Integers, TLC

CONSTANTS
    Roots,      \* root hashes
    MaxHeight,  \* blocks processed in one behaviour
    None

VARIABLES
    stored,           \* index -> [root, witness]: the stateroot keys
    auxValidated,     \* the value under the prefixValidated key, or None
    validatedHeight,  \* s.validatedHeight
    localHeight,      \* s.localHeight
    computed,         \* index -> the root the node's own state has there
    jumped            \* JumpToState has run (state sync runs once)

vars == <<stored, auxValidated, validatedHeight, localHeight, computed, jumped>>

Indexes == 0 .. MaxHeight

\* Roots a peer may send: any index, any root, with or without a witness,
\* and whether the verifier accepts the witness.
NetRoots == [index : Indexes, root : Roots, witness : BOOLEAN, sigOK : BOOLEAN]

\* r.Index - 1 in uint32 arithmetic.  At 0 it wraps to 2^32 - 1, past
\* TLC's integers; -1 stands for it: no root is ever stored there.
Prev(i) == IF i = 0 THEN -1 ELSE i - 1

Put(f, i, v) == [j \in DOMAIN f \cup {i} |-> IF j = i THEN v ELSE f[j]]

\* addLocalStateRoot / putStateRoot.
AddLocalStateRoot(f, sr) == Put(f, sr.index, [root |-> sr.root, witness |-> sr.witness])

\* VerifyStateRoot: the previous root must be stored, the witness present
\* and accepted by the verifier.
VerifyStateRoot(sr) == Prev(sr.index) \in DOMAIN stored /\ sr.witness /\ sr.sigOK

-----------------------------------------------------------------------------

\* The genesis block's root is stored by AddMPTBatch(0) and Init(0).
Init ==
    /\ \E r \in Roots :
          /\ stored = (0 :> [root |-> r, witness |-> FALSE])
          /\ computed = (0 :> r)
    /\ auxValidated = None
    /\ validatedHeight = 0
    /\ localHeight = 0
    /\ jumped = FALSE

UpdateCurrentLocal_OffByOne(i) == localHeight' = i + 1

\* UpdateCurrentLocal: the current local root and height.
UpdateCurrentLocal(i) == localHeight' = i

\* A block is persisted: AddMPTBatch computes the next root and stores it
\* without a witness, the cache is persisted and UpdateCurrentLocal runs.
ProcessBlock ==
    /\ localHeight < MaxHeight
    /\ \E r \in Roots :
          LET i == localHeight + 1 IN
          /\ stored' = AddLocalStateRoot(stored, [index |-> i, root |-> r, witness |-> FALSE])
          /\ computed' = Put(computed, i, r)
          /\ UpdateCurrentLocal(i)
    /\ UNCHANGED <<auxValidated, validatedHeight, jumped>>

\* The early returns of AddStateRoot, as the code has them: the root must
\* verify, a local root must be stored at its index, the two must differ
\* and the local one must already carry a witness.
AddStateRootOK(sr) ==
    /\ VerifyStateRoot(sr)
    /\ sr.index \in DOMAIN stored
    /\ stored[sr.index].root # sr.root
    /\ stored[sr.index].witness

\* What AddStateRoot writes when it gets past its early returns.
AddStateRootPut(sr) ==
    /\ stored' = Put(stored, sr.index, [root |-> sr.root, witness |-> TRUE])
    /\ auxValidated' = sr.index
    /\ validatedHeight' = sr.index

\* AddStateRoot of a root received from the network.
AddStateRoot(sr) ==
    /\ AddStateRootOK(sr)
    /\ AddStateRootPut(sr)
    /\ UNCHANGED <<localHeight, computed, jumped>>

JumpToState_NoLocal(sr) ==
    /\ ~jumped /\ sr.witness /\ sr.sigOK
    /\ stored' = AddLocalStateRoot(stored, sr)
    /\ auxValidated' = sr.index
    /\ validatedHeight' = sr.index
    /\ computed' = Put(computed, sr.index, sr.root)
    /\ jumped' = TRUE
    /\ UNCHANGED localHeight

JumpToState_NoAux(sr) ==
    /\ ~jumped /\ sr.witness /\ sr.sigOK
    /\ stored' = AddLocalStateRoot(stored, sr)
    /\ auxValidated' = auxValidated
    /\ validatedHeight' = sr.index
    /\ UpdateCurrentLocal(sr.index)
    /\ computed' = Put(computed, sr.index, sr.root)
    /\ jumped' = TRUE

\* JumpToState: state sync adopts a validated root.
JumpToState(sr) ==
    /\ ~jumped /\ sr.witness /\ sr.sigOK
    /\ stored' = AddLocalStateRoot(stored, sr)
    /\ auxValidated' = sr.index
    /\ validatedHeight' = sr.index
    /\ UpdateCurrentLocal(sr.index)
    /\ computed' = Put(computed, sr.index, sr.root)
    /\ jumped' = TRUE

\* Module.Init(h) of a Module just made by NewModule, when the node
\* restarts at chain height h: the validated height is read back from the
\* prefixValidated item (a new Module's atomics are zero without it), and
\* above height 0 the local height is the index of the root stored at h;
\* a missing root there fails the start.
ModuleInit(h) ==
    /\ h = 0 \/ h \in DOMAIN stored
    /\ validatedHeight' = IF auxValidated = None THEN 0 ELSE auxValidated
    /\ localHeight' = h

\* The last block of the behaviour has been processed.
Terminated == localHeight = MaxHeight /\ UNCHANGED vars

Next ==
    \/ ProcessBlock
    \/ \E sr \in NetRoots : AddStateRoot(sr)
    \/ \E sr \in NetRoots : JumpToState(sr)
    \/ Terminated


Spec == Init /\ [][Next]_vars

-----------------------------------------------------------------------------

TypeOK ==
    /\ DOMAIN stored \subseteq Indexes
    /\ \A i \in DOMAIN stored : stored[i] \in [root : Roots, witness : BOOLEAN]
    /\ localHeight \in DOMAIN stored
    /\ validatedHeight \in Indexes
    /\ auxValidated \in Indexes \cup {None}

\* The validated height is never ahead of the local one: AddStateRoot only
\* validates an index whose local root is stored, and JumpToState moves
\* both heights together.
ValidatedNotAhead == validatedHeight <= localHeight
=============================================================================
