-------------------------- MODULE StateRootService --------------------------
(***************************************************************************)
(* The state validation service of one state validator                    *)
(* (pkg/services/stateroot/network.go and its run loop), composed with the *)
(* state root store it validates roots into.  For every block the service  *)
(* signs the local root, keeps an incomplete root per height with the      *)
(* signatures collected from the other validators' votes, relays its own   *)
(* vote with retries, and, once enough signatures are in, stores the       *)
(* validated root through the store's AddStateRoot and relays it.          *)
(*                                                                         *)
(* incompleteRoot's methods are not in the tree.  The model takes from     *)
(* their use here what they must do: addSignature records a signature,     *)
(* verified when the root is known; reverify checks the unverified ones    *)
(* against the root; finalize succeeds with M verified signatures; and     *)
(* isSenderNow, whose choice of the sender is not known, may answer either *)
(* way for a root not yet sent.                                            *)
(***************************************************************************)
EXTENDS StateRootStore, FiniteSets, Sequences

CONSTANTS
    Validators,      \* the state validators' indexes, svList
    Me,              \* this node's index
    MaxRetries,      \* s.maxRetries
    VoteValidEndInc, \* voteValidEndInc, scaled down with the heights
    MaxRestarts      \* node restarts in one behaviour

ASSUME Me \in Validators /\ Validators \subseteq Nat

VARIABLES
    headerHeight,    \* the chain's header height
    blockCh,         \* indexes of persisted blocks not yet taken by run()
    incompleteRoots, \* height -> [root, sigs, isSent, retries, timer]
    votes,           \* votes of other validators accepted by the network
    sent,            \* the validated roots sendValidatedRoot relayed
    restarts         \* node restarts so far

storeVars   == <<stored, auxValidated, validatedHeight, localHeight, computed, jumped>>
serviceVars == <<headerHeight, blockCh, incompleteRoots, votes, sent, restarts>>
allVars     == <<storeVars, serviceVars>>

\* The honest node count of the validator list (GetDefaultHonestNodeCount).
M == Cardinality(Validators) - (Cardinality(Validators) - 1) \div 3

\* A vote: the sender's index, the height and the root it signed.
Votes == [index : Validators \ {Me}, height : 1 .. MaxHeight, signed : Roots]

-----------------------------------------------------------------------------

\* getIncompleteRoot: the entry of the height, or a new empty one.
GetIncompleteRoot(irs, h) ==
    IF h \in DOMAIN irs THEN irs[h]
    ELSE [root |-> None, sigs |-> [v \in {} |-> None], isSent |-> FALSE,
          retries |-> 0, timer |-> FALSE]

AddSig_AlwaysOk(ir, v, signed) ==
    [ir EXCEPT !.sigs = (v :> [signed |-> signed, ok |-> TRUE]) @@ @]

\* addSignature: a signature is verified when it is added to a known root.
AddSig(ir, v, signed) ==
    [ir EXCEPT !.sigs = (v :> [signed |-> signed, ok |-> ir.root # None]) @@ @]

\* reverify: the signatures added before the root are checked against it.
Reverify(ir) ==
    [ir EXCEPT !.sigs = [v \in DOMAIN ir.sigs |->
                            [signed |-> ir.sigs[v].signed,
                             ok     |-> ir.sigs[v].ok \/ ir.sigs[v].signed = ir.root]]]

\* finalize: the first M verified signatures of the list, if there are M.
OkSigners(ir) == {v \in DOMAIN ir.sigs : ir.sigs[v].ok}

Finalized(ir) ==
    CHOOSE S \in SUBSET OkSigners(ir) :
        Cardinality(S) = M /\ \A x \in S, y \in OkSigners(ir) \ S : x < y

\* finalize succeeds for a root not yet sent with M verified signatures.
Ready(ir) == ir.root # None /\ ~ir.isSent /\ Cardinality(OkSigners(ir)) >= M

\* The validated root finalize builds for height h.
ValidatedRoot(ir, h) == [index |-> h, root |-> ir.root, witness |-> TRUE, sigOK |-> TRUE]

\* trySendRoot, called with the entry of h locked, when isSenderNow gave
\* senderNow: if finalize succeeds, the store's AddStateRoot (its error is
\* only logged), sendValidatedRoot and isSent.  Returns the entry.
TrySendRoot(ir, h, senderNow) ==
    LET fire == senderNow /\ Ready(ir)
        sr   == ValidatedRoot(ir, h)
    IN  /\ IF fire /\ AddStateRootOK(sr) THEN AddStateRootPut(sr)
           ELSE UNCHANGED <<stored, auxValidated, validatedHeight>>
        /\ sent' = IF fire
                   THEN sent \cup {[index |-> h, root |-> ir.root,
                                    sigs |-> [v \in Finalized(ir) |-> ir.sigs[v].signed]]}
                   ELSE sent

AfterTrySend(ir, senderNow) ==
    IF senderNow /\ Ready(ir) THEN [ir EXCEPT !.isSent = TRUE] ELSE ir

SendVote_NoRetry(ir, h) ==
    IF ir.isSent \/ ir.retries >= MaxRetries \/ headerHeight >= h + VoteValidEndInc
    THEN [ir EXCEPT !.timer = FALSE]
    ELSE [ir EXCEPT !.timer = TRUE]

\* sendVote: the vote is relayed and its resend scheduled unless the root
\* was sent, the retries are used up or the vote has expired.
SendVote(ir, h) ==
    IF ir.isSent \/ ir.retries >= MaxRetries \/ headerHeight >= h + VoteValidEndInc
    THEN [ir EXCEPT !.timer = FALSE]
    ELSE [ir EXCEPT !.timer = TRUE, !.retries = @ + 1]

\* The run loop drops the entry VoteValidEndInc blocks back; below that the
\* uint32 subtraction wraps to a height that has no entry.
DropOld(irs, b) ==
    IF b >= VoteValidEndInc
    THEN [x \in DOMAIN irs \ {b - VoteValidEndInc} |-> irs[x]]
    ELSE irs

-----------------------------------------------------------------------------

InitService ==
    /\ headerHeight = 0
    /\ blockCh = <<>>
    /\ incompleteRoots = [h \in {} |-> None]
    /\ votes = {}
    /\ sent = {}
    /\ restarts = 0

InitAll == Init /\ InitService

\* A header arrives ahead of its block.
NewHeader ==
    /\ headerHeight < MaxHeight
    /\ headerHeight' = headerHeight + 1
    /\ UNCHANGED <<storeVars, blockCh, incompleteRoots, votes, sent, restarts>>

\* The chain persists the next block (the store's ProcessBlock) and the
\* block subscription delivers it to blockCh.
PersistBlock ==
    /\ localHeight < headerHeight
    /\ ProcessBlock
    /\ blockCh' = Append(blockCh, localHeight + 1)
    /\ UNCHANGED <<headerHeight, incompleteRoots, votes, sent, restarts>>

\* signAndSend of the local root of b: the entry gets the root and this
\* node's signature, the others are reverified, trySendRoot runs, and the
\* own vote is sent with the retries reset.  Returns the entry.
SignAndSend(b) ==
    LET ir0 == GetIncompleteRoot(incompleteRoots, b)
        ir1 == Reverify(AddSig([ir0 EXCEPT !.root = stored[b].root], Me, stored[b].root))
    IN  \E senderNow \in BOOLEAN :
          /\ TrySendRoot(ir1, b, senderNow)
          /\ LET ir2 == SendVote([AfterTrySend(ir1, senderNow) EXCEPT !.retries = -1], b)
             IN  incompleteRoots' = DropOld((b :> ir2) @@ incompleteRoots, b)

\* One iteration of run() for a block b: GetStateRoot(b), signAndSend,
\* and the entry of b - VoteValidEndInc is deleted (in DropOld, applied in
\* SignAndSend).  GetStateRoot of a persisted block finds its local root,
\* so its error path is not taken.
OnBlock ==
    /\ blockCh # <<>>
    /\ blockCh' = Tail(blockCh)
    /\ SignAndSend(Head(blockCh))
    /\ UNCHANGED <<localHeight, computed, jumped, headerHeight, votes, restarts>>

\* The network accepts another validator's vote while its payload is
\* valid: from its height to VoteValidEndInc blocks later.
ReceiveVote ==
    /\ \E vt \in Votes :
          /\ vt.height <= localHeight + 1
          /\ localHeight < vt.height + VoteValidEndInc
          /\ vt \notin votes
          /\ votes' = votes \cup {vt}
    /\ UNCHANGED <<storeVars, headerHeight, blockCh, incompleteRoots, sent, restarts>>

\* AddSignature for an accepted vote: the entry is found or created, a
\* signature over another root than a known one is refused, otherwise it
\* is added and trySendRoot runs.
AddSignature(vt) ==
    LET h  == vt.height
        ir == GetIncompleteRoot(incompleteRoots, h)
    IN  /\ votes' = votes \ {vt}
        /\ IF ir.root # None /\ vt.signed # ir.root
           THEN /\ incompleteRoots' = (h :> ir) @@ incompleteRoots
                /\ UNCHANGED <<stored, auxValidated, validatedHeight, sent>>
           ELSE \E senderNow \in BOOLEAN :
                  LET ir1 == AddSig(ir, vt.index, vt.signed) IN
                  /\ TrySendRoot(ir1, h, senderNow)
                  /\ incompleteRoots' = (h :> AfterTrySend(ir1, senderNow)) @@ incompleteRoots
        /\ UNCHANGED <<localHeight, computed, jumped, headerHeight, blockCh, restarts>>

\* The resend timer of an entry fires: sendVote under the entry's lock.
VoteTimer(h) ==
    /\ h \in DOMAIN incompleteRoots
    /\ incompleteRoots[h].timer
    /\ incompleteRoots' = [incompleteRoots EXCEPT ![h] = SendVote(@, h)]
    /\ UNCHANGED <<storeVars, headerHeight, blockCh, votes, sent, restarts>>

\* Roots from the network, as in the store alone, and the state jump of
\* state sync, which moves the chain forward to a root of a header it
\* already has, over blocks it never processed.
StoreStep ==
    /\ \E sr \in NetRoots :
          \/ AddStateRoot(sr)
          \/ localHeight < sr.index /\ sr.index <= headerHeight /\ JumpToState(sr)
    /\ UNCHANGED serviceVars

\* The node crashes and starts again, after the chain has persisted its
\* store: the service's memory (incomplete roots, blocks not yet taken
\* from blockCh, accepted votes, armed timers) is lost, and NewModule and
\* Module.Init rebuild the store's heights at the chain's height from
\* what it persisted.  Headers and the relayed roots stay where they are.
Restart ==
    /\ restarts < MaxRestarts
    /\ restarts' = restarts + 1
    /\ ModuleInit(localHeight)
    /\ blockCh' = <<>>
    /\ incompleteRoots' = [h \in {} |-> None]
    /\ votes' = {}
    /\ UNCHANGED <<stored, auxValidated, computed, jumped, headerHeight, sent>>

\* Every block and vote has been handled and no timer is pending.
Done ==
    /\ localHeight = MaxHeight /\ blockCh = <<>> /\ votes = {}
    /\ \A h \in DOMAIN incompleteRoots : ~incompleteRoots[h].timer
    /\ UNCHANGED allVars

NextAll ==
    \/ NewHeader \/ PersistBlock \/ OnBlock \/ ReceiveVote
    \/ \E vt \in votes : AddSignature(vt)
    \/ \E h \in 1 .. MaxHeight : VoteTimer(h)
    \/ StoreStep
    \/ Restart
    \/ Done

SpecAll == InitAll /\ [][NextAll]_allVars

\* The run goroutine keeps taking blocks from blockCh, the network's
\* handler goroutine keeps handling accepted votes, and a timer armed by
\* time.AfterFunc fires.  Headers, blocks, votes and network roots come
\* from the rest of the node and may stop at any time.
Fairness ==
    /\ WF_allVars(OnBlock)
    /\ WF_allVars(\E vt \in votes : AddSignature(vt))
    /\ \A h \in 1 .. MaxHeight : WF_allVars(VoteTimer(h))

FairSpec == SpecAll /\ Fairness

-----------------------------------------------------------------------------

ServiceTypeOK ==
    /\ TypeOK
    /\ headerHeight \in Indexes /\ localHeight <= headerHeight
    /\ \A h \in DOMAIN incompleteRoots :
          /\ h \in 1 .. MaxHeight
          /\ incompleteRoots[h].retries \in -1 .. MaxRetries

\* A validated root the service relays carries M signatures, each over
\* that very root: a signature that arrived before the local root was
\* known is counted only after reverify has checked it.
SentRootsSigned ==
    \A s \in sent :
        /\ Cardinality(DOMAIN s.sigs) = M
        /\ \A v \in DOMAIN s.sigs : s.sigs[v] = s.root

\* The resends of the own vote end: sendVote rearms its AfterFunc timer
\* only while the root is unsent, the retries are below maxRetries and the
\* vote is still valid, and every resend uses up a retry, so once the
\* blocks stop coming every entry's timer eventually stays disarmed
\* (also for a vote that stays valid because no new header arrives).
VoteResendsStop ==
    <>[](\A h \in DOMAIN incompleteRoots : ~incompleteRoots[h].timer)

\* A restart loses none of the store's heights: every write of the
\* validated height (AddStateRoot, JumpToState) also puts it under the
\* prefixValidated key that Module.Init reads back, and the local height
\* is rebuilt from the root stored at the chain's height.
RestartKeepsHeights ==
    [][Restart => /\ validatedHeight' = validatedHeight
                  /\ localHeight' = localHeight]_allVars

\* A root this node validated with its peers' signatures and relayed is
\* the validated root of its own store: the validated height reaches it.
OwnRootValidated ==
    \A s \in sent : validatedHeight >= s.index
=============================================================================
