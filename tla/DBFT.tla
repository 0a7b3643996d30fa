-------------------------------- MODULE DBFT --------------------------------
(***************************************************************************)
(* The dBFT consensus engine of pkg/dbft: the entry points Start,          *)
(* OnTransaction, OnTimeout and OnReceive of dbft.go with the handlers     *)
(* they call (onPrepareRequest, onPrepareResponse, onCommit, onChangeView, *)
(* onRecoveryRequest, onRecoveryMessage, checkPrepare, checkCommit,        *)
(* checkChangeView).                                                       *)
(*                                                                         *)
(* Every validator runs one engine.  The engine's Context is a record      *)
(* ctx[n]; each handler is an operator from a Context to a Context, so a   *)
(* handler that calls another (checkPrepare -> sendCommit -> checkCommit   *)
(* -> InitializeConsensus) is the composition of their operators and the   *)
(* whole call runs as one step, as it does under the engine's mutex.  The  *)
(* payloads a handler broadcasts are collected in the field "out" and move *)
(* to the network msgs at the end of the step.  msgs only grows: any sent  *)
(* payload may be delivered to any node any number of times, in any order *)
(* or never, which models loss, duplication and reordering.                *)
(*                                                                         *)
(* The Context predicates, reset and the send/make helpers live in files   *)
(* of the package that are not part of this source tree (context.go,       *)
(* send.go); they are written from the specification of the engine.       *)
(*                                                                         *)
(* Time is abstracted: the timer holds only the (height, view) tag it was *)
(* armed with, and it may fire at any moment.  extendTimer only moves the *)
(* deadline and therefore changes nothing here.                            *)
(***************************************************************************)
EXTENDS Integers, FiniteSets, Sequences, TLC

LOCAL INSTANCE SequencesExt

CONSTANTS
    N,            \* number of validators; indexes are 0..N-1
    Byz,          \* indexes of Byzantine validators (send any own payload)
    Blocks,       \* block contents a primary may propose (model values)
    ValidBlocks,  \* contents that pass createAndCheckBlock at every node
    Txs,          \* transaction hashes every proposal carries
    MaxView,      \* views 0..MaxView are explored
    MaxHeight,    \* heights 1..MaxHeight are explored
    ByzPayloads,  \* what the Byzantine validators send (see OwnPayloads)
    None          \* a model value: an empty slot, a nil pointer

Nodes  == 0 .. N - 1
Honest == Nodes \ Byz
F == (N - 1) \div 3
M == N - F

ASSUME
    /\ N \in Nat \ {0}
    /\ Byz \subseteq Nodes /\ Cardinality(Byz) <= F
    /\ ValidBlocks \subseteq Blocks /\ Blocks # {}
    /\ MaxView \in Nat /\ MaxHeight \in Nat \ {0}

Views   == 0 .. MaxView + 1   \* a ChangeView may ask for MaxView + 1
Heights == 1 .. MaxHeight + 1 \* a node that decides MaxHeight is at MaxHeight + 1

(***************************************************************************)
(* Payloads.  A PrepareRequest body stands for the header fields the      *)
(* primary fills (Timestamp, Nonce, NextConsensus, TransactionHashes): the *)
(* block content and the view it was proposed in, which makes headers of  *)
(* different views distinct as their timestamps do.  A Commit signature   *)
(* is identified with the header it signs.  The hash of a PrepareRequest  *)
(* covers its height, view and body.                                      *)
(***************************************************************************)
Bodies == [view : Views, block : Blocks]
Hashes == [height : Heights, view : Views, body : Bodies]
HV     == [height : Heights, view : Views]

PrepHash(m) == [height |-> m.height, view |-> m.view, body |-> m.body]

PrepareRequests  == [type : {"PrepareRequest"}, from : Nodes, height : Heights,
                     view : Views, body : Bodies]
PrepareResponses == [type : {"PrepareResponse"}, from : Nodes, height : Heights,
                     view : Views, hash : Hashes]
Commits          == [type : {"Commit"}, from : Nodes, height : Heights,
                     view : Views, sig : Bodies]
ChangeViews      == [type : {"ChangeView"}, from : Nodes, height : Heights,
                     view : Views, newView : Views]
RecoveryRequests == [type : {"RecoveryRequest"}, from : Nodes, height : Heights,
                     view : Views]
\* The compact RecoveryMessage of payload/recovery_message.go: an optional
\* PrepareRequest body, the preparation hash, the indexes of PrepareResponse
\* senders, the original view of each ChangeView and each Commit stub.
RecoveryMessages == [type : {"RecoveryMessage"}, from : Nodes, height : Heights,
                     view : Views, req : Bodies \cup {None},
                     prepHash : Hashes \cup {None}, resps : SUBSET Nodes,
                     cvs : [Nodes -> Views \cup {None}],
                     commits : [Nodes -> [view : Views, sig : Bodies] \cup {None}]]
Payloads == PrepareRequests \cup PrepareResponses \cup Commits \cup ChangeViews
              \cup RecoveryRequests \cup RecoveryMessages

(***************************************************************************)
(* A Byzantine validator may send any well-formed payload signed with its *)
(* own key.  OwnPayloads(x) are those of the heights and views explored; *)
(* the constant ByzPayloads is the part of them a model lets the faulty   *)
(* validators send, from nothing (a crashed node) to all of them.         *)
(***************************************************************************)
OwnPayloads(x) ==
    LET hv == [height : 1 .. MaxHeight, view : 0 .. MaxView]
        own(y, b) ==
          {[type |-> "PrepareRequest", from |-> x, height |-> y.height,
            view |-> y.view, body |-> b],
           [type |-> "PrepareResponse", from |-> x, height |-> y.height,
            view |-> y.view, hash |-> [height |-> y.height, view |-> y.view, body |-> b]],
           [type |-> "Commit", from |-> x, height |-> y.height,
            view |-> y.view, sig |-> b],
           [type |-> "ChangeView", from |-> x, height |-> y.height,
            view |-> y.view, newView |-> y.view + 1],
           [type |-> "RecoveryRequest", from |-> x, height |-> y.height,
            view |-> y.view]}
    IN UNION {own(y, [view |-> y.view, block |-> b]) : y \in hv, b \in Blocks}

ASSUME ByzPayloads \subseteq UNION {OwnPayloads(x) : x \in Byz}

VARIABLES
    ctx,   \* ctx[n]: the Context of the engine of validator n, and its ledger
    msgs   \* every payload broadcast so far

vars == <<ctx, msgs>>

EmptySlots == [i \in Nodes |-> None]

\* The Context New builds, before Start.
InitContext(n) ==
    [me |-> n, height |-> 1, view |-> 0,
     prep |-> EmptySlots, commit |-> EmptySlots, cv |-> EmptySlots,
     lastSeen |-> EmptySlots, proposal |-> None, txs |-> {}, missing |-> {},
     timer |-> None, chain |-> <<>>, out |-> {}]

(***************************************************************************)
(* Context predicates (context.go).  Every modelled node is a validator,  *)
(* so WatchOnly() is FALSE and IsBackup() is "not primary".               *)
(***************************************************************************)
GetPrimaryIndex(c) == (c.height - c.view) % N

IsPrimary(c) == c.me = GetPrimaryIndex(c)

RequestSentOrReceived(c) == c.prep[GetPrimaryIndex(c)] # None

ResponseSent(c) == c.prep[c.me] # None

CommitSent(c) == c.commit[c.me] # None

ViewChanging(c) == c.cv[c.me] # None /\ c.cv[c.me].newView > c.view

CountCommitted(c) == Cardinality({i \in Nodes : c.commit[i] # None})

CountFailed(c) ==
    Cardinality({i \in Nodes : \/ c.lastSeen[i] = None
                               \/ c.lastSeen[i].height < c.height
                               \/ c.lastSeen[i].view < c.view})

MoreThanFNodesCommittedOrLost(c) == CountCommitted(c) + CountFailed(c) > F

NotAcceptingPayloadsDueToViewChanging(c) ==
    ViewChanging(c) /\ ~MoreThanFNodesCommittedOrLost(c)

\* len(TransactionHashes) == len(Transactions); no hashes before a request.
HasAllTransactions(c) == c.proposal = None \/ c.txs = Txs

\* The header is known once the PrepareRequest fields are in the Context.
MakeHeader(c) == c.proposal

(***************************************************************************)
(* Timer and broadcast.                                                    *)
(***************************************************************************)
ChangeTimer(c) == [c EXCEPT !.timer = [height |-> c.height, view |-> c.view]]

Broadcast(c, m) == [c EXCEPT !.out = @ \cup {m}]

(***************************************************************************)
(* reset: a new height re-reads CurrentHeight from the ledger and clears  *)
(* every slot; a new view clears the preparations and the proposal and    *)
(* keeps the Commit and ChangeView slots.                                 *)
(***************************************************************************)
\* Mutant: the new height is read as the ledger height itself.
Reset_OffByOne(c, v) ==
    [c EXCEPT !.height   = IF v = 0 THEN Len(c.chain) ELSE @,
              !.view     = v,
              !.prep     = EmptySlots,
              !.commit   = IF v = 0 THEN EmptySlots ELSE @,
              !.cv       = IF v = 0 THEN EmptySlots ELSE @,
              !.proposal = None,
              !.txs      = {},
              !.missing  = {}]

Reset(c, v) ==
    [c EXCEPT !.height   = IF v = 0 THEN Len(c.chain) + 1 ELSE @,
              !.view     = v,
              !.prep     = EmptySlots,
              !.commit   = IF v = 0 THEN EmptySlots ELSE @,
              !.cv       = IF v = 0 THEN EmptySlots ELSE @,
              !.proposal = None,
              !.txs      = {},
              !.missing  = {}]

InitializeConsensus(c, v) == ChangeTimer(Reset(c, v))

(***************************************************************************)
(* Payload constructors and senders (send.go).                            *)
(***************************************************************************)
MakeChangeView(c, nv) ==
    [type |-> "ChangeView", from |-> c.me, height |-> c.height,
     view |-> c.view, newView |-> nv]

MakeRecoveryMessage(c) ==
    LET req   == c.prep[GetPrimaryIndex(c)]
        resps == {i \in Nodes : c.prep[i] # None /\ c.prep[i].type = "PrepareResponse"}
    IN [type |-> "RecoveryMessage", from |-> c.me, height |-> c.height,
        view |-> c.view,
        req |-> IF req # None THEN req.body ELSE None,
        prepHash |-> IF req # None THEN PrepHash(req)
                     ELSE IF resps # {} THEN c.prep[Min(resps)].hash
                     ELSE None,
        resps |-> resps,
        cvs |-> [i \in Nodes |-> IF c.cv[i] # None THEN c.cv[i].view ELSE None],
        commits |-> [i \in Nodes |-> IF c.commit[i] # None
                                     THEN [view |-> c.commit[i].view, sig |-> c.commit[i].sig]
                                     ELSE None]]

SendRecoveryMessage(c) == Broadcast(c, MakeRecoveryMessage(c))

SendPrepareResponse(c) ==
    LET r == [type |-> "PrepareResponse", from |-> c.me, height |-> c.height,
              view |-> c.view, hash |-> PrepHash(c.prep[GetPrimaryIndex(c)])]
    IN Broadcast([c EXCEPT !.prep[c.me] = r], r)

SendCommit(c) ==
    LET m == [type |-> "Commit", from |-> c.me, height |-> c.height,
              view |-> c.view, sig |-> MakeHeader(c)]
    IN Broadcast([c EXCEPT !.commit[c.me] = m], m)

(***************************************************************************)
(* check.go                                                                *)
(***************************************************************************)
CommitQuorum(c) ==
    {i \in Nodes : c.commit[i] # None /\ c.commit[i].view = c.view}

\* The block assembled from the Context with the quorum's signatures is
\* handed to ProcessBlock, which appends it to the ledger.
CheckCommit(c) ==
    IF ~HasAllTransactions(c) \/ Cardinality(CommitQuorum(c)) < M THEN c
    ELSE LET blk == [body |-> c.proposal,
                     sigs |-> {c.commit[i] : i \in CommitQuorum(c)}]
         IN InitializeConsensus([c EXCEPT !.chain = Append(@, blk)], 0)

CheckPrepare(c) ==
    LET count  == Cardinality({i \in Nodes : c.prep[i] # None /\ c.prep[i].view = c.view})
        hasReq == \E i \in Nodes : c.prep[i] # None /\ c.prep[i].type = "PrepareRequest"
    IN IF HasAllTransactions(c) /\ hasReq /\ count >= M
       THEN CheckCommit(ChangeTimer(SendCommit(c)))
       ELSE c

CheckChangeView(c, v) ==
    IF c.view >= v
       \/ Cardinality({i \in Nodes : c.cv[i] # None /\ c.cv[i].newView >= v}) < M
    THEN c
    ELSE LET own == c.cv[c.me]
             c1  == IF own # None /\ own.newView < v
                    THEN LET cvm == MakeChangeView(c, v)
                         IN Broadcast([c EXCEPT !.cv[c.me] = cvm], cvm)
                    ELSE c
         IN InitializeConsensus(c1, v)

\* sendChangeView: rearm the timer for the next view, store and broadcast
\* our ChangeView, and see whether it completes a quorum.
SendChangeView(c) ==
    LET cvm == MakeChangeView(c, c.view + 1)
    IN CheckChangeView(Broadcast([ChangeTimer(c) EXCEPT !.cv[c.me] = cvm], cvm),
                       c.view + 1)

\* Fill and sendPrepareRequest: the primary takes the verified transactions
\* of its pool, so it holds all of them.
SendPrepareRequest(c, blk) ==
    LET body == [view |-> c.view, block |-> blk]
        r    == [type |-> "PrepareRequest", from |-> c.me, height |-> c.height,
                 view |-> c.view, body |-> body]
    IN CheckPrepare(ChangeTimer(Broadcast(
           [c EXCEPT !.proposal = body, !.txs = Txs, !.prep[c.me] = r], r)))

(***************************************************************************)
(* Handlers of dbft.go.  env holds the host's answers a handler may ask   *)
(* for: env.avail, the transactions GetTx finds in the pool, and env.blk, *)
(* the block a primary fills from GetVerified.                            *)
(***************************************************************************)
Env == [avail : SUBSET Txs, blk : Blocks]

\* createAndCheckBlock: the NextConsensus check and VerifyBlock of the host.
BlockAcceptable(c) == c.proposal.block \in ValidBlocks

\* processMissingTx: take what the pool has, request the rest.
ProcessMissingTx(c, avail) ==
    LET missing == Txs \ (c.txs \cup avail)
    IN [c EXCEPT !.txs = @ \cup (Txs \cap avail),
                 !.missing = IF missing # {} THEN missing ELSE @]

\* Mutant: the commits stored before the header was known are kept.
UpdateExistingPayloads_KeepCommits(c, m) ==
    [c EXCEPT
       !.prep = [i \in Nodes |->
                   IF c.prep[i] # None /\ c.prep[i].type = "PrepareResponse"
                      /\ c.prep[i].hash # PrepHash(m)
                   THEN None ELSE c.prep[i]]]

\* Mutant: the responses that arrived before the request are kept.
UpdateExistingPayloads_KeepResponses(c, m) ==
    LET hdr == MakeHeader(c) IN
    [c EXCEPT
       !.commit = [i \in Nodes |->
                   IF c.commit[i] # None /\ c.commit[i].view = c.view
                      /\ hdr # None /\ c.commit[i].sig # hdr
                   THEN None ELSE c.commit[i]]]

\* updateExistingPayloads: drop responses that endorse another request and
\* commits of this view whose signature does not verify against the header.
UpdateExistingPayloads(c, m) ==
    LET hdr == MakeHeader(c) IN
    [c EXCEPT
       !.prep = [i \in Nodes |->
                   IF c.prep[i] # None /\ c.prep[i].type = "PrepareResponse"
                      /\ c.prep[i].hash # PrepHash(m)
                   THEN None ELSE c.prep[i]],
       !.commit = [i \in Nodes |->
                   IF c.commit[i] # None /\ c.commit[i].view = c.view
                      /\ hdr # None /\ c.commit[i].sig # hdr
                   THEN None ELSE c.commit[i]]]

\* addTransaction; the caller has checked that c is a backup.
AddTransaction(c, tx) ==
    LET c1 == [c EXCEPT !.txs = @ \cup {tx}] IN
    IF ~HasAllTransactions(c1) THEN c1
    ELSE IF ~BlockAcceptable(c1) THEN SendChangeView(c1)
    ELSE CheckPrepare(SendPrepareResponse(c1))

\* Mutant: the response does not wait for the missing transactions.
OnPrepareRequest_NoWait(c, m, env) ==
    IF RequestSentOrReceived(c) \/ c.view # m.view \/ m.from # GetPrimaryIndex(c)
    THEN c
    ELSE LET c1 == [c EXCEPT !.proposal = m.body]
             c2 == UpdateExistingPayloads(ProcessMissingTx(c1, env.avail), m)
             c3 == [c2 EXCEPT !.prep[m.from] = m]
         IN IF ~BlockAcceptable(c3) THEN SendChangeView(c3)
            ELSE CheckPrepare(SendPrepareResponse(c3))

OnPrepareRequest(c, m, env) ==
    IF RequestSentOrReceived(c) \/ c.view # m.view \/ m.from # GetPrimaryIndex(c)
    THEN c
    ELSE LET c1 == [c EXCEPT !.proposal = m.body]
             c2 == UpdateExistingPayloads(ProcessMissingTx(c1, env.avail), m)
             c3 == [c2 EXCEPT !.prep[m.from] = m]
         IN IF ~HasAllTransactions(c3) THEN c3
            ELSE IF ~BlockAcceptable(c3) THEN SendChangeView(c3)
            ELSE CheckPrepare(SendPrepareResponse(c3))

OnPrepareResponse(c, m) ==
    IF \/ c.view # m.view
       \/ m.from = GetPrimaryIndex(c)
       \/ c.prep[m.from] # None
       \/ NotAcceptingPayloadsDueToViewChanging(c)
    THEN c
    ELSE LET c1  == [c EXCEPT !.prep[m.from] = m]
             req == c1.prep[GetPrimaryIndex(c)]
         IN IF req # None /\ m.hash # PrepHash(req)
            THEN [c1 EXCEPT !.prep[m.from] = None]
            ELSE IF ~CommitSent(c1) /\ RequestSentOrReceived(c1)
            THEN CheckPrepare(c1)
            ELSE c1

OnRecoveryRequest(c, m) ==
    IF ~CommitSent(c) /\ ~\E i \in 1 .. F : (m.from + i) % N = c.me
    THEN c
    ELSE SendRecoveryMessage(c)

OnChangeView(c, m) ==
    IF m.newView <= c.view THEN OnRecoveryRequest(c, m)
    ELSE IF CommitSent(c) THEN SendRecoveryMessage(c)
    ELSE IF c.cv[m.from] # None /\ m.newView < c.cv[m.from].newView THEN c
    ELSE CheckChangeView([c EXCEPT !.cv[m.from] = m], m.newView)

\* Mutant: a commit of the current view is not verified.
OnCommit_NoVerify(c, m) ==
    IF c.view # m.view \/ MakeHeader(c) = None
    THEN [c EXCEPT !.commit[m.from] = m]
    ELSE CheckCommit([c EXCEPT !.commit[m.from] = m])

OnCommit(c, m) ==
    IF c.view # m.view \/ MakeHeader(c) = None
    THEN [c EXCEPT !.commit[m.from] = m]
    ELSE IF m.sig = MakeHeader(c)
    THEN CheckCommit([c EXCEPT !.commit[m.from] = m])
    ELSE c

(***************************************************************************)
(* OnReceive: a payload of an older height is dropped; one of a later     *)
(* height, or of the next view unless it is a RecoveryMessage, goes to    *)
(* the cache, which is replayed only by Start right after it is emptied,  *)
(* so it is never seen again.  Otherwise the sender's last seen           *)
(* (height, view) is raised and the payload dispatched.                   *)
(***************************************************************************)
Handled(c, m) ==
    m.height = c.height /\ ~(m.view = c.view + 1 /\ m.type # "RecoveryMessage")

SeeMessage(c, m) ==
    LET hv == c.lastSeen[m.from] IN
    IF hv = None \/ hv.height < m.height \/ hv.view < m.view
    THEN [c EXCEPT !.lastSeen[m.from] = [height |-> m.height, view |-> m.view]]
    ELSE c

\* OnReceive for the payloads a RecoveryMessage carries.
OnReceivePayload(c, m, env) ==
    IF ~Handled(c, m) THEN c
    ELSE LET c1 == SeeMessage(c, m) IN
         CASE m.type = "ChangeView"      -> OnChangeView(c1, m)
           [] m.type = "PrepareRequest"  -> OnPrepareRequest(c1, m, env)
           [] m.type = "PrepareResponse" -> OnPrepareResponse(c1, m)
           [] m.type = "Commit"          -> OnCommit(c1, m)
           [] m.type = "RecoveryRequest" -> OnRecoveryRequest(c1, m)

(***************************************************************************)
(* onRecoveryMessage.  The payloads are rebuilt from the compact stubs by *)
(* payload/recovery_message.go: each gets the height and the view of the  *)
(* RecoveryMessage itself; a ChangeView stub asks for its original view   *)
(* plus one; a Commit stub keeps its signature.  They are fed to          *)
(* OnReceive in the order of their validator index.                       *)
(***************************************************************************)
\* The indexes of S in increasing order, the order the stubs were added in.
StubOrder(S) == SelectSeq([k \in 1 .. N |-> k - 1], LAMBDA i : i \in S)

GetChangeViews(m) ==
    LET idx == StubOrder({i \in Nodes : m.cvs[i] # None}) IN
    [k \in 1 .. Len(idx) |->
        [type |-> "ChangeView", from |-> idx[k], height |-> m.height,
         view |-> m.view, newView |-> m.cvs[idx[k]] + 1]]

GetPrepareResponses(m) ==
    LET idx == StubOrder(m.resps) IN
    IF m.prepHash = None THEN <<>>
    ELSE [k \in 1 .. Len(idx) |->
            [type |-> "PrepareResponse", from |-> idx[k], height |-> m.height,
             view |-> m.view, hash |-> m.prepHash]]

GetCommits(m) ==
    LET idx == StubOrder({i \in Nodes : m.commits[i] # None}) IN
    [k \in 1 .. Len(idx) |->
        [type |-> "Commit", from |-> idx[k], height |-> m.height,
         view |-> m.view, sig |-> m.commits[idx[k]].sig]]

(***************************************************************************)
(* EncodeBinary and DecodeBinary of the compact RecoveryMessage, its wire *)
(* form: the ChangeView stubs, a flag telling whether a PrepareRequest    *)
(* follows, then either the request or the preparation hash (length 0    *)
(* when there is none), then the PrepareResponse and Commit stubs.  The   *)
(* hash is written only when no request is, so a decoded message with a  *)
(* request has no preparation hash.                                      *)
(***************************************************************************)
EncodeRecovery(m) ==
    [hdr |-> [type |-> m.type, from |-> m.from, height |-> m.height, view |-> m.view],
     cvs |-> m.cvs, hasReq |-> m.req # None,
     body |-> IF m.req # None THEN m.req ELSE m.prepHash,
     resps |-> m.resps, commits |-> m.commits]

DecodeRecovery(w) ==
    [type |-> w.hdr.type, from |-> w.hdr.from, height |-> w.hdr.height,
     view |-> w.hdr.view, cvs |-> w.cvs,
     req |-> IF w.hasReq THEN w.body ELSE None,
     prepHash |-> IF w.hasReq THEN None ELSE w.body,
     resps |-> w.resps, commits |-> w.commits]

\* GetPrepareRequest rebuilds the request as sent by our current primary.
GetPrepareRequest(m, primary) ==
    [type |-> "PrepareRequest", from |-> primary, height |-> m.height,
     view |-> m.view, body |-> m.req]

Feed(c, seq, env) ==
    FoldLeft(LAMBDA acc, p : OnReceivePayload(acc, p, env), c, seq)

\* The recovering flag set for the duration only shortens the timeout of
\* a primary, which the model does not measure.
OnRecoveryMessage(c, m, env) ==
    IF m.view > c.view /\ CommitSent(c) THEN c
    ELSE
    LET c1 == IF m.view > c.view THEN Feed(c, GetChangeViews(m), env) ELSE c
        withRequest(x) ==
            IF RequestSentOrReceived(x) THEN x
            ELSE IF m.req # None
                 THEN OnReceivePayload(x, GetPrepareRequest(m, GetPrimaryIndex(x)), env)
            ELSE IF IsPrimary(x) THEN SendPrepareRequest(x, env.blk)
            ELSE x
        c2 == IF m.view = c1.view /\ ~NotAcceptingPayloadsDueToViewChanging(c1)
                 /\ ~CommitSent(c1)
              THEN Feed(withRequest(c1), GetPrepareResponses(m), env)
              ELSE c1
    IN IF m.view <= c2.view THEN Feed(c2, GetCommits(m), env) ELSE c2

OnReceive(c, m, env) ==
    IF m.type # "RecoveryMessage" THEN OnReceivePayload(c, m, env)
    ELSE IF Handled(c, m)
         THEN OnRecoveryMessage(SeeMessage(c, m), DecodeRecovery(EncodeRecovery(m)), env)
    ELSE c

(***************************************************************************)
(* The specification.  A node whose height is past MaxHeight or whose     *)
(* view is past MaxView has left the explored part of the state space and *)
(* takes no more steps.                                                   *)
(***************************************************************************)
\* Start is the first call the host makes, before any payload or timer
\* reaches the engine; a node that starts late is one that receives
\* nothing for a while, so every node is started in the initial state.
\* Start: a fresh cache, InitializeConsensus(0), then start(), which
\* replays the (empty) cache on a backup and sends the request on a
\* primary.
Start(c, blk) ==
    LET c1 == InitializeConsensus(c, 0)
    IN IF IsPrimary(c1) THEN SendPrepareRequest(c1, blk) ELSE c1

Init ==
    \E blk \in [Honest -> Blocks] :
       LET started == [n \in Honest |-> Start(InitContext(n), blk[n])]
       IN /\ ctx = [n \in Honest |-> [started[n] EXCEPT !.out = {}]]
          /\ msgs = UNION {started[n].out : n \in Honest}

Active(n) == ctx[n].height <= MaxHeight /\ ctx[n].view <= MaxView

\* One call into the engine of n, ending in Context c.
Apply(n, c) ==
    /\ ctx' = [ctx EXCEPT ![n] = [c EXCEPT !.out = {}]]
    /\ msgs' = msgs \cup c.out

\* Mutant: a timeout after the Commit asks for a view change.
OnTimeout_NoLock(n) ==
    LET c == ctx[n] IN
    /\ Active(n)
    /\ c.timer = [height |-> c.height, view |-> c.view]
    /\ \E env \in Env :
         Apply(n, IF IsPrimary(c) /\ ~RequestSentOrReceived(c)
                  THEN SendPrepareRequest(c, env.blk)
                  ELSE SendChangeView(c))

\* The timer fires with the (height, view) it was armed for.  Every change
\* of height or view rearms it (InitializeConsensus), so a tag that no
\* longer matches is one the engine ignores ("ignore old timer"): such a
\* fire is a step that changes nothing and is left out.
OnTimeout(n) ==
    LET c == ctx[n] IN
    /\ Active(n)
    /\ c.timer = [height |-> c.height, view |-> c.view]
    /\ \E env \in Env :
         Apply(n, IF IsPrimary(c) /\ ~RequestSentOrReceived(c)
                  THEN SendPrepareRequest(c, env.blk)
                  ELSE IF CommitSent(c)
                  THEN ChangeTimer(SendRecoveryMessage(c))
                  ELSE SendChangeView(c))

\* A transaction the engine asked for with RequestTx arrives.
OnTransaction(n) ==
    LET c == ctx[n] IN
    /\ Active(n)
    /\ ~IsPrimary(c) /\ ~NotAcceptingPayloadsDueToViewChanging(c)
    /\ RequestSentOrReceived(c) /\ ~ResponseSent(c)
    /\ \E tx \in c.missing :
         LET c1 == AddTransaction(c, tx) IN
         Apply(n, IF c1.missing = {} THEN c1
                  ELSE [c1 EXCEPT !.missing = @ \ {tx}])

Inbox(n) == {m \in msgs \cup ByzPayloads : m.from # n}

\* Only a PrepareRequest and a RecoveryMessage ask the host for
\* transactions or a block; every other payload is handled the same
\* whatever the host would answer.
EnvFor(type) ==
    IF type \in {"PrepareRequest", "RecoveryMessage"} THEN Env
    ELSE {CHOOSE e \in Env : TRUE}

Receive(n, type) ==
    /\ Active(n)
    /\ \E m \in Inbox(n) :
         /\ m.type = type
         /\ Handled(ctx[n], m)
         /\ \E env \in EnvFor(type) : Apply(n, OnReceive(ctx[n], m, env))

Terminated == \A n \in Honest : ~Active(n)

Next ==
    \/ \E n \in Honest :
          \/ OnTimeout(n)
          \/ OnTransaction(n)
          \/ Receive(n, "PrepareRequest")
          \/ Receive(n, "PrepareResponse")
          \/ Receive(n, "Commit")
          \/ Receive(n, "ChangeView")
          \/ Receive(n, "RecoveryRequest")
          \/ Receive(n, "RecoveryMessage")
    \/ Terminated /\ UNCHANGED vars

Spec == Init /\ [][Next]_vars

(***************************************************************************)
(* Properties.                                                             *)
(***************************************************************************)
Contexts ==
    [me : Honest, height : Heights, view : Views,
     prep : [Nodes -> PrepareRequests \cup PrepareResponses \cup {None}],
     commit : [Nodes -> Commits \cup {None}],
     cv : [Nodes -> ChangeViews \cup {None}],
     lastSeen : [Nodes -> HV \cup {None}],
     proposal : Bodies \cup {None}, txs : SUBSET Txs, missing : SUBSET Txs,
     timer : HV \cup {None},
     chain : Seq([body : Bodies, sigs : SUBSET Commits]), out : {{}}]

TypeOK ==
    /\ ctx \in [Honest -> Contexts]
    /\ msgs \subseteq Payloads

\* Agreement: two honest validators never put different blocks at the same
\* height of their ledgers (checkCommit -> ProcessBlock), whatever the
\* Byzantine validators send and however payloads are lost or reordered.
Agreement ==
    \A i, j \in Honest :
      \A h \in 1 .. Len(ctx[i].chain) :
        h <= Len(ctx[j].chain) => ctx[i].chain[h].body = ctx[j].chain[h].body

\* Every block an honest validator appends carries only Commit signatures
\* over its own header: checkCommit counts the commits of the view, and
\* those stored before the header was known (onCommit without a header)
\* must have been re-checked by updateExistingPayloads in onPrepareRequest.
BlockWitnessValid ==
    \A n \in Honest :
      \A h \in 1 .. Len(ctx[n].chain) :
        \A s \in ctx[n].chain[h].sigs : s.sig = ctx[n].chain[h].body

\* A PrepareResponse kept next to the request of the view endorses that
\* request: onPrepareResponse drops one with another hash, and
\* onPrepareRequest (updateExistingPayloads) drops those that arrived
\* before the request and endorse a different one.
PreparationCoherent ==
    \A n \in Honest :
      LET c == ctx[n] IN
      RequestSentOrReceived(c) =>
        \A i \in Nodes :
          c.prep[i] # None /\ c.prep[i].type = "PrepareResponse"
            => c.prep[i].hash = PrepHash(c.prep[GetPrimaryIndex(c)])

\* A validator endorses a proposal only once it holds every transaction
\* of it: the PrepareResponse waits in onPrepareRequest, and then in
\* OnTransaction, until the missing transactions asked of the host have
\* all arrived.
ResponseWithAllTransactions ==
    \A n \in Honest : ResponseSent(ctx[n]) => ctx[n].txs = Txs

\* Once a validator has sent its Commit at a height it is locked there: no
\* step changes its view at that height or broadcasts a ChangeView of it
\* (onChangeView answers with a RecoveryMessage, onRecoveryMessage skips
\* the ChangeViews, OnTimeout resends a RecoveryMessage).
CommitLock ==
    [][\A n \in Honest :
         CommitSent(ctx[n]) /\ ctx'[n].height = ctx[n].height =>
           /\ ctx'[n].view = ctx[n].view
           /\ ~\E m \in msgs' \ msgs : m.type = "ChangeView" /\ m.from = n]_vars

\* A RecoveryMessage of a later view that carries ChangeViews of M
\* validators for that view brings a validator that missed the view
\* change, and has not committed, to the view of the message (the
\* ChangeView stubs fed by onRecoveryMessage).
RecoveryCatchUp ==
    \A n \in Honest, m \in msgs :
      LET c == ctx[n] IN
      ( /\ m.type = "RecoveryMessage" /\ m.from # n
        /\ m.height = c.height /\ m.view > c.view /\ ~CommitSent(c)
        /\ Cardinality({i \in Nodes : m.cvs[i] # None /\ m.cvs[i] + 1 >= m.view}) >= M )
      => \A env \in Env : OnReceive(c, m, env).view >= m.view

=============================================================================
