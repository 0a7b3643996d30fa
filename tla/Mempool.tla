------------------------------ MODULE Mempool ------------------------------
(***************************************************************************)
(* The memory pool of pkg/core/mempool/mem_pool.go.  The pool keeps the    *)
(* verified transactions as a slice sorted from the most to the least      *)
(* prioritised (verifiedTxes), an index by hash (verifiedMap) and, per     *)
(* sender, the balance read from the chain and the sum of the costs of the *)
(* sender's pooled transactions (fees).  Every exported method takes the   *)
(* pool's lock for its whole body, so each is one atomic action here.      *)
(*                                                                         *)
(* A transaction is a model value; its fields (sender, nonce, gas price,   *)
(* gas, value, size and the rank of its hash) are the constant function   *)
(* Tx.  The chain the pool asks through the Feer interface is the variable *)
(* chain: its height, the balance of every sender and the fee per byte.   *)
(***************************************************************************)
EXTENDS Integers, FiniteSets, Sequences, TLC

LOCAL SX == INSTANCE SequencesExt

CONSTANTS
    Txs,            \* transactions, model values
    Senders,        \* sender addresses
    Tx,             \* Tx[t] = [from, nonce, price, gas, value, size, hash]
    Capacity,       \* capacity given to New
    InitBalance,    \* the chain's balances when the pool is created
    BalanceChoices, \* balances a block may leave a sender with
    PolicyChoices,  \* fee-per-byte values a block may set
    MaxHeight,      \* blocks accepted in one behaviour
    None

ASSUME Capacity \in Nat \ {0}
ASSUME \A t, u \in Txs : t # u => Tx[t].hash # Tx[u].hash

VARIABLES
    verifiedTxes,   \* sequence of items [txn, blockStamp], sorted
    verifiedMap,    \* the set of pooled transactions (the map by hash)
    fees,           \* sender -> [balance, feeSum], for the senders seen
    feePerByte,     \* the policy value last loaded by RemoveStale
    chain,          \* [height, balance, feePerByte] of the host chain
    last            \* the transaction and the error of the last Add

vars == <<verifiedTxes, verifiedMap, fees, feePerByte, chain, last>>

Errors == {"ok", "ErrDup", "ErrInsufficientFunds", "ErrConflict", "ErrOOM"}

-----------------------------------------------------------------------------
(* Transaction helpers (pkg/core/transaction).                            *)

Cost(t) == Tx[t].value + Tx[t].gas * Tx[t].price

TxFeePerByte(t) == Tx[t].gas \div Tx[t].size

Sign(x) == IF x > 0 THEN 1 ELSE IF x < 0 THEN -1 ELSE 0

\* item.CompareTo: gas price, then gas, then the hash as a number.
CompareTo(t, u) ==
    IF Tx[t].price # Tx[u].price THEN Sign(Tx[t].price - Tx[u].price)
    ELSE IF Tx[t].gas # Tx[u].gas THEN Sign(Tx[t].gas - Tx[u].gas)
    ELSE Sign(Tx[t].hash - Tx[u].hash)

Pooled(s) == {s[i].txn : i \in 1 .. Len(s)}

SenderTxs(p) == {t \in verifiedMap : Tx[t].from = p}

SumCost(S) == SX!MapThenSumSet(Cost, S)

ZeroFee == [balance |-> 0, feeSum |-> 0]

SetFee(fs, p, v) == (p :> v) @@ fs

\* containsKey: the hash is in verifiedMap.
ContainsKey(h) == h \in verifiedMap

-----------------------------------------------------------------------------
(* Internal operations, as functions of the pool's state.                 *)

\* checkBalance: the new fee sum, or the error.
CheckBalance(t, bal) ==
    IF bal.balance < Cost(t) THEN "ErrInsufficientFunds"
    ELSE IF bal.balance < Cost(t) + bal.feeSum THEN "ErrConflict"
    ELSE "ok"

\* tryAddSendersFee: a new entry reads the balance from the chain; with
\* needCheck the sum is checked, and the entry is stored even when it fails.
TryAddSendersFee(fs, t, needCheck) ==
    LET p   == Tx[t].from
        cur == IF p \in DOMAIN fs THEN fs[p]
               ELSE [balance |-> chain.balance[p], feeSum |-> 0]
        ok  == ~needCheck \/ CheckBalance(t, cur) = "ok"
    IN  [ok  |-> ok,
         fees |-> SetFee(fs, p, IF ok THEN [cur EXCEPT !.feeSum = @ + Cost(t)]
                                      ELSE cur)]

\* The transactions checkTxConflicts may pick: the first one, in map order,
\* of the same sender and nonce with a lower gas price.
ConflictCandidates(t) ==
    {e \in verifiedMap : /\ Tx[e].from = Tx[t].from
                         /\ Tx[e].nonce = Tx[t].nonce
                         /\ Tx[e].price < Tx[t].price}

\* The sender's fee sum after checkTxConflicts.  expectedSenderFee is a
\* shallow copy of the entry of mp.fees, so Sub on it rewrites the words it
\* shares with the stored big.Int (nat.sub reuses them) and the stored
\* length and sign stay.  For values of one word the stored sum v becomes
\* |v - y|; a zero may be stored with no word (unchanged) or with one word
\* (then y); a negative one keeps v or gets v - y, depending on whether
\* nat.add can reuse the array.  Values are assumed below 2^64.
AliasedFeeSums(v, y) ==
    IF v > 0 THEN {IF v >= y THEN v - y ELSE y - v}
    ELSE IF v = 0 THEN {0, y}
    ELSE {v, v - y}

\* The fee maps checkTxConflicts may leave behind for the conflict c.
ConflictFees(t, c) ==
    LET p == Tx[t].from
    IN  IF c = None \/ p \notin DOMAIN fees THEN {fees}
        ELSE {SetFee(fees, p, [fees[p] EXCEPT !.feeSum = v]) :
                  v \in AliasedFeeSums(fees[p].feeSum, Cost(c))}

\* The error of checkTxConflicts with the conflict c chosen by the map
\* iteration, on the fees as they were when it was called.
CheckTxConflicts(t, c) ==
    LET p      == Tx[t].from
        actual == IF p \in DOMAIN fees THEN fees[p]
                  ELSE [balance |-> chain.balance[p], feeSum |-> 0]
    IN  CheckBalance(t, IF c = None THEN actual
                        ELSE [actual EXCEPT !.feeSum = @ - Cost(c)])

\* removeInternal on (list, map, fees).
RemoveInternal(st, h) ==
    IF h \notin st.map THEN st
    ELSE LET num == CHOOSE i \in 1 .. Len(st.list) : st.list[i].txn = h
             p   == Tx[h].from
             cur == IF p \in DOMAIN st.fees THEN st.fees[p] ELSE ZeroFee
         IN  [list |-> SX!RemoveAt(st.list, num),
              map  |-> st.map \ {h},
              fees |-> SetFee(st.fees, p, [cur EXCEPT !.feeSum = @ - Cost(h)])]

\* sort.Search for the first item the new one is strictly above (1-based).
SearchPos(list, t) ==
    LET above == {i \in 1 .. Len(list) : CompareTo(t, list[i].txn) > 0}
    IN  IF above = {} THEN Len(list) + 1 ELSE SX!Min(above)

InsertAtCapacity_NoShift(list, n, itm) == Append(SX!Front(list), itm)

\* Insertion at capacity: the last item is overwritten by the new one and
\* the items from n on are shifted down over it.
InsertAtCapacity(list, n, itm) == SX!InsertAt(SX!Front(list), n, itm)

OOMCheck_StaleLen(before, after) == Len(before) = Capacity

OOMCheck_Over(before, after) == Len(after) > Capacity

\* The capacity branch of Add, given the list before and after the
\* removal of the conflict.
OOMCheck(before, after) == Len(after) = Capacity

EvictFromMap_Keep(map, list) == map

\* The least prioritised item is ditched from the map.
EvictFromMap(map, list) == map \ {SX!Last(list).txn}

\* The left bound sort.Search finds for t: the first item t is at least as
\* prioritised as, Len + 1 if none.
DataSearch_Strict(list, t) ==
    LET notBelow == {i \in 1 .. Len(list) : CompareTo(t, list[i].txn) > 0}
    IN  IF notBelow = {} THEN Len(list) + 1 ELSE SX!Min(notBelow)

DataSearch(list, t) ==
    LET notBelow == {i \in 1 .. Len(list) : CompareTo(t, list[i].txn) >= 0}
    IN  IF notBelow = {} THEN Len(list) + 1 ELSE SX!Min(notBelow)

\* TryGetData(hash) succeeds: the hash is in verifiedMap and the scan from
\* the left bound, over the items as prioritised as it, meets its item.
TryGetData(h) ==
    LET list == verifiedTxes
        n    == DataSearch(list, h)
    IN  /\ h \in verifiedMap
        /\ \E i \in n .. Len(list) :
              /\ list[i].txn = h
              /\ \A j \in n .. i - 1 : CompareTo(h, list[j].txn) = 0

-----------------------------------------------------------------------------
(* The pool's methods.                                                     *)

Init ==
    /\ verifiedTxes = <<>>
    /\ verifiedMap = {}
    /\ fees = [p \in {} |-> ZeroFee]
    /\ feePerByte = 0
    /\ chain \in [height : {0}, balance : {InitBalance},
                  feePerByte : PolicyChoices]
    /\ last = None

Candidates(t) ==
    IF ConflictCandidates(t) = {} THEN {None} ELSE ConflictCandidates(t)

Pool(st) ==
    /\ verifiedTxes' = st.list
    /\ verifiedMap' = st.map
    /\ fees' = st.fees

\* Add: the duplicate check, checkTxConflicts, the removal of the conflict,
\* the sorted insertion with the capacity branch, and tryAddSendersFee.
Add(t) ==
    /\ UNCHANGED <<feePerByte, chain>>
    /\ \/ /\ ContainsKey(t)
          /\ last' = [tx |-> t, err |-> "ErrDup"]
          /\ UNCHANGED <<verifiedTxes, verifiedMap, fees>>
       \/ /\ ~ContainsKey(t)
          /\ \E c \in Candidates(t) : \E fs \in ConflictFees(t, c) :
             LET err  == CheckTxConflicts(t, c)
                 st0  == [list |-> verifiedTxes, map |-> verifiedMap, fees |-> fs]
                 st1  == IF c = None THEN st0 ELSE RemoveInternal(st0, c)
                 n    == SearchPos(st1.list, t)
                 itm  == [txn |-> t, blockStamp |-> chain.height]
                 full == OOMCheck(st0.list, st1.list)
             IN  \/ /\ err # "ok"
                    /\ last' = [tx |-> t, err |-> err]
                    /\ fees' = fs
                    /\ UNCHANGED <<verifiedTxes, verifiedMap>>
                 \/ /\ err = "ok"
                    /\ full /\ n = Len(st1.list) + 1
                    /\ last' = [tx |-> t, err |-> "ErrOOM"]
                    /\ Pool(st1)
                 \/ /\ err = "ok"
                    /\ ~(full /\ n = Len(st1.list) + 1)
                    /\ last' = [tx |-> t, err |-> "ok"]
                    /\ verifiedTxes' = IF full THEN InsertAtCapacity(st1.list, n, itm)
                                       ELSE SX!InsertAt(st1.list, n, itm)
                    /\ verifiedMap' = (IF full THEN EvictFromMap(st1.map, st1.list)
                                       ELSE st1.map) \cup {t}
                    /\ fees' = TryAddSendersFee(st1.fees, t, FALSE).fees

\* Verify runs checkTxConflicts under the read lock; its only effect on
\* the pool is the rewrite of the shared fee sum.
Verify(t) ==
    /\ \E c \in Candidates(t) : \E fs \in ConflictFees(t, c) : fees' = fs
    /\ last' = None
    /\ UNCHANGED <<verifiedTxes, verifiedMap, feePerByte, chain>>

\* Remove(hash), for any transaction; absent ones leave the pool unchanged.
Remove(h) ==
    /\ Pool(RemoveInternal([list |-> verifiedTxes, map |-> verifiedMap,
                            fees |-> fees], h))
    /\ last' = None
    /\ UNCHANGED <<feePerByte, chain>>

\* The test RemoveStale applies to one item, on the fees rebuilt so far.
KeepItem(fs, t, isOK, policyChanged, fpb) ==
    IF t \in isOK /\ (~policyChanged \/ TxFeePerByte(t) >= fpb)
    THEN TryAddSendersFee(fs, t, TRUE)
    ELSE [ok |-> FALSE, fees |-> fs]

\* RemoveStale(isOK): loadPolicy, then the items are filtered in priority
\* order while the fees are rebuilt from scratch.  The resend of stale
\* items is a goroutine that only relays them and is left out.
RemoveStale(isOK) ==
    LET policyChanged == chain.feePerByte > feePerByte
        fpb  == IF policyChanged THEN chain.feePerByte ELSE feePerByte
        step(acc, itm) ==
            LET r == KeepItem(acc.fees, itm.txn, isOK, policyChanged, fpb)
            IN  [keep |-> IF r.ok THEN Append(acc.keep, itm) ELSE acc.keep,
                 fees |-> r.fees]
        res == SX!FoldLeft(step, [keep |-> <<>>, fees |-> [p \in {} |-> ZeroFee]],
                           verifiedTxes)
    IN  /\ feePerByte' = fpb
        /\ verifiedTxes' = res.keep
        /\ verifiedMap' = Pooled(res.keep)
        /\ fees' = res.fees
        /\ last' = None
        /\ UNCHANGED chain

\* The host accepts a block: the height grows, balances and the policy may
\* change.  This is the environment, not pool code.
AcceptBlock ==
    /\ chain.height < MaxHeight
    /\ \E bal \in [Senders -> BalanceChoices], pol \in PolicyChoices :
         chain' = [height |-> chain.height + 1, balance |-> bal, feePerByte |-> pol]
    /\ UNCHANGED <<verifiedTxes, verifiedMap, fees, feePerByte, last>>

Next ==
    \/ AcceptBlock
    \/ \E t \in Txs : Add(t)
    \/ \E t \in Txs : Verify(t)
    \/ \E h \in Txs : Remove(h)
    \/ \E isOK \in SUBSET verifiedMap : RemoveStale(isOK)

Spec == Init /\ [][Next]_vars

-----------------------------------------------------------------------------
(* Properties.                                                             *)

Items == [txn : Txs, blockStamp : 0 .. MaxHeight]

TypeOK ==
    /\ verifiedTxes \in Seq(Items)
    /\ Len(verifiedTxes) <= Capacity
    /\ verifiedMap \subseteq Txs
    /\ DOMAIN fees \subseteq Senders
    /\ \A p \in DOMAIN fees : fees[p] \in [balance : Int, feeSum : Int]
    /\ feePerByte \in Nat
    /\ last \in {None} \cup [tx : Txs, err : Errors]

\* The slice and the map hold the same transactions, each once: an item
\* ditched from the slice at capacity is ditched from the map too, and
\* RemoveStale deletes from the map exactly what it filters out.
PoolConsistent ==
    /\ verifiedMap = Pooled(verifiedTxes)
    /\ Len(verifiedTxes) = Cardinality(verifiedMap)

\* The slice is sorted from the most to the least prioritised item by
\* CompareTo, whatever mix of insertions at capacity, conflict removals,
\* Remove and RemoveStale produced it (sort.Search relies on it).
Sorted ==
    \A i, j \in 1 .. Len(verifiedTxes) :
        i < j => CompareTo(verifiedTxes[i].txn, verifiedTxes[j].txn) = 1

\* Every sender of a pooled transaction has a fee entry, and its pooled
\* transactions cost no more than the balance the pool holds for it, also
\* after a block lowered the balance and RemoveStale rebuilt the fees.
SenderCanPay ==
    \A t \in verifiedMap : LET p == Tx[t].from IN
        /\ p \in DOMAIN fees
        /\ SumCost(SenderTxs(p)) <= fees[p].balance

\* An Add that returns an error leaves the pooled transactions as they
\* were: the conflicting transaction removed before the capacity check is
\* never lost when the new one then does not fit (ErrOOM).
AddFailureKeepsTxs ==
    [][last' # None /\ last'.err # "ok" =>
           UNCHANGED <<verifiedTxes, verifiedMap>>]_vars

\* ErrConflict means, by its comment, that the sender does not have enough
\* to pay for all its pooled transactions together with the new one (the
\* conflict it replaces not counted): Add never returns it when the pooled
\* transactions of the sender and the new one fit in its balance.
NoSpuriousConflict ==
    [][last' # None /\ last'.err = "ErrConflict" =>
        LET t   == last'.tx
            p   == Tx[t].from
            bal == IF p \in DOMAIN fees THEN fees[p].balance ELSE chain.balance[p]
        IN  \E c \in ConflictCandidates(t) \cup {None} :
                Cost(t) + SumCost(SenderTxs(p))
                    - (IF c = None THEN 0 ELSE Cost(c)) > bal]_vars


\* TryGetData finds the item of every transaction in verifiedMap: the
\* binary search over the slice and the scan over equally prioritised
\* items agree with the order every insertion, eviction, conflict
\* removal and RemoveStale leaves the slice in.
DataRetrievable == \A h \in verifiedMap : TryGetData(h)
=============================================================================
