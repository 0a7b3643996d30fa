----------------------------- MODULE MCMempool -----------------------------
(* Two senders and five transactions.  a1 and a2 of s1 share the gas price *)
(* and differ in gas; b1 and b2 of s2 share a nonce, so b2 replaces b1;    *)
(* b3 ties b1 in price and gas and is ordered by its hash.  b1 and b3 have *)
(* a fee per byte of 0 and fail a policy of 1.                             *)
EXTENDS Mempool

CONSTANTS a1, a2, b1, b2, b3, s1, s2

MCTxs == {a1, a2, b1, b2, b3}

MCSenders == {s1, s2}

MCTx ==
    (a1 :> [from |-> s1, nonce |-> 0, price |-> 3, gas |-> 1, value |-> 0, size |-> 1, hash |-> 1]) @@
    (a2 :> [from |-> s1, nonce |-> 1, price |-> 3, gas |-> 2, value |-> 0, size |-> 1, hash |-> 2]) @@
    (b1 :> [from |-> s2, nonce |-> 0, price |-> 1, gas |-> 1, value |-> 0, size |-> 2, hash |-> 3]) @@
    (b2 :> [from |-> s2, nonce |-> 0, price |-> 2, gas |-> 1, value |-> 0, size |-> 1, hash |-> 4]) @@
    (b3 :> [from |-> s2, nonce |-> 1, price |-> 1, gas |-> 1, value |-> 0, size |-> 2, hash |-> 5])

MCInitBalance == (s1 :> 9) @@ (s2 :> 2)

MCBalanceChoices == {2, 9}

\* Fee sums stray from the pooled costs through the shallow big.Int copy in
\* checkTxConflicts and can be driven down without end by repeated Verify
\* calls; exploration stops at a named bound on their magnitude.
FeeBound == 6

FeeSumBound == \A p \in DOMAIN fees : fees[p].feeSum \in -FeeBound .. FeeBound
=============================================================================
