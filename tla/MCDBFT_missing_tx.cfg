CONSTANTS
    N = 4
    Byz = {1}
    b1 = b1
    b2 = b2
    t1 = t1
    Blocks <- MCBlocks
    ValidBlocks <- MCValid
    Txs <- MCTxs
    ByzPayloads <- ByzSilent
    MaxView = 1
    MaxHeight = 1
    MaxRecoveries = 1
    MaxChangeViews = 4
    None = None
SPECIFICATION Spec
CONSTRAINT RecoveryBound ViewBound ChangeViewBound
INVARIANTS
    TypeOK
    ResponseWithAllTransactions
PROPERTIES
    CommitLock
