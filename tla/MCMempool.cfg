CONSTANTS
    a1 = a1
    a2 = a2
    b1 = b1
    b2 = b2
    b3 = b3
    s1 = s1
    s2 = s2
    None = None
    Txs <- MCTxs
    Senders <- MCSenders
    Tx <- MCTx
    InitBalance <- MCInitBalance
    BalanceChoices <- MCBalanceChoices
    PolicyChoices = {0, 1}
    Capacity = 2
    MaxHeight = 2
SPECIFICATION Spec
CONSTRAINT FeeSumBound
INVARIANTS TypeOK PoolConsistent Sorted DataRetrievable
PROPERTIES AddFailureKeepsTxs
