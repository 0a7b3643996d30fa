CONSTANTS
    N = 4
    Byz = {1}
    b1 = b1
    b2 = b2
    t1 = t1
    Blocks <- MCBlocks
    ValidBlocks <- MCBlocks
    Txs = {}
    ByzPayloads <- ByzEquivocate
    MaxView = 0
    MaxHeight = 1
    MaxRecoveries = 1
    MaxChangeViews = 0
    None = None
SPECIFICATION Spec
CONSTRAINT RecoveryBound ViewBound ChangeViewBound
INVARIANTS
    Agreement
    BlockWitnessValid
    PreparationCoherent
