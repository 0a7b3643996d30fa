CONSTANTS
    committee = committee
    alice = alice
    bob = bob
    None = None
    Holders <- MCHolders
    Committee = committee
    InitialSupply = 3
    Amounts = {1, 2}
    MaxHeight = 2
SPECIFICATION Spec
CONSTRAINT SupplyBounded
INVARIANTS TypeOK SupplyMatchesBalances
