CONSTANTS
    owner = owner
    alice = alice
    None = None
    Accounts <- MCAccounts
    Owner = owner
    Keys <- MCKeys
    Standby <- MCStandby
    Supply = 2
    CountChoices = {1, 3}
SPECIFICATION Spec
CONSTRAINT VotesBounded
INVARIANTS TypeOK NextValidatorsWellFormed
