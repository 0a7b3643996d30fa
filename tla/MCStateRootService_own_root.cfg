CONSTANTS
    Roots = {r1, r2}
    None = None
    MaxHeight = 2
    Validators = {1, 2}
    Me = 1
    MaxRetries = 1
    VoteValidEndInc = 1
    MaxRestarts = 1
SPECIFICATION SpecAll
INVARIANTS OwnRootValidated
