CONSTANTS
    q1 = q1
    q2 = q2
    q3 = q3
    q4 = q4
    q5 = q5
    q6 = q6
    None = None
    Payloads <- MCPayloads
    maxCap = 3
SPECIFICATION Spec
INVARIANTS TypeOK
PROPERTIES RefinesRecentSet
