CONSTANTS
    s = s
    a1 = a1
    a2 = a2
    m = m
    None = None
    Items <- MCItems
    Compound <- MCCompound
    Children <- MCChildren
    MaxStack = 5
SPECIFICATION CombinedSpec
INVARIANTS RefCountExact ParamTypeOK
PROPERTIES ParamRefinesValue
