SPECIFICATION Spec
CONSTANTS
    None = None
    Asked = Asked
    Broken = Broken
    desired = desired
    minimum = minimum
    bound = bound
    committed = committed
    changed = changed
    Keys <- MCKeys
    Origin <- MCOrigin
    Values <- MCValues
    Drifting <- MCDrifting
    Period = 2
    Timeout = 1
    PerTick = 2
INVARIANTS Inv EveryKeyAsked
PROPERTY NothingLingers
