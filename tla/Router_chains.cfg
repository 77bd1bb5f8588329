SPECIFICATION Spec
CONSTANTS
    a = a
    b = b
    c = c
    g = g
    Model <- MCModel
    Backends <- MCBackends
    Groups <- MCGroups
    RecoverTimes <- MCRecoverTimes
    MaxAge = 2
INVARIANTS
    EveryChainIsAppended
