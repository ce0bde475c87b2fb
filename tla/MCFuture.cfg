\* One resolver, calling set or setError once, three getters (one timed).
CONSTANTS
    Getters = {g1, g2, g3}
    Timed = {g3}
    Resolvers = {r1}
    ResolveOps = {"set", "setError"}
    Values = {v1, v2}
    Msgs = {m1, m2}
    NoValue = NoValue
    NoMsg = NoMsg
SPECIFICATION Spec
INVARIANT TypeOK
INVARIANT GetReturnsRequested
PROPERTY EveryGetReturns
CHECK_DEADLOCK FALSE
