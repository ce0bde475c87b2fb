\* setError publishes taskFinished under the mutex and notifies after
\* releasing it: a timed getter's deadline can pass in between.
CONSTANTS
    Getters = {g1}
    Timed = {g1}
    Resolvers = {r1}
    ResolveOps = {"setError"}
    Values = {v1}
    Msgs = {m1}
    NoValue = NoValue
    NoMsg = NoMsg
SPECIFICATION Spec
PROPERTY TimeoutOnlyWhileUnresolved
CHECK_DEADLOCK FALSE
