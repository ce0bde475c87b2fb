\* Names "", a, b, a.b, a. and .; levels WARN (the default)
\* and TRACE; logging systems console (the default) and other.
CONSTANTS
    LoggerNames <- MCLoggerNames
    Levels <- MCLevels
    DefaultLevel = "WARN"
    Systems <- MCSystems
    DefaultSystem = "console"
    NoLevel = NoLevel
    Threads = {}
    NoNode = NoNode
    IsEnabledFor <- MCIsEnabledFor
SPECIFICATION Spec
INVARIANT NoDetachedProxyUse
