\* Six variable names, two values, one setenv/unsetenv, two provideOptions calls.
CONSTANTS
    Names <- MCNames
    Values = {v1, v2}
    Prefix <- MCPrefix
    ToLower <- MCToLower
    MaxChanges = 1
    MaxCalls = 2
SPECIFICATION Spec
INVARIANT TypeOK
 
CHECK_DEADLOCK FALSE
