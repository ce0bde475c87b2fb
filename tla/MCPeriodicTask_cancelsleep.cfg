\* PeriodicTask with a two-tick sleep: does cancel() cut a sleep short?
CONSTANTS
    Kinds = {"PeriodicTask"}
    SleepTicks = 2
    MaxStarts = 1
    MaxRestarts = 1
    Waiters = {w1, w2}
    PreFn = PreFn
    PostFn = PostFn
    NoCallback = NoCallback
SPECIFICATION Spec
PROPERTY CancelCutsSleep
