\* Task and PeriodicTask (two-tick sleep): one start, one restart, two waiters.
CONSTANTS
    Kinds = {"Task", "PeriodicTask"}
    SleepTicks = 2
    MaxStarts = 1
    MaxRestarts = 1
    Waiters = {w1, w2}
    PreFn = PreFn
    PostFn = PostFn
    NoCallback = NoCallback
SPECIFICATION Spec
INVARIANT TypeOK
INVARIANT WaitDoneMeansTerminated
INVARIANT AtMostOneRunAfterCancel
PROPERTY WaitersReturn
