\* Base Task started twice: waitDone after the first run versus the second run.
CONSTANTS
    Kinds = {"Task"}
    SleepTicks = 0
    MaxStarts = 2
    MaxRestarts = 1
    Waiters = {w1, w2}
    PreFn = PreFn
    PostFn = PostFn
    NoCallback = NoCallback
SPECIFICATION Spec
INVARIANT WaitDoneMeansTerminated
