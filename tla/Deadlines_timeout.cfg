\* Timeouts of 0.1 s to 3 s in steps of 0.1 s.
CONSTANTS
    TimeoutTenths = {1, 5, 9, 10, 15, 20, 25, 30}
    CycleTimes = {100}
SPECIFICATION Spec
INVARIANT TimedGetWaitsTimeout
