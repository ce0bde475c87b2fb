\* Cycle times around the 32-bit limit of cycleTime * 1000000 (2147 ms).
CONSTANTS
    TimeoutTenths = {10}
    CycleTimes = {0, 1, 100, 1000, 2147, 2148, 3000, 5000}
SPECIFICATION Spec
INVARIANT PeriodicSleepsCycleTime
