------------------------------ MODULE Deadlines ------------------------------
(***************************************************************************)
(* The wake-up times the threading code computes with boost::xtime, as     *)
(* arithmetic on the C++ types involved.                                   *)
(*                                                                         *)
(*  - Future::get(double timeout) (Future.h) adds the timeout to the       *)
(*    integral xtime::sec field: `xt.sec += timeout` converts the double   *)
(*    sum back to an integer, truncating the fraction of a second.         *)
(*  - PeriodicTask::continueExec (PeriodicTask.h) adds                     *)
(*    `cycleTime * 1000000` to xtime::nsec, where the product is computed  *)
(*    in 32-bit int; the build's multiplication wraps modulo 2^32.         *)
(*                                                                         *)
(* Timeouts are given in tenths of a second, cycle times in milliseconds.  *)
(* A state holds one input of each, chosen in Init; the invariants compare *)
(* the code's wait with the one asked for.                                 *)
(***************************************************************************)
EXTENDS Integers

CONSTANTS
    TimeoutTenths, \* positive get() timeouts, in tenths of a second
    CycleTimes     \* PeriodicTask cycle times, in milliseconds

VARIABLES timeout, cycleTime

(* `xt.sec += timeout` for timeout > 0: the fraction is truncated. *)
FutureDeadlineSec(nowSec, t) == nowSec + t \div 10

(* The time get(timeout) waits before timed_wait reports a timeout, in     *)
(* tenths: the deadline keeps the current nanoseconds, so the wait is the  *)
(* whole seconds added.                                                    *)
FutureWaitTenths(t) == (FutureDeadlineSec(0, t) - 0) * 10

(* cycleTime * 1000000 in 32-bit two's complement.  1000000 = 64 * 15625, *)
(* so the product modulo 2^32 is 64 * ((cycleTime * 15625) mod 2^26),      *)
(* which is negative when that residue is 2^25 or more.                    *)
Int32Product(c) ==
    LET r == (c * 15625) % (2^26)
    IN IF r < 2^25 THEN 64 * r ELSE 64 * (r - 2^26)

(* continueExec sleeps until now + that many nanoseconds; a wake-up time   *)
(* in the past returns at once.  The sleep in whole milliseconds:          *)
PeriodicSleepMs(c) == IF Int32Product(c) <= 0 THEN 0 ELSE Int32Product(c) \div 1000000

Init == timeout \in TimeoutTenths /\ cycleTime \in CycleTimes
Next == UNCHANGED <<timeout, cycleTime>>
Spec == Init /\ [][Next]_<<timeout, cycleTime>>

(* get(timeout) with a positive timeout waits at least `timeout` before it *)
(* throws FutureTimeoutException (spec section 4.2).                       *)
TimedGetWaitsTimeout == FutureWaitTenths(timeout) >= timeout

(* A PeriodicTask sleeps its whole cycle time between cycles.              *)
PeriodicSleepsCycleTime == PeriodicSleepMs(cycleTime) = cycleTime
=============================================================================
