-------------------------------- MODULE Task --------------------------------
(***************************************************************************)
(* rsc::threading::Task<R> (src/src/rsc/threading/Task.h) and its          *)
(* PeriodicTask<R> variant (src/src/rsc/threading/PeriodicTask.h).         *)
(*                                                                         *)
(* A client configures the task, starts it (each start() spawns a worker   *)
(* thread executing run()), cancels and restarts it; waiter threads call   *)
(* waitDone().  A worker runs the cycle pre hook, delegate, post hook,     *)
(* continueExec(); a PeriodicTask uses PeriodicTask::continueExec, which *)
(* sleeps SleepTicks ticks (0 stands for cycleTime == 0) and then reads    *)
(* cancelRequest.  cancelRequest is a volatile bool read and written       *)
(* without the mutex: each read sees the last write, in some interleaving. *)
(***************************************************************************)
EXTENDS Naturals, SequencesExt

CONSTANTS
    Kinds,        \* which of "Task", "PeriodicTask" the object may be
    SleepTicks,   \* the cycle time in ticks of the model's clock
    MaxStarts,    \* bound on start() calls
    MaxRestarts,  \* bound on restart() calls
    Waiters,      \* threads calling waitDone()
    PreFn, PostFn, NoCallback  \* the callbacks a client registers; none

ASSUME /\ Kinds \subseteq {"Task", "PeriodicTask"} /\ Kinds # {}
       /\ SleepTicks \in Nat /\ MaxStarts \in Nat \ {0} /\ MaxRestarts \in Nat

Workers == 1..MaxStarts
Callbacks == {PreFn, PostFn, NoCallback}
WPCs == {"unstarted", "pre", "delegate", "post", "cont", "sleep", "finish",
         "done"}

VARIABLES
    kind,           \* the object's dynamic type
    cancelRequest,  \* Task::cancelRequest
    cancelled,      \* Task::cancelled, the "terminated" flag
    pre, post,      \* Task::pre, Task::post
    starts,         \* start() calls so far; worker i is the i-th thread
    restarts,       \* restart() calls so far
    wpc,            \* each worker's position in run()
    sleepLeft,      \* ticks left of each worker's sleep in continueExec
    calls,          \* history: what each worker invoked in its current cycle
    waitSet,        \* waiters blocked in c.wait(lock)
    wtpc,           \* each waiter: "idle", "waiting", "done"
    runsAfterCancel \* history: delegate runs begun since cancel() (max 2)

vars == <<kind, cancelRequest, cancelled, pre, post, starts, restarts, wpc,
          sleepLeft, calls, waitSet, wtpc, runsAfterCancel>>
workerVars == <<wpc, sleepLeft, calls>>

(* The object is a PeriodicTask<R> rather than a plain Task<R>. *)
Periodic == kind = "PeriodicTask"

TypeOK ==
    /\ kind \in Kinds
    /\ cancelRequest \in BOOLEAN /\ cancelled \in BOOLEAN
    /\ pre \in Callbacks /\ post \in Callbacks
    /\ starts \in 0..MaxStarts /\ restarts \in 0..MaxRestarts
    /\ wpc \in [Workers -> WPCs]
    /\ sleepLeft \in [Workers -> 0..SleepTicks]
    /\ calls \in [Workers -> Seq({PreFn, PostFn, "delegate"})]
    /\ waitSet \subseteq Waiters
    /\ wtpc \in [Waiters -> {"idle", "waiting", "done"}]
    /\ runsAfterCancel \in 0..2

Init ==
    /\ kind \in Kinds
    /\ cancelRequest = FALSE /\ cancelled = FALSE
    /\ pre = NoCallback /\ post = NoCallback
    /\ starts = 0 /\ restarts = 0
    /\ wpc = [i \in Workers |-> "unstarted"]
    /\ sleepLeft = [i \in Workers |-> 0]
    /\ calls = [i \in Workers |-> <<>>]
    /\ waitSet = {} /\ wtpc = [w \in Waiters |-> "idle"]
    /\ runsAfterCancel = 0

-----------------------------------------------------------------------------
(* Client operations.  The callbacks are plain members written without the *)
(* mutex, so they are set before the first start().                       *)
SetPreCallback ==
    /\ starts = 0
    /\ pre' = PreFn
    /\ UNCHANGED <<kind, cancelRequest, cancelled, post, starts, restarts,
                   waitSet, wtpc, runsAfterCancel, workerVars>>

(* Task.h:94-96 assigns the post callback to `pre`. *)
SetPostCallback ==
    /\ starts = 0
    /\ pre' = PostFn
    /\ UNCHANGED <<kind, cancelRequest, cancelled, post, starts, restarts,
                   waitSet, wtpc, runsAfterCancel, workerVars>>

(* start() spawns a thread running run(); run() enters its do-loop. *)
Start ==
    /\ starts < MaxStarts
    /\ starts' = starts + 1
    /\ wpc' = [wpc EXCEPT ![starts + 1] = "pre"]
    /\ UNCHANGED <<kind, cancelRequest, cancelled, pre, post, restarts,
                   sleepLeft, calls, waitSet, wtpc, runsAfterCancel>>

(* cancel() (PeriodicTask::cancel forwards to Task::cancel). *)
Cancel ==
    /\ cancelRequest' = TRUE
    /\ UNCHANGED <<kind, cancelled, pre, post, starts, restarts, waitSet, wtpc,
                   runsAfterCancel, workerVars>>

(* restart() clears cancelRequest and nothing else. *)
Restart ==
    /\ restarts < MaxRestarts
    /\ restarts' = restarts + 1
    /\ cancelRequest' = FALSE
    /\ runsAfterCancel' = 0
    /\ UNCHANGED <<kind, cancelled, pre, post, starts, waitSet, wtpc,
                   workerVars>>

(* Mutant: waitDone() testing `cancelled` with `if` instead of `while`. *)
WaitDoneNoLoop(w) ==
    /\ \/ /\ wtpc[w] = "idle"
          /\ IF cancelled
               THEN wtpc' = [wtpc EXCEPT ![w] = "done"] /\ UNCHANGED waitSet
               ELSE /\ waitSet' = waitSet \cup {w}
                    /\ wtpc' = [wtpc EXCEPT ![w] = "waiting"]
       \/ /\ wtpc[w] = "waiting" /\ w \notin waitSet
          /\ wtpc' = [wtpc EXCEPT ![w] = "done"] /\ UNCHANGED waitSet
    /\ UNCHANGED <<kind, cancelRequest, cancelled, pre, post, starts, restarts,
                   runsAfterCancel, workerVars>>

(* waitDone(): under the mutex, `while (!cancelled) c.wait(lock)`; one step *)
(* per test of the loop condition.                                         *)
WaitDone(w) ==
    /\ \/ wtpc[w] = "idle"
       \/ wtpc[w] = "waiting" /\ w \notin waitSet
    /\ IF cancelled
         THEN wtpc' = [wtpc EXCEPT ![w] = "done"] /\ UNCHANGED waitSet
         ELSE /\ waitSet' = waitSet \cup {w}
              /\ wtpc' = [wtpc EXCEPT ![w] = "waiting"]
    /\ UNCHANGED <<kind, cancelRequest, cancelled, pre, post, starts, restarts,
                   runsAfterCancel, workerVars>>

(* boost::condition::wait may return without a notify. *)
SpuriousWakeup(w) ==
    /\ wtpc[w] = "waiting" /\ w \in waitSet
    /\ waitSet' = waitSet \ {w}
    /\ UNCHANGED <<kind, cancelRequest, cancelled, pre, post, starts, restarts,
                   wtpc, runsAfterCancel, workerVars>>

-----------------------------------------------------------------------------
(* Worker i executing run(). *)
Invoke(i, f) == IF f = NoCallback THEN calls[i] ELSE Append(calls[i], f)

(* `if (pre) pre();` opens a cycle. *)
PreHook(i) ==
    /\ wpc[i] = "pre"
    /\ wpc' = [wpc EXCEPT ![i] = "delegate"]
    /\ calls' = [calls EXCEPT ![i] = IF pre = NoCallback THEN <<>> ELSE <<pre>>]
    /\ UNCHANGED <<kind, cancelRequest, cancelled, pre, post, starts, restarts,
                   sleepLeft, waitSet, wtpc, runsAfterCancel>>

(* `d(this)`: the delegate may itself call cancel() on the task. *)
Delegate(i) ==
    /\ wpc[i] = "delegate"
    /\ wpc' = [wpc EXCEPT ![i] = "post"]
    /\ calls' = [calls EXCEPT ![i] = Append(@, "delegate")]
    /\ runsAfterCancel' = IF cancelRequest /\ runsAfterCancel < 2
                            THEN runsAfterCancel + 1 ELSE runsAfterCancel
    /\ \E selfCancel \in BOOLEAN :
           cancelRequest' = (cancelRequest \/ selfCancel)
    /\ UNCHANGED <<kind, cancelled, pre, post, starts, restarts, sleepLeft,
                   waitSet, wtpc>>

(* `if (post) post();` *)
PostHook(i) ==
    /\ wpc[i] = "post"
    /\ wpc' = [wpc EXCEPT ![i] = "cont"]
    /\ calls' = [calls EXCEPT ![i] = Invoke(i, post)]
    /\ UNCHANGED <<kind, cancelRequest, cancelled, pre, post, starts, restarts,
                   sleepLeft, waitSet, wtpc, runsAfterCancel>>

(* PeriodicTask::continueExec after its sleep: continue unless cancelled.  *)
(* Mutant: the cancelRequest test dropped.                                 *)
PeriodicDecisionIgnoringCancel == "pre"

PeriodicDecision == IF cancelRequest THEN "finish" ELSE "pre"

(* `while (continueExec())`: Task::continueExec returns false;             *)
(* PeriodicTask::continueExec sleeps when cycleTime != 0, then decides.    *)
ContinueExec(i) ==
    /\ wpc[i] = "cont"
    /\ IF ~Periodic
         THEN wpc' = [wpc EXCEPT ![i] = "finish"] /\ UNCHANGED sleepLeft
       ELSE IF SleepTicks # 0
         THEN /\ wpc' = [wpc EXCEPT ![i] = "sleep"]
              /\ sleepLeft' = [sleepLeft EXCEPT ![i] = SleepTicks]
       ELSE wpc' = [wpc EXCEPT ![i] = PeriodicDecision] /\ UNCHANGED sleepLeft
    /\ UNCHANGED <<kind, cancelRequest, cancelled, pre, post, starts, restarts,
                   calls, waitSet, wtpc, runsAfterCancel>>

(* Mutant: the clock ticking past the wake-up time. *)
SleepTickUnguarded(i) ==
    /\ wpc[i] = "sleep"
    /\ sleepLeft' = [sleepLeft EXCEPT ![i] = @ - 1]
    /\ UNCHANGED <<kind, cancelRequest, cancelled, pre, post, starts, restarts,
                   wpc, calls, waitSet, wtpc, runsAfterCancel>>

(* boost::thread::sleep until the computed wake-up time: one tick passes. *)
SleepTick(i) ==
    /\ wpc[i] = "sleep" /\ sleepLeft[i] > 0
    /\ sleepLeft' = [sleepLeft EXCEPT ![i] = @ - 1]
    /\ UNCHANGED <<kind, cancelRequest, cancelled, pre, post, starts, restarts,
                   wpc, calls, waitSet, wtpc, runsAfterCancel>>

(* The thread wakes up and reads cancelRequest. *)
Wake(i) ==
    /\ wpc[i] = "sleep" /\ sleepLeft[i] = 0
    /\ wpc' = [wpc EXCEPT ![i] = PeriodicDecision]
    /\ UNCHANGED <<kind, cancelRequest, cancelled, pre, post, starts, restarts,
                   sleepLeft, calls, waitSet, wtpc, runsAfterCancel>>

(* Mutant: run() ends without c.notify_all(). *)
FinishNoNotify(i) ==
    /\ wpc[i] = "finish"
    /\ cancelled' = TRUE
    /\ wpc' = [wpc EXCEPT ![i] = "done"]
    /\ UNCHANGED <<kind, cancelRequest, pre, post, starts, restarts, sleepLeft,
                   calls, waitSet, wtpc, runsAfterCancel>>

(* After the loop, under the mutex: cancelled = true; c.notify_all(). *)
Finish(i) ==
    /\ wpc[i] = "finish"
    /\ cancelled' = TRUE
    /\ waitSet' = {}
    /\ wpc' = [wpc EXCEPT ![i] = "done"]
    /\ UNCHANGED <<kind, cancelRequest, pre, post, starts, restarts, sleepLeft,
                   calls, wtpc, runsAfterCancel>>

-----------------------------------------------------------------------------
Client == SetPreCallback \/ SetPostCallback \/ Start \/ Cancel \/ Restart

Worker(i) == PreHook(i) \/ Delegate(i) \/ PostHook(i) \/ ContinueExec(i)
             \/ SleepTick(i) \/ Wake(i) \/ Finish(i)

Next ==
    \/ Client
    \/ \E i \in Workers : Worker(i)
    \/ \E w \in Waiters : WaitDone(w) \/ SpuriousWakeup(w)

(* Every worker thread is scheduled and its sleep's clock runs; a waiter   *)
(* woken by notify_all runs.  The client is not obliged to do anything.    *)
Fairness ==
    /\ \A i \in Workers : WF_vars(Worker(i))
    /\ \A w \in Waiters : WF_vars(WaitDone(w))

Spec == Init /\ [][Next]_vars /\ Fairness

-----------------------------------------------------------------------------
Running(i) == wpc[i] \notin {"unstarted", "done"}

(* waitDone() returns only once no worker of the task is still inside      *)
(* run(): the delegate is never executing after a waiter was released.     *)
WaitDoneMeansTerminated ==
    \A w \in Waiters : wtpc[w] = "done" => \A i \in Workers : ~Running(i)

(* After cancel() (and no restart()), at most one delegate execution       *)
(* begins: the one of a cycle that started before continueExec read the   *)
(* request.                                                                *)
AtMostOneRunAfterCancel == runsAfterCancel <= 1

(* If the task is started and, for a periodic task, the cancel request     *)
(* eventually stays set, every waiter's waitDone() eventually returns.     *)
WaitersReturn ==
    (<>(starts > 0) /\ (Periodic => <>[]cancelRequest))
        => <>(\A w \in Waiters : wtpc[w] = "done")

(* A cancel request stops a PeriodicTask's sleep: no tick of the sleep     *)
(* passes while cancelRequest is set.                                      *)
CancelCutsSleep ==
    [][\A i \in Workers : sleepLeft'[i] < sleepLeft[i] => ~cancelRequest]_vars
=============================================================================
