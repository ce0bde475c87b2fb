------------------------------- MODULE Future -------------------------------
(***************************************************************************)
(* rsc::threading::Future<R> (src/src/rsc/threading/Future.h).             *)
(*                                                                         *)
(* One future shared by getter threads, which call get() or get(timeout),  *)
(* and resolver threads, which call set(v) or setError(m) once each.       *)
(* Every critical section of the code under the future's mutex is one      *)
(* step; the writes the code makes outside the mutex (result in set,       *)
(* errorMsg in setError, notify_all in setError) are steps of their own,   *)
(* so other threads can run between them.                                  *)
(*                                                                         *)
(* The runs use one resolver, the usage the class is made for.  A second  *)
(* set or setError, which the code does not refuse, writes result or       *)
(* errorMsg outside the mutex while a getter may read it: a data race,     *)
(* undefined behaviour (a torn value) that is not modelled here.           *)
(***************************************************************************)
EXTENDS FiniteSets

CONSTANTS
    Getters,      \* threads calling get()
    Timed,        \* the getters that call get(timeout) with timeout > 0
    Resolvers,    \* threads calling set(v) or setError(m), once each
    ResolveOps,   \* which of "set", "setError" resolvers may call
    Values,       \* values passed to set
    Msgs,         \* messages passed to setError
    NoValue,      \* the default-constructed R result
    NoMsg         \* the empty errorMsg

ASSUME /\ Timed \subseteq Getters
       /\ ResolveOps \subseteq {"set", "setError"} /\ ResolveOps # {}
       /\ NoValue \notin Values /\ NoMsg \notin Msgs

VARIABLES
    result,        \* Future::result
    taskFinished,  \* Future::taskFinished
    taskError,     \* Future::taskError
    errorMsg,      \* Future::errorMsg
    waitSet,       \* getters blocked in condition.wait / timed_wait
    gpc,           \* getter: "idle" (not yet called), "waiting", "done"
    outcome,       \* what get() returned or threw, per getter
    rpc,           \* resolver's position in set / setError
    requested      \* history: the outcomes set / setError calls asked for

vars == <<result, taskFinished, taskError, errorMsg, waitSet, gpc, outcome,
          rpc, requested>>

(* What get() returns or throws. *)
Val(v) == [kind |-> "value", v |-> v]
Err(m) == [kind |-> "error", v |-> m]
TimedOut == [kind |-> "timeout", v |-> NoValue]
NoOutcome == [kind |-> "none", v |-> NoValue]
Outcomes == {Val(v) : v \in Values \cup {NoValue}} \cup
            {Err(m) : m \in Msgs \cup {NoMsg}} \cup {TimedOut, NoOutcome}

RPCs == {"idle", "setLock", "errLock", "errNotify", "done"}

TypeOK ==
    /\ result \in Values \cup {NoValue}
    /\ taskFinished \in BOOLEAN /\ taskError \in BOOLEAN
    /\ errorMsg \in Msgs \cup {NoMsg}
    /\ waitSet \subseteq Getters
    /\ gpc \in [Getters -> {"idle", "waiting", "done"}]
    /\ outcome \in [Getters -> Outcomes]
    /\ rpc \in [Resolvers -> RPCs]
    /\ requested \subseteq Outcomes

Init ==
    /\ result = NoValue
    /\ taskFinished = FALSE /\ taskError = FALSE
    /\ errorMsg = NoMsg
    /\ waitSet = {}
    /\ gpc = [g \in Getters |-> "idle"]
    /\ outcome = [g \in Getters |-> NoOutcome]
    /\ rpc = [r \in Resolvers |-> "idle"]
    /\ requested = {}

(* A call of set or setError asks for an outcome. *)
Request(o) == requested' = requested \cup {o}

-----------------------------------------------------------------------------
(* get(timeout): the body of `while (!taskFinished)` and what follows it,  *)
(* entered on the call and again each time a wait returns normally.        *)
(* Leaving the loop reads taskError, errorMsg and result under the lock.   *)
(* Mutant: leaving the loop without consulting taskError. *)
CompletionNoErrorCheck == Val(result)

(* Mutant: the error message returned as if it were the result. *)
CompletionErrorAsValue == IF taskError THEN Val(errorMsg) ELSE Val(result)

Completion == IF taskError THEN Err(errorMsg) ELSE Val(result)

GetCheck(g) ==
    /\ \/ gpc[g] = "idle"
       \/ gpc[g] = "waiting" /\ g \notin waitSet
    /\ IF taskFinished
         THEN /\ gpc' = [gpc EXCEPT ![g] = "done"]
              /\ outcome' = [outcome EXCEPT ![g] = Completion]
              /\ UNCHANGED waitSet
         ELSE /\ waitSet' = waitSet \cup {g}
              /\ gpc' = [gpc EXCEPT ![g] = "waiting"]
              /\ UNCHANGED outcome
    /\ UNCHANGED <<result, taskFinished, taskError, errorMsg, rpc, requested>>

(* condition.wait / timed_wait may return without a notify; the loop then  *)
(* re-checks (and timed_wait computes a fresh deadline).                   *)
SpuriousWakeup(g) ==
    /\ gpc[g] = "waiting" /\ g \in waitSet
    /\ waitSet' = waitSet \ {g}
    /\ UNCHANGED <<result, taskFinished, taskError, errorMsg, gpc, outcome,
                   rpc, requested>>

(* timed_wait returns false once the deadline passes while the getter is   *)
(* still waiting; get() throws FutureTimeoutException without re-checking  *)
(* taskFinished.                                                           *)
Timeout(g) ==
    /\ g \in Timed
    /\ gpc[g] = "waiting" /\ g \in waitSet
    /\ waitSet' = waitSet \ {g}
    /\ gpc' = [gpc EXCEPT ![g] = "done"]
    /\ outcome' = [outcome EXCEPT ![g] = TimedOut]
    /\ UNCHANGED <<result, taskFinished, taskError, errorMsg, rpc, requested>>

-----------------------------------------------------------------------------
(* set(data): `result = data` before taking the mutex ...                  *)
SetStore(r, v) ==
    /\ "set" \in ResolveOps
    /\ rpc[r] = "idle"
    /\ result' = v
    /\ rpc' = [rpc EXCEPT ![r] = "setLock"]
    /\ Request(Val(v))
    /\ UNCHANGED <<taskFinished, taskError, errorMsg, waitSet, gpc, outcome>>

(* ... then taskFinished = true and notify_all under the mutex.            *)
SetPublish(r) ==
    /\ rpc[r] = "setLock"
    /\ taskFinished' = TRUE
    /\ waitSet' = {}
    /\ rpc' = [rpc EXCEPT ![r] = "done"]
    /\ UNCHANGED <<result, taskError, errorMsg, gpc, outcome, requested>>

(* setError(message): `errorMsg = message` before taking the mutex ...     *)
SetErrorStore(r, m) ==
    /\ "setError" \in ResolveOps
    /\ rpc[r] = "idle"
    /\ errorMsg' = m
    /\ rpc' = [rpc EXCEPT ![r] = "errLock"]
    /\ Request(Err(m))
    /\ UNCHANGED <<result, taskFinished, taskError, waitSet, gpc, outcome>>

(* ... taskFinished = taskError = true under the mutex ...                 *)
SetErrorPublish(r) ==
    /\ rpc[r] = "errLock"
    /\ taskFinished' = TRUE
    /\ taskError' = TRUE
    /\ rpc' = [rpc EXCEPT ![r] = "errNotify"]
    /\ UNCHANGED <<result, errorMsg, waitSet, gpc, outcome, requested>>

(* Mutant: setError without its trailing notify_all. *)
SetErrorNotifyDropped(r) ==
    /\ rpc[r] = "errNotify"
    /\ rpc' = [rpc EXCEPT ![r] = "done"]
    /\ UNCHANGED <<result, taskFinished, taskError, errorMsg, waitSet, gpc,
                   outcome, requested>>

(* ... and notify_all after the mutex is released.                         *)
SetErrorNotify(r) ==
    /\ rpc[r] = "errNotify"
    /\ waitSet' = {}
    /\ rpc' = [rpc EXCEPT ![r] = "done"]
    /\ UNCHANGED <<result, taskFinished, taskError, errorMsg, gpc, outcome,
                   requested>>

-----------------------------------------------------------------------------
Next ==
    \/ \E g \in Getters : GetCheck(g) \/ SpuriousWakeup(g) \/ Timeout(g)
    \/ \E r \in Resolvers :
          \/ \E v \in Values : SetStore(r, v)
          \/ SetPublish(r)
          \/ \E m \in Msgs : SetErrorStore(r, m)
          \/ SetErrorPublish(r)
          \/ SetErrorNotify(r)

(* A runnable getter is scheduled; a call to set or setError, once made,   *)
(* runs to its end (neither blocks).  A spurious wakeup makes timed_wait   *)
(* start a fresh deadline, so Timeout is strongly fair: a getter that      *)
(* waits again and again eventually sees a deadline pass.  Nothing forces  *)
(* a resolver to call set at all, and spurious wakeups are not guaranteed. *)
Fairness ==
    /\ \A g \in Getters : WF_vars(GetCheck(g)) /\ SF_vars(Timeout(g))
    /\ \A r \in Resolvers : /\ WF_vars(SetPublish(r))
                            /\ WF_vars(SetErrorPublish(r))
                            /\ WF_vars(SetErrorNotify(r))

Spec == Init /\ [][Next]_vars /\ Fairness

-----------------------------------------------------------------------------
(* Every get() that returns or throws FutureTaskExecutionException reports *)
(* what the resolver asked for: the value passed to set, or the message    *)
(* passed to setError, never the default result, an empty message, or a    *)
(* value where an error was set.  set writes result, and setError writes   *)
(* errorMsg, before taking the mutex; getters read them only after seeing  *)
(* taskFinished (and taskError) under the mutex, so the getter must never  *)
(* see the flag without the data it guards.                                *)
GetReturnsRequested ==
    \A g \in Getters : outcome[g] \in {NoOutcome, TimedOut} \cup requested

(* Once the future is resolved, every getter eventually returns from get() *)
(* (no lost wakeup between the flag update and notify_all); a timed getter *)
(* returns even if the future is never resolved.                           *)
EveryGetReturns ==
    \A g \in Getters : (taskFinished \/ g \in Timed) ~> gpc[g] = "done"

(* get(timeout) throws FutureTimeoutException only while the future is     *)
(* unresolved: a timed getter never times out after taskFinished was set.  *)
TimeoutOnlyWhileUnresolved ==
    [][\A g \in Getters :
         (outcome'[g] = TimedOut /\ outcome[g] # TimedOut) => ~taskFinished]_vars
=============================================================================
