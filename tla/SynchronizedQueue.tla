------------------------- MODULE SynchronizedQueue -------------------------
(***************************************************************************)
(* rsc::threading::SynchronizedQueue<T>, the BoundedBlockingQueue of the   *)
(* spec (section 4.1).  Its header is not part of the sources at hand, so  *)
(* this module follows the spec and the behaviour its test                 *)
(* (src/test/rsc/threading/SynchronizedQueueTest.cpp) pins down.           *)
(*                                                                         *)
(* A producer pushes the elements 1..MaxPushes; consumer threads call      *)
(* pop() or tryPop() in a loop until pop() throws InterruptedException; a  *)
(* client interrupts the queue.  Every operation runs under the queue's    *)
(* lock, so it is one step, except that pop() releases the lock while it   *)
(* waits on the condition and re-checks when woken, and push() holds the   *)
(* lock through a loop that evicts one element and calls the drop handler  *)
(* per pass, so each eviction is a step of its own.                        *)
(***************************************************************************)
EXTENDS Naturals, Sequences

CONSTANTS
    Capacity,   \* the size limit; 0 stands for none
    MaxPushes,  \* bound on push() calls
    Consumers   \* threads calling pop() / tryPop()

ASSUME Capacity \in Nat /\ MaxPushes \in Nat /\ Consumers # {}

VARIABLES
    queue,       \* the elements, oldest first
    interrupted, \* the interrupted flag
    waitSet,     \* consumers blocked on the condition in pop()
    cpc,         \* consumer: "idle" (between calls), "waiting", "done"
    delivered,   \* history: elements returned by pop/tryPop, in lock order
    dropped,     \* history: elements passed to the drop handler, in order
    ppc,         \* producer: "idle", or "evicting" inside push with the lock
    evictFrom    \* Len(dropped) when the current push took the lock

vars == <<queue, interrupted, waitSet, cpc, delivered, dropped, ppc, evictFrom>>

(* No push() holds the lock. *)
Unlocked == ppc = "idle"

Pushed == Len(delivered) + Len(dropped) + Len(queue)

TypeOK ==
    /\ queue \in Seq(1..MaxPushes)
    /\ interrupted \in BOOLEAN
    /\ waitSet \subseteq Consumers
    /\ cpc \in [Consumers -> {"idle", "waiting", "done"}]
    /\ delivered \in Seq(1..MaxPushes) /\ dropped \in Seq(1..MaxPushes)
    /\ ppc \in {"idle", "evicting"} /\ evictFrom \in 0..MaxPushes

Init ==
    /\ queue = <<>> /\ interrupted = FALSE /\ waitSet = {}
    /\ cpc = [c \in Consumers |-> "idle"]
    /\ delivered = <<>> /\ dropped = <<>>
    /\ ppc = "idle" /\ evictFrom = 0

-----------------------------------------------------------------------------
(* Mutant: the eviction loop running while the size exceeds the capacity. *)
FullOffByOne == Capacity > 0 /\ Len(queue) > Capacity

(* The eviction loop's condition: a capacity is set and reached. *)
Full == Capacity > 0 /\ Len(queue) >= Capacity

(* Mutant: push() without its notify_one. *)
NotifyNone == UNCHANGED waitSet

(* notify_one: one blocked consumer, if any, leaves the wait set. *)
NotifyOne ==
    IF waitSet = {} THEN UNCHANGED waitSet
    ELSE \E c \in waitSet : waitSet' = waitSet \ {c}

(* push(element) takes the lock. *)
PushLock ==
    /\ Unlocked /\ Pushed < MaxPushes
    /\ ppc' = "evicting" /\ evictFrom' = Len(dropped)
    /\ UNCHANGED <<queue, interrupted, waitSet, cpc, delivered, dropped>>

(* One pass of the eviction loop: the head goes to the drop handler. *)
Evict ==
    /\ ppc = "evicting" /\ Full
    /\ dropped' = Append(dropped, Head(queue))
    /\ queue' = Tail(queue)
    /\ UNCHANGED <<interrupted, waitSet, cpc, delivered, ppc, evictFrom>>

(* Mutant: push() numbering its elements from 0. *)
PushAppendZeroBased ==
    /\ ppc = "evicting" /\ ~Full
    /\ queue' = Append(queue, Pushed)
    /\ NotifyOne
    /\ ppc' = "idle"
    /\ UNCHANGED <<interrupted, cpc, delivered, dropped, evictFrom>>

(* The loop ends: append the element, wake one consumer, unlock. *)
PushAppend ==
    /\ ppc = "evicting" /\ ~Full
    /\ queue' = Append(queue, Pushed + 1)
    /\ NotifyOne
    /\ ppc' = "idle"
    /\ UNCHANGED <<interrupted, cpc, delivered, dropped, evictFrom>>

(* pop(): one pass of its wait loop, on the call and after each wakeup.    *)
(* An interrupted queue throws InterruptedException whatever it holds;     *)
(* otherwise the head is returned, or the consumer waits.                  *)
Pop(c) ==
    /\ Unlocked
    /\ \/ cpc[c] = "idle"
       \/ cpc[c] = "waiting" /\ c \notin waitSet
    /\ \/ /\ interrupted
          /\ cpc' = [cpc EXCEPT ![c] = "done"]
          /\ UNCHANGED <<queue, delivered, waitSet>>
       \/ /\ ~interrupted /\ queue # <<>>
          /\ delivered' = Append(delivered, Head(queue))
          /\ queue' = Tail(queue)
          /\ cpc' = [cpc EXCEPT ![c] = "idle"]
          /\ UNCHANGED waitSet
       \/ /\ ~interrupted /\ queue = <<>>
          /\ waitSet' = waitSet \cup {c}
          /\ cpc' = [cpc EXCEPT ![c] = "waiting"]
          /\ UNCHANGED <<queue, delivered>>
    /\ UNCHANGED <<interrupted, dropped, ppc, evictFrom>>

(* A wait on the condition may return without a notify. *)
SpuriousWakeup(c) ==
    /\ cpc[c] = "waiting" /\ c \in waitSet
    /\ waitSet' = waitSet \ {c}
    /\ UNCHANGED <<queue, interrupted, cpc, delivered, dropped, ppc, evictFrom>>

(* tryPop(): the head, or QueueEmptyException; interruption is ignored.   *)
TryPop(c) ==
    /\ Unlocked /\ cpc[c] = "idle"
    /\ queue # <<>>
    /\ delivered' = Append(delivered, Head(queue))
    /\ queue' = Tail(queue)
    /\ UNCHANGED <<interrupted, waitSet, cpc, dropped, ppc, evictFrom>>

(* Mutant: interrupt() setting the flag without notify_all. *)
InterruptNoNotify ==
    /\ Unlocked
    /\ interrupted' = TRUE
    /\ UNCHANGED <<queue, waitSet, cpc, delivered, dropped, ppc, evictFrom>>

(* interrupt(): set the flag and wake every blocked consumer. *)
Interrupt ==
    /\ Unlocked
    /\ interrupted' = TRUE
    /\ waitSet' = {}
    /\ UNCHANGED <<queue, cpc, delivered, dropped, ppc, evictFrom>>

-----------------------------------------------------------------------------
Next ==
    \/ PushLock \/ Evict \/ PushAppend
    \/ Interrupt
    \/ \E c \in Consumers : Pop(c) \/ TryPop(c) \/ SpuriousWakeup(c)

(* A consumer thread that is runnable gets scheduled: it keeps calling pop *)
(* (it may call tryPop in between).  A push, once it holds the lock, runs  *)
(* to its end: neither the loop nor the append blocks (the drop handler is *)
(* assumed to return).  The producer and the interrupting client are not   *)
(* obliged to call at all.                                                 *)
Spec == /\ Init /\ [][Next]_vars
        /\ \A c \in Consumers : WF_vars(Pop(c))
        /\ WF_vars(Evict) /\ WF_vars(PushAppend)

-----------------------------------------------------------------------------
(* The queue refines the atomic queue of the spec: elements leave in push  *)
(* order, the eviction loop takes the oldest ones and leaves exactly       *)
(* Capacity - 1 before the append (the test's capacity-2 case: pushing     *)
(* 0..4 drops 0, 1, 2 and keeps 3, 4), nothing is lost or handed out       *)
(* twice.  While a push is inside its loop, the abstract queue is still    *)
(* the queue before the push: the elements the loop already dropped are    *)
(* put back at its head.  Lock taking, each eviction and a consumer's      *)
(* waiting and waking are stuttering steps; the append is the abstract     *)
(* push.                                                                   *)
Evicted == SubSeq(dropped, evictFrom + 1, Len(dropped))

AQ == INSTANCE AbstractQueue
        WITH q <- IF ppc = "evicting" THEN Evicted \o queue ELSE queue,
             interrupted <- interrupted,
             delivered <- delivered,
             dropped <- IF ppc = "evicting" THEN SubSeq(dropped, 1, evictFrom)
                        ELSE dropped
RefinesAbstractQueue == AQ!ASpec

(* No element is stranded: it never happens that the queue holds an        *)
(* element while a consumer stays blocked forever (a lost notify).         *)
NoStrandedElement == []<>(queue = <<>> \/ waitSet = {})

(* After interrupt(), every consumer, blocked or not, eventually leaves    *)
(* pop() with InterruptedException.                                        *)
InterruptReleasesAll == interrupted ~> \A c \in Consumers : cpc[c] = "done"
=============================================================================
