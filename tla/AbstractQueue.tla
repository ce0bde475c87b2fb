--------------------------- MODULE AbstractQueue ---------------------------
(***************************************************************************)
(* What BoundedBlockingQueue promises (spec section 4.1), with every        *)
(* operation atomic: a push appends and evicts the oldest elements beyond  *)
(* the capacity, a take removes the head, interruption is a one-way flag,  *)
(* and no element is taken once the queue is interrupted and empty.       *)
(* Elements are the numbers 1, 2, ... in push order.                       *)
(***************************************************************************)
EXTENDS Naturals, Sequences

CONSTANTS Capacity   \* 0 stands for "no capacity set"

VARIABLES
    q,           \* the elements in the queue, oldest first
    interrupted, \* the interrupted flag
    delivered,   \* elements handed to consumers, in the order taken
    dropped      \* elements passed to the eviction callback, in order

avars == <<q, interrupted, delivered, dropped>>

Pushed == Len(delivered) + Len(dropped) + Len(q)

AInit == q = <<>> /\ interrupted = FALSE /\ delivered = <<>> /\ dropped = <<>>

(* Append element Pushed + 1, first evicting from the head down to         *)
(* Capacity - 1 elements when a capacity is set.                           *)
APush ==
    LET k == IF Capacity > 0 /\ Len(q) >= Capacity THEN Len(q) - Capacity + 1 ELSE 0
    IN /\ q' = Append(SubSeq(q, k + 1, Len(q)), Pushed + 1)
       /\ dropped' = dropped \o SubSeq(q, 1, k)
       /\ UNCHANGED <<interrupted, delivered>>

ATake ==
    /\ q # <<>>
    /\ delivered' = Append(delivered, Head(q))
    /\ q' = Tail(q)
    /\ UNCHANGED <<interrupted, dropped>>

AInterrupt == interrupted' = TRUE /\ UNCHANGED <<q, delivered, dropped>>

ANext == APush \/ ATake \/ AInterrupt

ASpec == AInit /\ [][ANext]_avars
=============================================================================
