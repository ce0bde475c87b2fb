------------------------ MODULE MCSynchronizedQueue ------------------------
(* Model-checking instance of SynchronizedQueue: capacity 2 (the test's    *)
(* drop-handler case in small), four pushes so that evictions happen with  *)
(* and without consumers draining, two consumers so that one can take an   *)
(* element another was woken for.                                          *)
EXTENDS SynchronizedQueue
=============================================================================
