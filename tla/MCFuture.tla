------------------------------ MODULE MCFuture ------------------------------
(* Model-checking instance of Future.  The threads, values and messages    *)
(* are model values given in MCFuture*.cfg:                                *)
(*   MCFuture.cfg          one resolver calling set or setError once,      *)
(*                         three getters, one of them timed;               *)
(*   MCFuture_timeout.cfg  one resolver calling setError, a timed getter.  *)
EXTENDS Future
=============================================================================
