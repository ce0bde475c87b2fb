------------------------------- MODULE MCTask -------------------------------
(* Model-checking instance of Task.  MCTask.cfg checks the base Task       *)
(* (single execution), MCPeriodicTask.cfg the PeriodicTask with a cycle of *)
(* two ticks, MCPeriodicTask_nosleep.cfg one with cycleTime 0; the         *)
(* violation runs start a task twice, register a post callback, and cancel *)
(* a sleeping PeriodicTask.                                                *)
EXTENDS Task
=============================================================================
