------------------------------- MODULE MCSched -------------------------------
(***************************************************************************)
(* Sched on a run queue of four slots.  Every thread but the idle and the  *)
(* boot task may be renamed: none of them is named by the specification.   *)
(***************************************************************************)
EXTENDS Sched, TLC

Symmetry == Permutations(Threads \ {IDLE, BOOT})
=============================================================================
