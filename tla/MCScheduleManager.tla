--------------------------- MODULE MCScheduleManager ---------------------------
(* ScheduleManager for TLC: configs and request threads are interchangeable. *)
EXTENDS ScheduleManager, TLC

Symmetry == Permutations(Configs) \union Permutations(Threads)
=============================================================================
