------------------------------ MODULE MCWorkerFanIn -----------------------------
(* Three workers with room for two delivery fences, each messaged twice. *)
EXTENDS WorkerFanIn, TLC

Symmetry == Permutations(Children)
================================================================================
