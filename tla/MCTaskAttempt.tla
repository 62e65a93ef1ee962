------------------------------ MODULE MCTaskAttempt ------------------------------
(* Instances of TaskAttempt for TLC. *)
EXTENDS TaskAttempt
================================================================================
