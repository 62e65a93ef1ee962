---------------------------- MODULE MCTurnAdmission ----------------------------
(* Instances of TurnAdmission for TLC: s1 and s2 share a tenant. *)
EXTENDS TurnAdmission, TLC

CONSTANTS s1, s2, s3, t1, t2

Tenants == [s \in Sessions |-> IF s = s3 THEN t2 ELSE t1]

(* The sessions of one tenant are interchangeable. *)
Symmetry == Permutations({s1, s2})
================================================================================
