------------------------------- MODULE MCSession -------------------------------
(* Instances of Session for TLC. *)
EXTENDS Session, TLC

CONSTANTS m1, m2, m3, m4, r1, r2, s1, s2, w1, x1, x2

SignalKinds == [s \in Signals |-> IF s = s1 THEN "NeedsInput" ELSE "Failed"]

(* Reviews and runs are interchangeable; so are the messages without uploads. *)
Symmetry == Permutations(Messages \ Uploads) \cup Permutations(Reviews)
              \cup Permutations(Runs)

(* The same for liveness, where TLC's symmetry is not sound: client ids without
   uploads are used for the first time in the order m1, m2, m3.  Any other behaviour
   is a renaming of one that does so, and nothing but a message is held back. *)
FirstUsedInOrder ==
  \A pair \in {<<m1, m2>>, <<m2, m3>>} :
    Fresh(admissions, pair[2]) /\ ~Fresh(admissions', pair[2])
      => ~Fresh(admissions, pair[1])

================================================================================
