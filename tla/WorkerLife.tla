------------------------------- MODULE WorkerLife -------------------------------
(***************************************************************************)
(* What a worker promises the Session it reports to, whatever its turns,   *)
(* reviews, questions, deadlines and cancellations do: one report per      *)
(* admission generation, nothing accepted while a report is on its way,    *)
(* no cleanup before the report is acknowledged, and nothing after it.     *)
(*                                                                         *)
(* Module Worker implements it; module WorkerFanIn builds on it.           *)
(***************************************************************************)
EXTENDS Naturals

VARIABLE life   \* [phase, generation] of the worker

LifePhases == {"new", "working", "reporting", "reported", "cleared"}

Unborn == [phase |-> "new", generation |-> 0]

Cleared == [phase |-> "cleared", generation |-> 0]

In(l, phases) == l.phase \in phases

Moved(l, phase) == [phase |-> phase, generation |-> l.generation]

(* A parent message opens the next generation. *)
Messaged(l) == [phase |-> "working", generation |-> l.generation + 1]

Accepts(l) == In(l, {"new", "working", "reported"})

LifeInit == life = Unborn

LifeNext ==
  \/ Accepts(life) /\ life' = Messaged(life)
  \/ In(life, {"working"}) /\ life' = Moved(life, "reporting")
  \/ In(life, {"reporting"}) /\ life' = Moved(life, "reported")
  \/ In(life, {"reporting"}) /\ life' = Moved(life, "working")   \* refused
  \/ In(life, {"reported"}) /\ life' = Cleared

LifeSpec == LifeInit /\ [][LifeNext]_life
================================================================================
