------------------------- MODULE ActionReviewSchedule -------------------------
(***************************************************************************)
(* The generation-fenced scheduling index that the Session and the Worker  *)
(* virtual objects each keep for their conversational action reviews:      *)
(* crates/moa-orchestrator/src/action_reviews/scheduling.rs.               *)
(*                                                                         *)
(* A schedule is the record of the three fields of ActionReviewSchedule.   *)
(* The two vectors are sets here: an id occurs at most once in each, and   *)
(* every reader searches by id, by generation or by ordinal.  Every method *)
(* of the source is one operator that returns the new schedule.            *)
(***************************************************************************)
EXTENDS Naturals

EmptySchedule == [nextOrdinal |-> 0, registered |-> {}, queued |-> {}]

IsRegistered(s, review) == \E e \in s.registered : e.review = review

Registration(s, review) == CHOOSE e \in s.registered : e.review = review

(* A second registration of the same id neither counts twice nor moves. *)
Register(s, review, turn, generation) ==
  IF IsRegistered(s, review)
  THEN s
  ELSE [nextOrdinal |-> s.nextOrdinal + 1,
        registered  |-> s.registered \cup {[review     |-> review,
                                            turn       |-> turn,
                                            generation |-> generation,
                                            ordinal    |-> s.nextOrdinal]},
        queued      |-> s.queued]

Resolve(s, review) ==
  [s EXCEPT !.registered = {e \in @ : e.review # review}]

(* Mutant: only the registrations are discarded. *)
DiscardRegisteredBelow(s, generation) ==
  [s EXCEPT !.registered = {e \in @ : e.generation >= generation}]

DiscardBelow(s, generation) ==
  [s EXCEPT !.registered = {e \in @ : e.generation >= generation},
            !.queued     = {e \in @ : e.generation >= generation}]

DiscardAll(s) == [s EXCEPT !.registered = {}, !.queued = {}]

Enqueue(s, entry) ==
  IF \E e \in s.queued : e.review = entry.review
  THEN s
  ELSE [s EXCEPT !.queued = @ \cup {entry}]

(* The continuation take_next would return, as a set of at most one entry:
   the queued one of this generation with the least ordinal, unless an
   unresolved registration of this generation has a smaller ordinal. *)
Eligible(s, generation) ==
  {e \in s.queued :
     /\ e.generation = generation
     /\ \A f \in s.queued : f.generation = generation => e.ordinal <= f.ordinal
     /\ \A f \in s.registered : f.generation = generation => e.ordinal <= f.ordinal}

Dequeue(s, entry) == [s EXCEPT !.queued = @ \ {entry}]
================================================================================
