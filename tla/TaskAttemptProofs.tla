---------------------------- MODULE TaskAttemptProofs ----------------------------
(***************************************************************************)
(* The attempts of a task, for any number of attempts, tries and           *)
(* controller generations, with and without pause and cancellation.        *)
(***************************************************************************)
EXTENDS TaskAttempt, FiniteSetTheorems, TLAPS

RunRecord == [generation : 1..MaxGeneration,
              status : {"live", "pausing", "paused", "ended"},
              terminal : BOOLEAN, active : Nat,
              activation : {"queued", "idle", "paused"}]

TaskRecord == [phase : Phases, generation : Nat \ {0}, tries : Nat]

AttemptRecord == [controller : 0..MaxGeneration,
                  capacity : {"none", "reserved", "reconciling", "released"},
                  watchdog : {"none", "pending", "superseded"},
                  worker : {"none", "sent", "working", "claimed", "freed", "done", "failed"},
                  exit : Exits \cup {"none"},
                  guard : {"idle", "lost", "expired", "claimed", "failed"}]

TypeOK ==
  /\ run \in RunRecord
  /\ task \in TaskRecord
  /\ attempts \in [Attempts -> AttemptRecord]
  /\ cancels \subseteq Cancellations

--------------------------------------------------------------------------------
(* The parts of the inductive invariant.                                        *)

(* The dispatched attempt is one that was admitted. *)
ActiveIsAdmitted == task.phase \in ActivePhases => task.generation \in Attempts

(* The counter of active tasks. It counts the dispatched attempt, except that a
   terminal drain may have recounted after its capacity was returned. *)
ActiveIsCounted ==
  /\ task.phase \notin ActivePhases => run.active = 0
  /\ task.phase \in ActivePhases =>
       /\ run.active \in {0, 1}
       /\ ~run.terminal \/ Held(task.generation) => run.active = 1

(* Paused and ended are statuses of a run whose work is drained and finished. *)
StatusIsDrained ==
  /\ run.status = "paused" => run.active = 0
  /\ run.status = "ended" => task.phase \in FinishedPhases

(* The rows of an attempt that is not yet admitted are empty. *)
RowsAreAdmitted ==
  \A a \in Attempts : attempts[a].capacity # "none" =>
    \/ a < task.generation
    \/ a = task.generation /\ task.phase # "ready"

(* Capacity is freed for an outcome. *)
FreedHasOutcome ==
  \A a \in Attempts : attempts[a].worker = "freed" => attempts[a].exit \in Outcomes

AttemptInv ==
  /\ TypeOK
  /\ CapacityFollowsAttempt
  /\ ActiveIsAdmitted
  /\ ActiveIsCounted
  /\ StatusIsDrained
  /\ FinishedIsWoken
  /\ RowsAreAdmitted
  /\ FreedHasOutcome

--------------------------------------------------------------------------------
(* What the updates of the rows do.                                             *)

(* A task that leaves the active statuses takes one off the counter, and a pause
   ends with the last one. *)
LEMMA LessActiveFacts ==
  ASSUME NEW r \in RunRecord, r.active > 0
  PROVE  /\ LessActive(r) \in RunRecord
         /\ LessActive(r).active = r.active - 1
         /\ LessActive(r).terminal = r.terminal
         /\ LessActive(r).status = "paused" => r.status = "paused" \/ r.active = 1
         /\ LessActive(r).status = "ended" => r.status = "ended"
<1>1. Counted(r) \in RunRecord /\ Counted(r).active = r.active
      /\ Counted(r).terminal = r.terminal /\ Counted(r).status = r.status
  BY DEF Counted, RunRecord
<1> DEFINE q == [Counted(r) EXCEPT !.active = @ - 1]
<1>2. /\ q \in RunRecord /\ q.active = r.active - 1
      /\ q.terminal = r.terminal /\ q.status = r.status
  BY <1>1 DEF RunRecord
<1>3. LessActive(r) = Promoted(q)
  BY DEF LessActive
<1> HIDE DEF q
<1>4. r.active \in Nat
  BY DEF RunRecord
<1>5. CASE q.status = "pausing" /\ q.active = 0
  <2>1. Promoted(q) = [q EXCEPT !.status = "paused", !.activation = "paused"]
    BY <1>5 DEF Promoted
  <2>2. Promoted(q) \in RunRecord
    BY <2>1, <1>2 DEF RunRecord
  <2>3. /\ Promoted(q).active = q.active /\ Promoted(q).terminal = q.terminal
        /\ Promoted(q).status = "paused"
    BY <2>1, <1>2 DEF RunRecord
  <2> QED
    BY <2>2, <2>3, <1>2, <1>3, <1>4, <1>5
<1>6. CASE ~(q.status = "pausing" /\ q.active = 0)
  BY <1>2, <1>3, <1>4, <1>6 DEF Promoted
<1> QED
  BY <1>5, <1>6

(* An activation moves nothing but itself. *)
LEMMA WokenFacts ==
  ASSUME NEW r \in RunRecord
  PROVE  /\ Woken(r) \in RunRecord /\ Woken(r).active = r.active
         /\ Woken(r).terminal = r.terminal /\ Woken(r).status = r.status
         /\ Woken(r).activation = "queued"
  BY DEF Woken, RunRecord

(* At most the dispatched attempt holds capacity, so a recount is 0 or 1. *)
LEMMA HeldIsCounted ==
  ASSUME AttemptInv
  PROVE  LET n == Cardinality({a \in Attempts : Held(a)})
         IN /\ n \in {0, 1}
            /\ n = 1 <=> task.phase \in ActivePhases /\ Held(task.generation)
<1> DEFINE H == {a \in Attempts : Held(a)}
<1>1. CASE task.phase \in ActivePhases /\ Held(task.generation)
  <2>1. H = {task.generation}
    BY <1>1 DEF AttemptInv, CapacityFollowsAttempt, IsDispatched, ActiveIsAdmitted
  <2> QED
    BY <1>1, <2>1, FS_Singleton
<1>2. CASE ~(task.phase \in ActivePhases /\ Held(task.generation))
  <2>1. H = {}
    BY <1>2 DEF AttemptInv, CapacityFollowsAttempt, IsDispatched
  <2>2. Cardinality(H) = 0
    BY <2>1, FS_EmptySet
  <2> QED
    BY <1>2, <2>2
<1> QED
  BY <1>1, <1>2

(* A checkpoint of the terminal drain recounts. *)
LEMMA CheckpointedFacts ==
  ASSUME AttemptInv
  PROVE  LET r == [Checkpointed(run) EXCEPT !.terminal = TRUE]
         IN /\ r \in RunRecord /\ r.terminal
            /\ r.active \in {0, 1}
            /\ r.active = 1 <=> task.phase \in ActivePhases /\ Held(task.generation)
            /\ r.status = "paused" => r.active = 0
            /\ r.status = "ended" => run.status = "ended"
<1> DEFINE n == Cardinality({a \in Attempts : Held(a)})
           q == [run EXCEPT !.active = n, !.activation = "idle"]
<1>1. n \in {0, 1} /\ (n = 1 <=> task.phase \in ActivePhases /\ Held(task.generation))
  BY HeldIsCounted
<1>2. Checkpointed(run) = Promoted(q)
  BY DEF Checkpointed
<1> HIDE DEF n
<1>0. run \in RunRecord /\ n \in Nat
  BY <1>1 DEF AttemptInv, TypeOK
<1>3. q \in RunRecord /\ q.active = n /\ q.status = run.status
  BY <1>0 DEF RunRecord
<1>4. run.status = "paused" => n = 0
  BY <1>1 DEF AttemptInv, StatusIsDrained, ActiveIsCounted
<1> HIDE DEF q
<1> QED
  BY <1>1, <1>2, <1>3, <1>4 DEF Promoted, RunRecord

(* Phases do not overlap. *)
LEMMA PhaseFacts ==
  /\ ActivePhases \cap FinishedPhases = {}
  /\ ActivePhases \subseteq Phases /\ FinishedPhases \subseteq Phases
  /\ "ready" \in Phases \ (ActivePhases \cup FinishedPhases)
  /\ "review" \in Phases \ (ActivePhases \cup FinishedPhases)
  /\ "input" \in Phases \ (ActivePhases \cup FinishedPhases)
  BY DEF ActivePhases, FinishedPhases, Phases

(* The next generation of a task is ready. *)
LEMMA ReadyAgainFacts ==
  ASSUME task \in TaskRecord
  PROVE  /\ ReadyAgain \in TaskRecord /\ ReadyAgain.phase = "ready"
         /\ ReadyAgain.generation = task.generation + 1
         /\ ReadyAgain.tries = task.tries
<1>1. task.generation \in Nat \ {0} /\ task.generation + 1 \in Nat \ {0}
  BY DEF TaskRecord
<1> QED
  BY <1>1, PhaseFacts DEF ReadyAgain, TaskRecord

--------------------------------------------------------------------------------
(* The three shapes of a step.                                                  *)

(* An attempt is settled: its capacity is returned, its task leaves the active
   phases and the counter goes down, in one transaction. *)
LEMMA SettlingKeepsInv ==
  ASSUME AttemptInv, NEW a \in Attempts, IsDispatched(a), run.active > 0,
         \/ run' = Woken(LessActive(run))
         \/ run' = LessActive(run) /\ task'.phase \notin FinishedPhases,
         task' \in TaskRecord, task'.phase \notin ActivePhases,
         task'.generation \in {task.generation, task.generation + 1},
         task'.phase = "ready" => task'.generation = task.generation + 1,
         NEW att \in AttemptRecord, att.capacity = "released",
         att.worker = "freed" => att.exit \in Outcomes,
         attempts' = [attempts EXCEPT ![a] = att],
         cancels' \subseteq Cancellations
  PROVE  AttemptInv'
<1> USE DEF AttemptInv
<1>1. run \in RunRecord /\ task \in TaskRecord /\ attempts \in [Attempts -> AttemptRecord]
  BY DEF TypeOK
<1>2. /\ run' \in RunRecord /\ run'.active = run.active - 1 /\ run'.terminal = run.terminal
      /\ run'.status = "paused" => run.status = "paused" \/ run.active = 1
      /\ run'.status = "ended" => run.status = "ended"
      /\ task'.phase \in FinishedPhases => run'.activation = "queued"
  BY <1>1, LessActiveFacts, WokenFacts
<1>3. attempts' \in [Attempts -> AttemptRecord] /\ attempts'[a] = att
      /\ \A b \in Attempts \ {a} : attempts'[b] = attempts[b]
  BY <1>1
<1>4. a = task.generation /\ task.phase \in ActivePhases /\ run.active = 1
  BY DEF IsDispatched, ActiveIsCounted
<1>5. TypeOK'
  BY <1>2, <1>3 DEF TypeOK
<1>6. \A b \in Attempts : ~Held(b)'
  BY <1>3, <1>4 DEF Held, CapacityFollowsAttempt, IsDispatched
<1>7. CapacityFollowsAttempt' /\ ActiveIsAdmitted'
  BY <1>6 DEF CapacityFollowsAttempt, ActiveIsAdmitted
<1>8. ActiveIsCounted'
  BY <1>2, <1>4 DEF ActiveIsCounted
<1>9. StatusIsDrained'
  BY <1>2, <1>4, PhaseFacts DEF StatusIsDrained
<1>10. FinishedIsWoken'
  BY <1>2 DEF FinishedIsWoken
<1>11. RowsAreAdmitted'
  <2> SUFFICES ASSUME NEW b \in Attempts, attempts'[b].capacity # "none"
               PROVE  \/ b < task'.generation
                      \/ b = task'.generation /\ task'.phase # "ready"
    BY DEF RowsAreAdmitted
  <2>1. b \in Nat /\ task.generation \in Nat
    BY <1>1 DEF Attempts, TaskRecord
  <2>2. CASE b = a
    BY <2>1, <2>2, <1>4
  <2>3. CASE b # a
    BY <2>1, <2>3, <1>3, <1>4 DEF RowsAreAdmitted
  <2> QED
    BY <2>2, <2>3
<1>12. FreedHasOutcome'
  BY <1>3 DEF FreedHasOutcome
<1> QED
  BY <1>5, <1>7, <1>8, <1>9, <1>10, <1>11, <1>12

(* An attempt's workflow or watchdog moves on, and the task at most to another
   active phase: neither the capacity nor the run changes. *)
LEMMA MovingKeepsInv ==
  ASSUME AttemptInv, NEW a \in Attempts, NEW att \in AttemptRecord,
         att.capacity = attempts[a].capacity,
         att.worker = "freed" => att.exit \in Outcomes,
         attempts' = [attempts EXCEPT ![a] = att],
         \/ task' = task
         \/ /\ IsDispatched(a)
            /\ \E p \in {"running", "releasing"} :
                 task' = [task EXCEPT !.phase = p] /\ (p = "running" => Held(a)),
         run' = run, cancels' \subseteq Cancellations
  PROVE  AttemptInv'
<1> USE DEF AttemptInv
<1>1. run \in RunRecord /\ task \in TaskRecord /\ attempts \in [Attempts -> AttemptRecord]
  BY DEF TypeOK
<1>2. attempts' \in [Attempts -> AttemptRecord]
      /\ \A b \in Attempts : attempts'[b].capacity = attempts[b].capacity
  BY <1>1
<1>3. \A b \in Attempts : Held(b)' <=> Held(b)
  BY <1>2 DEF Held
<1>4. /\ task' \in TaskRecord /\ task'.generation = task.generation
      /\ task'.phase \in ActivePhases <=> task.phase \in ActivePhases
      /\ \/ task'.phase = task.phase
         \/ /\ task'.phase \in {"running", "releasing"} /\ task.phase \in ActivePhases
            /\ task'.phase = "running" => Held(task.generation)
  BY <1>1 DEF TaskRecord, IsDispatched, ActivePhases, Phases
<1>5. TypeOK'
  BY <1>1, <1>2, <1>4 DEF TypeOK
<1>6. ActiveIsAdmitted'
  BY <1>4 DEF ActiveIsAdmitted
<1>7. CapacityFollowsAttempt'
  <2>1. ASSUME NEW b \in Attempts, Held(b)' PROVE IsDispatched(b)'
    BY <2>1, <1>3, <1>4 DEF CapacityFollowsAttempt, IsDispatched
  <2>2. ASSUME task'.phase \in ActivePhases \ {"releasing"} PROVE Held(task.generation)'
    <3>1. Held(task.generation)
      BY <2>2, <1>4 DEF CapacityFollowsAttempt
    <3> QED
      BY <3>1, <2>2, <1>3, <1>4 DEF ActiveIsAdmitted, Held
  <2> QED
    BY <2>1, <2>2, <1>4 DEF CapacityFollowsAttempt, Held
<1>8. ActiveIsCounted'
  <2>1. task.phase \in ActivePhases => (Held(task.generation)' <=> Held(task.generation))
    BY <1>3, <1>4 DEF ActiveIsAdmitted, Held
  <2> QED
    BY <2>1, <1>4 DEF ActiveIsCounted, Held
<1>9. StatusIsDrained' /\ FinishedIsWoken'
  BY <1>4, PhaseFacts DEF StatusIsDrained, FinishedIsWoken
<1>10. RowsAreAdmitted'
  BY <1>2, <1>4, PhaseFacts DEF RowsAreAdmitted
<1>11. FreedHasOutcome'
  BY <1>1 DEF FreedHasOutcome
<1> QED
  BY <1>5, <1>6, <1>7, <1>8, <1>9, <1>10, <1>11

(* Neither the attempts nor an active phase is touched: a step of the user, of the
   controller or of a wait. *)
LEMMA RunKeepsInv ==
  ASSUME AttemptInv, UNCHANGED attempts, cancels' \subseteq Cancellations,
         run' \in RunRecord, run'.active = run.active,
         run'.status = "paused" => run.active = 0,
         run'.status = "ended" => task'.phase \in FinishedPhases,
         run.terminal => run'.terminal,
         \/ task' = task
         \/ task' = ReadyAgain /\ task.phase \notin ActivePhases
         \/ task' = [task EXCEPT !.phase = "cancelled"] /\ task.phase \notin ActivePhases,
         FinishedIsWoken'
  PROVE  AttemptInv'
<1> USE DEF AttemptInv
<1>1. run \in RunRecord /\ task \in TaskRecord /\ attempts \in [Attempts -> AttemptRecord]
  BY DEF TypeOK
<1>2. /\ task' \in TaskRecord
      /\ task' = task \/ (task'.phase \notin ActivePhases /\ task.phase \notin ActivePhases)
      /\ \/ task'.generation = task.generation + 1
         \/ task'.generation = task.generation /\ (task'.phase = "ready" => task.phase = "ready")
  <2>1. CASE task' = task
    BY <2>1, <1>1
  <2>2. CASE task' = ReadyAgain /\ task.phase \notin ActivePhases
    BY <2>2, <1>1, ReadyAgainFacts, PhaseFacts
  <2>3. CASE task' = [task EXCEPT !.phase = "cancelled"] /\ task.phase \notin ActivePhases
    BY <2>3, <1>1, PhaseFacts DEF TaskRecord, FinishedPhases
  <2> QED
    BY <2>1, <2>2, <2>3
<1>3. TypeOK'
  BY <1>1, <1>2 DEF TypeOK
<1>4. CapacityFollowsAttempt'
  BY <1>2 DEF CapacityFollowsAttempt, Held, IsDispatched
<1>5. ActiveIsAdmitted'
  BY <1>2 DEF ActiveIsAdmitted
<1>6. ActiveIsCounted'
  BY <1>2 DEF ActiveIsCounted, Held
<1>7. StatusIsDrained'
  BY DEF StatusIsDrained
<1>8. RowsAreAdmitted'
  <2> SUFFICES ASSUME NEW b \in Attempts, attempts[b].capacity # "none"
               PROVE  \/ b < task'.generation
                      \/ b = task'.generation /\ task'.phase # "ready"
    BY DEF RowsAreAdmitted
  <2>1. b \in Nat /\ task.generation \in Nat
    BY <1>1 DEF Attempts, TaskRecord
  <2> QED
    BY <2>1, <1>2 DEF RowsAreAdmitted
<1>9. FreedHasOutcome'
  BY DEF FreedHasOutcome
<1> QED
  BY <1>3, <1>4, <1>5, <1>6, <1>7, <1>8, <1>9

--------------------------------------------------------------------------------
(* The actions.                                                                 *)

(* No attempt is admitted at first. *)
LEMMA InitInv == Init => AttemptInv
<1> SUFFICES ASSUME Init PROVE AttemptInv
  OBVIOUS
<1> USE DEF Init
<1>1. 1 \in 1..MaxGeneration /\ 0 \in 0..MaxGeneration
  BY AttemptBounds
<1>2. run \in RunRecord
  BY <1>1 DEF RunRecord
<1>3. task \in TaskRecord
  BY DEF TaskRecord, Phases
<1>4. NoAttempt \in AttemptRecord
  BY <1>1 DEF NoAttempt, AttemptRecord
<1>5. TypeOK
  BY <1>2, <1>3, <1>4 DEF TypeOK
<1>6. CapacityFollowsAttempt /\ RowsAreAdmitted /\ FreedHasOutcome
  BY DEF CapacityFollowsAttempt, RowsAreAdmitted, FreedHasOutcome, Held, NoAttempt, ActivePhases
<1> QED
  BY <1>5, <1>6 DEF AttemptInv, ActiveIsAdmitted, ActiveIsCounted, StatusIsDrained,
     FinishedIsWoken, ActivePhases, FinishedPhases

(* An admission reserves for the attempt whose turn it is. *)
LEMMA AdmitInv ==
  ASSUME AttemptInv, NEW a \in Attempts, Admit(a)
  PROVE  AttemptInv'
<1> USE DEF AttemptInv, Admit
<1>1. run \in RunRecord /\ task \in TaskRecord /\ attempts \in [Attempts -> AttemptRecord]
  BY DEF TypeOK
<1>2. /\ run' \in RunRecord /\ run'.active = run.active + 1
      /\ run'.terminal = run.terminal /\ run'.status = "live"
  <2>1. /\ Counted(run) \in RunRecord /\ Counted(run).active = run.active
        /\ Counted(run).terminal = run.terminal /\ Counted(run).status = run.status
    BY <1>1 DEF Counted, RunRecord
  <2> QED
    BY <2>1 DEF RunRecord
<1>3. task' \in TaskRecord /\ task'.phase = "starting" /\ task'.generation = a
      /\ task.generation = a
  BY <1>1 DEF TaskRecord, Phases, ActivePhases
<1> DEFINE att == [NoAttempt EXCEPT !.controller = run.generation, !.capacity = "reserved",
                                    !.watchdog = "pending", !.worker = "sent"]
<1>4. att \in AttemptRecord /\ att.capacity = "reserved" /\ att.worker = "sent"
  <2>1. run.generation \in 0..MaxGeneration
    BY <1>1, AttemptBounds DEF RunRecord
  <2> QED
    BY <2>1 DEF NoAttempt, AttemptRecord, Exits
<1> HIDE DEF att
<1>5. attempts' = [attempts EXCEPT ![a] = att]
  BY DEF att
<1>6. /\ attempts' \in [Attempts -> AttemptRecord] /\ attempts'[a].capacity = "reserved"
      /\ attempts'[a].worker = "sent"
      /\ \A b \in Attempts \ {a} : attempts'[b] = attempts[b]
  BY <1>1, <1>4, <1>5
<1>7. TypeOK'
  BY <1>2, <1>3, <1>6 DEF TypeOK
<1>8. \A b \in Attempts : ~Held(b)
  BY PhaseFacts DEF CapacityFollowsAttempt, IsDispatched
<1>9. \A b \in Attempts : Held(b)' => b = a
  BY <1>6, <1>8 DEF Held
<1>10. task'.phase \in ActivePhases \ FinishedPhases /\ task.phase \notin ActivePhases
  BY <1>3 DEF ActivePhases, FinishedPhases
<1>11. CapacityFollowsAttempt' /\ ActiveIsAdmitted'
  BY <1>3, <1>6, <1>9, <1>10 DEF CapacityFollowsAttempt, ActiveIsAdmitted, IsDispatched, Held
<1>12. ActiveIsCounted'
  BY <1>1, <1>2, <1>10 DEF ActiveIsCounted, RunRecord
<1>13. StatusIsDrained' /\ FinishedIsWoken'
  BY <1>2, <1>10 DEF StatusIsDrained, FinishedIsWoken
<1>14. RowsAreAdmitted'
  BY <1>3, <1>6 DEF RowsAreAdmitted
<1>15. FreedHasOutcome'
  BY <1>6 DEF FreedHasOutcome
<1> QED
  BY <1>7, <1>11, <1>12, <1>13, <1>14, <1>15

(* The end of a run whose task is finished. *)
LEMMA EndedInv ==
  ASSUME AttemptInv, run' = Ended, UNCHANGED <<attempts, cancels>>,
         \/ task.phase \in FinishedPhases /\ task' = task
         \/ /\ task.phase \in {"ready", "review", "input"}
            /\ task' = [task EXCEPT !.phase = "cancelled"]
  PROVE  AttemptInv'
<1>1. run \in RunRecord /\ task \in TaskRecord /\ cancels \subseteq Cancellations
  BY DEF AttemptInv, TypeOK
<1>2. task.phase \notin ActivePhases
  BY PhaseFacts
<1>3. run.active = 0
  BY <1>2 DEF AttemptInv, ActiveIsCounted
<1>4. run' \in RunRecord /\ run'.active = 0 /\ run'.status = "ended" /\ run'.terminal
  BY <1>1 DEF Ended, RunRecord
<1>5. task'.phase \in FinishedPhases
  BY <1>1 DEF TaskRecord, FinishedPhases
<1>6. FinishedIsWoken'
  BY <1>4 DEF FinishedIsWoken
<1> QED
  BY <1>1, <1>2, <1>3, <1>4, <1>5, <1>6, RunKeepsInv

(* A page of the terminal drain cancels the task or sends its attempt a cancellation. *)
LEMMA TerminalPageInv ==
  ASSUME AttemptInv, TerminalPage, run.status # "ended"
  PROVE  AttemptInv'
<1> DEFINE r == [Checkpointed(run) EXCEPT !.terminal = TRUE]
           a == task.generation
<1>1. run \in RunRecord /\ task \in TaskRecord /\ attempts \in [Attempts -> AttemptRecord]
      /\ cancels \subseteq Cancellations
  BY DEF AttemptInv, TypeOK
<1>2. CASE /\ task.phase \in FinishedPhases
           /\ run' = Ended
           /\ UNCHANGED <<task, attempts, cancels>>
  BY <1>2, EndedInv
<1>3. CASE /\ task.phase \in {"ready", "review", "input"}
           /\ task' = [task EXCEPT !.phase = "cancelled"]
           /\ run' = Ended
           /\ UNCHANGED <<attempts, cancels>>
  BY <1>3, EndedInv
<1>4. CASE /\ task.phase \in ActivePhases /\ Held(a)
           /\ attempts[a].watchdog = "pending"
           /\ task' = [task EXCEPT !.phase = CancellingPhase(@)]
           /\ attempts' = [attempts EXCEPT ![a].capacity = "reconciling"]
           /\ cancels' = cancels \cup
                {[kind |-> "terminal", generation |-> run.generation, attempt |-> a,
                  step |-> "sent"]}
           /\ run' = r
  <2>1. a \in Attempts
    BY <1>4 DEF AttemptInv, ActiveIsAdmitted
  <2>2. /\ r \in RunRecord /\ r.terminal /\ r.active = 1
        /\ r.status # "paused" /\ r.status # "ended"
    BY <1>4, CheckpointedFacts
  <2> HIDE DEF r
  <2>3. task' \in TaskRecord /\ task'.generation = a /\ task'.phase \in ActivePhases
    BY <1>1, <1>4 DEF TaskRecord, CancellingPhase, ActivePhases, Phases
  <2>4. /\ attempts' \in [Attempts -> AttemptRecord]
        /\ \A b \in Attempts : Held(b)' <=> Held(b)
        /\ \A b \in Attempts : b # a => attempts'[b] = attempts[b]
        /\ \A b \in Attempts : /\ attempts'[b].worker = attempts[b].worker
                               /\ attempts'[b].exit = attempts[b].exit
    BY <1>1, <1>4, <2>1 DEF AttemptRecord, Held
  <2>5. cancels' \subseteq Cancellations
    BY <1>1, <1>4, <2>1 DEF Cancellations, RunRecord
  <2>6. TypeOK'
    BY <2>2, <2>3, <2>4, <2>5, <1>4 DEF TypeOK
  <2>7. Held(task.generation)'
    BY <1>4, <2>1, <2>3, <2>4 DEF Held
  <2>8. CapacityFollowsAttempt'
    <3>1. ASSUME NEW b \in Attempts, Held(b)' PROVE IsDispatched(b)'
      BY <3>1, <2>3, <2>4 DEF AttemptInv, CapacityFollowsAttempt, IsDispatched
    <3> QED
      BY <3>1, <2>7 DEF CapacityFollowsAttempt
  <2>9. ActiveIsAdmitted' /\ ActiveIsCounted'
    BY <1>4, <2>1, <2>2, <2>3 DEF ActiveIsAdmitted, ActiveIsCounted
  <2>10. StatusIsDrained' /\ FinishedIsWoken'
    BY <1>4, <2>2 DEF StatusIsDrained, FinishedIsWoken
  <2>11. RowsAreAdmitted'
    BY <2>3, <2>4, PhaseFacts DEF AttemptInv, RowsAreAdmitted
  <2>12. FreedHasOutcome'
    BY <2>4 DEF AttemptInv, FreedHasOutcome
  <2> QED
    BY <2>6, <2>8, <2>9, <2>10, <2>11, <2>12 DEF AttemptInv
<1>5. CASE /\ task.phase = "releasing" /\ ~Held(a)
           /\ run' = r
           /\ UNCHANGED <<task, attempts, cancels>>
  <2>1. /\ r \in RunRecord /\ r.terminal /\ r.active = 0 /\ r.status # "ended"
    BY <1>5, CheckpointedFacts
  <2> HIDE DEF r
  <2>2. TypeOK'
    BY <1>1, <1>5, <2>1 DEF TypeOK
  <2>3. /\ CapacityFollowsAttempt' /\ ActiveIsAdmitted' /\ RowsAreAdmitted'
        /\ FreedHasOutcome'
    BY <1>5 DEF AttemptInv, CapacityFollowsAttempt, ActiveIsAdmitted, RowsAreAdmitted,
       FreedHasOutcome, Held, IsDispatched
  <2>4. ActiveIsCounted'
    BY <1>5, <2>1 DEF ActiveIsCounted, Held, ActivePhases
  <2>5. StatusIsDrained' /\ FinishedIsWoken'
    BY <1>5, <2>1 DEF StatusIsDrained, FinishedIsWoken
  <2> QED
    BY <2>2, <2>3, <2>4, <2>5 DEF AttemptInv
<1> QED
  BY <1>2, <1>3, <1>4, <1>5 DEF TerminalPage

(* The activations of the controller. *)
LEMMA ControllerInv ==
  ASSUME AttemptInv, Controller
  PROVE  AttemptInv'
<1>1. run \in RunRecord /\ cancels \subseteq Cancellations
  BY DEF AttemptInv, TypeOK
<1>2. CASE AdvanceIdle
  <2>1. /\ run' \in RunRecord /\ run'.active = run.active /\ run'.status = "live"
        /\ run'.terminal = run.terminal
    BY <1>1, <1>2 DEF AdvanceIdle, RunRecord
  <2>2. FinishedIsWoken'
    BY <1>2 DEF AdvanceIdle, FinishedIsWoken
  <2> QED
    BY <1>1, <1>2, <2>1, <2>2, RunKeepsInv DEF AdvanceIdle
<1>3. CASE AdvanceSettles
  BY <1>3, EndedInv DEF AdvanceSettles
<1>4. CASE AdvanceDrains
  BY <1>4, TerminalPageInv DEF AdvanceDrains
<1> QED
  BY <1>2, <1>3, <1>4 DEF Controller

(* A pause moves the run to the next generation and its attempt to its release. *)
LEMMA PauseInv ==
  ASSUME AttemptInv, Pause
  PROVE  AttemptInv'
<1> USE DEF Pause
<1>1. run \in RunRecord /\ task \in TaskRecord /\ attempts \in [Attempts -> AttemptRecord]
      /\ cancels \subseteq Cancellations
  BY DEF AttemptInv, TypeOK
<1>2. /\ run' \in RunRecord /\ run'.active = run.active /\ run'.terminal = run.terminal
      /\ run'.status \in {"paused", "pausing"}
      /\ run'.status = "paused" => run.active = 0
  <2>1. run.generation + 1 \in 1..MaxGeneration
    BY <1>1, AttemptBounds DEF RunRecord
  <2>2. PauseStatus \in {"paused", "pausing"} /\ (PauseStatus = "paused" => run.active = 0)
    BY DEF PauseStatus
  <2> QED
    BY <1>1, <2>1, <2>2 DEF RunRecord
<1>3. cancels' \subseteq Cancellations
  <2>1. run.generation + 1 \in 1..MaxGeneration
    BY <1>1, AttemptBounds DEF RunRecord
  <2>2. Pausable \subseteq Attempts
    BY DEF Pausable
  <2> QED
    BY <1>1, <2>1, <2>2 DEF Cancellations
<1>4. FinishedIsWoken'
  BY <1>2 DEF FinishedIsWoken
<1>5. CASE Pausable = {}
  BY <1>2, <1>3, <1>4, <1>5, RunKeepsInv
<1>6. CASE Pausable # {}
  <2>1. /\ task.phase \in {"starting", "running"} /\ task.generation \in Attempts
        /\ Held(task.generation)
    BY <1>6 DEF Pausable
  <2>2. /\ task' \in TaskRecord /\ task'.generation = task.generation
        /\ task'.phase \in ActivePhases \ FinishedPhases
        /\ task.phase \in ActivePhases /\ task'.phase # "ready" /\ task.phase # "ready"
    BY <1>1, <1>6, <2>1
       DEF TaskRecord, CancellingPhase, ActivePhases, FinishedPhases, Phases
  <2>3. TypeOK'
    BY <1>1, <1>2, <1>3, <2>2 DEF TypeOK
  <2>4. /\ CapacityFollowsAttempt' /\ ActiveIsAdmitted' /\ RowsAreAdmitted'
        /\ FreedHasOutcome'
    BY <2>1, <2>2 DEF AttemptInv, CapacityFollowsAttempt, ActiveIsAdmitted,
       RowsAreAdmitted, FreedHasOutcome, Held, IsDispatched
  <2>5. ActiveIsCounted' /\ StatusIsDrained'
    BY <1>2, <2>1, <2>2 DEF AttemptInv, ActiveIsCounted, StatusIsDrained, Held
  <2> QED
    BY <1>4, <2>3, <2>4, <2>5 DEF AttemptInv
<1> QED
  BY <1>5, <1>6

(* What a wait is answered with makes its task ready again, whatever the run is. *)
LEMMA AnsweredInv ==
  ASSUME AttemptInv, task.phase \in {"review", "input"},
         task' = ReadyAgain, run' = WokenUnlessPaused, UNCHANGED <<attempts, cancels>>
  PROVE  AttemptInv'
<1>1. run \in RunRecord /\ task \in TaskRecord /\ cancels \subseteq Cancellations
  BY DEF AttemptInv, TypeOK
<1>2. /\ Counted(run) \in RunRecord /\ Counted(run).active = run.active
      /\ Counted(run).terminal = run.terminal /\ Counted(run).status = run.status
  BY <1>1 DEF Counted, RunRecord
<1>3. /\ run' \in RunRecord /\ run'.active = run.active
      /\ run'.terminal = run.terminal /\ run'.status = run.status
  BY <1>2, WokenFacts DEF WokenUnlessPaused
<1>4. task.phase \notin ActivePhases \cup FinishedPhases
  BY PhaseFacts
<1>5. run.active = 0 /\ run.status # "ended"
  BY <1>4 DEF AttemptInv, ActiveIsCounted, StatusIsDrained
<1>6. task'.phase = "ready"
  BY <1>1, ReadyAgainFacts
<1>7. FinishedIsWoken'
  BY <1>6, PhaseFacts DEF FinishedIsWoken
<1> QED
  BY <1>1, <1>3, <1>4, <1>5, <1>7, RunKeepsInv

(* What the user does. *)
LEMMA UserInv ==
  ASSUME AttemptInv, User
  PROVE  AttemptInv'
<1>1. run \in RunRecord /\ cancels \subseteq Cancellations
  BY DEF AttemptInv, TypeOK
<1>2. CASE Resume
  <2> DEFINE q == [run EXCEPT !.generation = @ + 1, !.status = "live"]
  <2>1. run.generation + 1 \in 1..MaxGeneration
    BY <1>1, <1>2, AttemptBounds DEF RunRecord, Resume
  <2>2. q \in RunRecord /\ q.active = run.active /\ q.status = "live"
        /\ q.terminal = run.terminal
    BY <1>1, <2>1 DEF RunRecord
  <2>3. run' = Woken(q)
    BY <1>2 DEF Resume
  <2> HIDE DEF q
  <2>4. /\ run' \in RunRecord /\ run'.active = run.active /\ run'.status = "live"
        /\ run'.terminal = run.terminal /\ run'.activation = "queued"
    BY <2>2, <2>3, WokenFacts
  <2>5. FinishedIsWoken'
    BY <2>4 DEF FinishedIsWoken
  <2> QED
    BY <1>1, <1>2, <2>4, <2>5, RunKeepsInv DEF Resume
<1>3. CASE CancelRun
  BY <1>3, TerminalPageInv DEF CancelRun
<1>4. CASE ResolveReview
  BY <1>4, AnsweredInv DEF ResolveReview
<1>5. CASE ResumeInput
  BY <1>5, AnsweredInv DEF ResumeInput
<1> QED
  BY <1>2, <1>3, <1>4, <1>5, PauseInv DEF User

--------------------------------------------------------------------------------
(* The fields of an attempt.                                                    *)

(* Releases, deliveries and handlers keep an attempt's type, and only a release
   touches its capacity. *)
LEMMA AttemptFacts ==
  ASSUME NEW att \in AttemptRecord
  PROVE  /\ Release(att) \in AttemptRecord /\ Release(att).capacity = "released"
         /\ Release(att).worker = att.worker /\ Release(att).exit = att.exit
         /\ GuardDone(att) \in AttemptRecord /\ GuardDone(att).capacity = att.capacity
         /\ GuardDone(att).worker = att.worker /\ GuardDone(att).exit = att.exit
<1> USE DEF AttemptRecord
<1>1. /\ Release(att) \in AttemptRecord /\ Release(att).capacity = "released"
      /\ Release(att).worker = att.worker /\ Release(att).exit = att.exit
  BY DEF Release
<1>2. /\ GuardDone(att) \in AttemptRecord /\ GuardDone(att).capacity = att.capacity
      /\ GuardDone(att).worker = att.worker /\ GuardDone(att).exit = att.exit
  BY DEF GuardDone
<1> QED
  BY <1>1, <1>2

(* The workflow of an attempt moves on. *)
LEMMA WorkerFacts ==
  ASSUME NEW att \in AttemptRecord, NEW w \in {"working", "claimed", "freed", "done", "failed"}
  PROVE  /\ [att EXCEPT !.worker = w] \in AttemptRecord
         /\ [att EXCEPT !.worker = w].capacity = att.capacity
         /\ [att EXCEPT !.worker = w].worker = w
         /\ [att EXCEPT !.worker = w].exit = att.exit
  BY DEF AttemptRecord

(* The workflow moves on with the release of its attempt. *)
LEMMA ReleasedFacts ==
  ASSUME NEW att \in AttemptRecord, NEW w \in {"working", "claimed", "freed", "done", "failed"}
  PROVE  /\ [Release(att) EXCEPT !.worker = w] \in AttemptRecord
         /\ [Release(att) EXCEPT !.worker = w].capacity = "released"
         /\ [Release(att) EXCEPT !.worker = w].worker = w
         /\ [Release(att) EXCEPT !.worker = w].exit = att.exit
<1> DEFINE q == Release(att)
<1>1. q \in AttemptRecord /\ q.capacity = "released" /\ q.exit = att.exit
  BY AttemptFacts
<1> HIDE DEF q
<1>2. /\ [q EXCEPT !.worker = w] \in AttemptRecord
      /\ [q EXCEPT !.worker = w].capacity = q.capacity
      /\ [q EXCEPT !.worker = w].worker = w
      /\ [q EXCEPT !.worker = w].exit = q.exit
  BY <1>1, WorkerFacts
<1> QED
  BY <1>1, <1>2 DEF q

(* The watchdog of an attempt moves on. *)
LEMMA GuardFacts ==
  ASSUME NEW att \in AttemptRecord, NEW g \in {"idle", "lost", "expired", "claimed", "failed"}
  PROVE  /\ [att EXCEPT !.guard = g] \in AttemptRecord
         /\ [att EXCEPT !.guard = g].capacity = att.capacity
         /\ [att EXCEPT !.guard = g].worker = att.worker
         /\ [att EXCEPT !.guard = g].exit = att.exit
  BY DEF AttemptRecord

(* How a task is after its settlement or its parking. *)
LEMMA SettledFacts ==
  ASSUME task \in TaskRecord
  PROVE  /\ \A result \in Outcomes \cup {"unknown"} :
              LET t == SettledTask(result)
              IN /\ t \in TaskRecord /\ t.phase \notin ActivePhases
                 /\ t.generation \in {task.generation, task.generation + 1}
                 /\ t.phase = "ready" => t.generation = task.generation + 1
         /\ \A exit \in Exits \ Outcomes :
              LET t == ParkedTask(exit)
              IN /\ t \in TaskRecord /\ t.phase \notin ActivePhases
                 /\ t.generation \in {task.generation, task.generation + 1}
                 /\ t.phase = "ready" => t.generation = task.generation + 1
         /\ LET t == [task EXCEPT !.phase = "cancelled"]
            IN /\ t \in TaskRecord /\ t.phase = "cancelled" /\ t.phase \notin ActivePhases
               /\ t.generation = task.generation
<1>1. /\ ReadyAgain \in TaskRecord /\ ReadyAgain.phase = "ready"
      /\ ReadyAgain.generation = task.generation + 1
  BY ReadyAgainFacts
<1>2. /\ [ReadyAgain EXCEPT !.tries = @ + 1] \in TaskRecord
      /\ [ReadyAgain EXCEPT !.tries = @ + 1].phase = "ready"
      /\ [ReadyAgain EXCEPT !.tries = @ + 1].generation = task.generation + 1
  BY <1>1 DEF TaskRecord
<1>3. ASSUME NEW p \in {"completed", "failed", "unknown", "cancelled", "review", "input"}
      PROVE  /\ [task EXCEPT !.phase = p] \in TaskRecord
             /\ [task EXCEPT !.phase = p].phase = p
             /\ p \notin ActivePhases /\ p # "ready"
             /\ [task EXCEPT !.phase = p].generation = task.generation
  BY DEF TaskRecord, Phases, FinishedPhases, ActivePhases
<1>4. ASSUME NEW result \in Outcomes \cup {"unknown"}
      PROVE  LET t == SettledTask(result)
             IN /\ t \in TaskRecord /\ t.phase \notin ActivePhases
                /\ t.generation \in {task.generation, task.generation + 1}
                /\ t.phase = "ready" => t.generation = task.generation + 1
  <2>1. CASE result = "retry"
    BY <2>1, <1>2, PhaseFacts DEF SettledTask
  <2>2. CASE result # "retry"
    <3>1. result \in {"completed", "failed", "unknown"}
      BY <2>2 DEF Outcomes
    <3> QED
      BY <2>2, <3>1, <1>3 DEF SettledTask
  <2> QED
    BY <2>1, <2>2
<1>5. ASSUME NEW exit \in Exits \ Outcomes
      PROVE  LET t == ParkedTask(exit)
             IN /\ t \in TaskRecord /\ t.phase \notin ActivePhases
                /\ t.generation \in {task.generation, task.generation + 1}
                /\ t.phase = "ready" => t.generation = task.generation + 1
  <2>1. CASE exit = "continue"
    BY <2>1, <1>1, PhaseFacts DEF ParkedTask
  <2>2. CASE exit # "continue"
    <3>1. exit \in {"review", "input"}
      BY <2>2 DEF Exits, Outcomes
    <3> QED
      BY <2>2, <3>1, <1>3 DEF ParkedTask
  <2> QED
    BY <2>1, <2>2
<1> QED
  BY <1>3, <1>4, <1>5

--------------------------------------------------------------------------------
(* The attempt workflow, the watchdog and the cancellations.                    *)

(* A delivered attempt starts or ends. *)
LEMMA StartInv ==
  ASSUME AttemptInv, NEW a \in Attempts, Start(a)
  PROVE  AttemptInv'
<1>1. attempts \in [Attempts -> AttemptRecord] /\ cancels \subseteq Cancellations
  BY DEF AttemptInv, TypeOK
<1>2. attempts[a] \in AttemptRecord
  BY <1>1
<1>3. CASE StartAllowed(a)
  <2> DEFINE att == [attempts[a] EXCEPT !.worker = "working"]
  <2>1. att \in AttemptRecord /\ att.capacity = attempts[a].capacity /\ att.worker = "working"
    BY <1>2, WorkerFacts
  <2>2. attempts' = [attempts EXCEPT ![a] = att] /\ task' = [task EXCEPT !.phase = "running"]
    BY <1>1, <1>3 DEF Start
  <2>3. IsDispatched(a) /\ Held(a)
    BY <1>3 DEF StartAllowed, Fenced, ResourcesMatch, Held
  <2> HIDE DEF att
  <2> QED
    BY <1>1, <2>1, <2>2, <2>3, MovingKeepsInv DEF Start
<1>4. CASE ~StartAllowed(a)
  <2> DEFINE att == [attempts[a] EXCEPT !.worker = "done"]
  <2>1. att \in AttemptRecord /\ att.capacity = attempts[a].capacity /\ att.worker = "done"
    BY <1>2, WorkerFacts
  <2>2. attempts' = [attempts EXCEPT ![a] = att] /\ task' = task
    BY <1>1, <1>4 DEF Start
  <2> HIDE DEF att
  <2> QED
    BY <1>1, <2>1, <2>2, MovingKeepsInv DEF Start
<1> QED
  BY <1>3, <1>4

(* The workflow claims the release of its attempt. *)
LEMMA ClaimReleaseInv ==
  ASSUME AttemptInv, NEW a \in Attempts, NEW exit \in Exits, ClaimRelease(a, exit)
  PROVE  AttemptInv'
<1>1. attempts \in [Attempts -> AttemptRecord] /\ cancels \subseteq Cancellations
  BY DEF AttemptInv, TypeOK
<1>2. attempts[a] \in AttemptRecord
  BY <1>1
<1>3. CASE ClaimGranted(a)
  <2> DEFINE x == Exhausted(exit)
             att == [attempts[a] EXCEPT !.worker = "claimed", !.exit = x]
  <2>1. x \in Exits
    BY DEF Exhausted, Exits, Outcomes
  <2>2. attempts' = [attempts EXCEPT ![a] = att] /\ task' = [task EXCEPT !.phase = "releasing"]
    BY <1>1, <1>3 DEF ClaimRelease
  <2> HIDE DEF x
  <2>3. att \in AttemptRecord /\ att.capacity = attempts[a].capacity /\ att.worker = "claimed"
    BY <1>2, <2>1 DEF AttemptRecord
  <2>4. IsDispatched(a)
    BY <1>3 DEF ClaimGranted, Fenced
  <2> HIDE DEF att
  <2> QED
    BY <1>1, <2>2, <2>3, <2>4, MovingKeepsInv DEF ClaimRelease
<1>4. CASE ~ClaimGranted(a)
  <2> DEFINE att == [attempts[a] EXCEPT !.worker = "done"]
  <2>1. att \in AttemptRecord /\ att.capacity = attempts[a].capacity /\ att.worker = "done"
    BY <1>2, WorkerFacts
  <2>2. attempts' = [attempts EXCEPT ![a] = att] /\ task' = task
    BY <1>1, <1>4 DEF ClaimRelease
  <2> HIDE DEF att
  <2> QED
    BY <1>1, <2>1, <2>2, MovingKeepsInv DEF ClaimRelease
<1> QED
  BY <1>3, <1>4

(* A failed hand release ends the workflow, or the watchdog's handler, with nothing
   settled. *)
LEMMA ReleaseFailsInv ==
  ASSUME AttemptInv, NEW a \in Attempts, ReleaseFails(a) \/ WatchdogReleaseFails(a)
  PROVE  AttemptInv'
<1>1. attempts \in [Attempts -> AttemptRecord] /\ cancels \subseteq Cancellations
  BY DEF AttemptInv, TypeOK
<1>2. /\ attempts[a] \in AttemptRecord
      /\ attempts[a].worker = "freed" => attempts[a].exit \in Outcomes
  BY <1>1 DEF AttemptInv, FreedHasOutcome
<1>3. CASE ReleaseFails(a)
  <2> DEFINE att == [attempts[a] EXCEPT !.worker = "failed"]
  <2>1. att \in AttemptRecord /\ att.capacity = attempts[a].capacity /\ att.worker = "failed"
    BY <1>2, WorkerFacts
  <2>2. attempts' = [attempts EXCEPT ![a] = att]
    BY <1>1, <1>3 DEF ReleaseFails
  <2> HIDE DEF att
  <2> QED
    BY <1>1, <1>3, <2>1, <2>2, MovingKeepsInv DEF ReleaseFails
<1>4. CASE WatchdogReleaseFails(a)
  <2> DEFINE att == [attempts[a] EXCEPT !.guard = "failed"]
  <2>1. /\ att \in AttemptRecord /\ att.capacity = attempts[a].capacity
        /\ att.worker = attempts[a].worker /\ att.exit = attempts[a].exit
    BY <1>2, GuardFacts
  <2>2. attempts' = [attempts EXCEPT ![a] = att]
    BY <1>1, <1>4 DEF WatchdogReleaseFails
  <2> HIDE DEF att
  <2> QED
    BY <1>1, <1>2, <1>4, <2>1, <2>2, MovingKeepsInv DEF WatchdogReleaseFails
<1> QED
  BY <1>3, <1>4

(* Capacity is returned ahead of the outcome only while the attempt is releasing. *)
LEMMA FreeCapacityInv ==
  ASSUME AttemptInv, NEW a \in Attempts, FreeCapacity(a)
  PROVE  AttemptInv'
<1>1. attempts \in [Attempts -> AttemptRecord] /\ cancels \subseteq Cancellations
  BY DEF AttemptInv, TypeOK
<1>2. attempts[a] \in AttemptRecord
  BY <1>1
<1>3. CASE Fenced(a) /\ task.phase = "releasing" /\ run.status # "ended"
  <2> DEFINE att == [Release(attempts[a]) EXCEPT !.worker = "freed"]
  <2>1. /\ att \in AttemptRecord /\ att.capacity = "released"
        /\ att.worker = "freed" /\ att.exit \in Outcomes
    BY <1>2, ReleasedFacts DEF FreeCapacity
  <2>2. attempts' = [attempts EXCEPT ![a] = att] /\ task' = task /\ run' = run
        /\ cancels' = cancels
    BY <1>1, <1>3 DEF FreeCapacity
  <2> HIDE DEF att
  <2>3. /\ attempts' \in [Attempts -> AttemptRecord] /\ attempts'[a] = att
        /\ \A b \in Attempts \ {a} : attempts'[b] = attempts[b]
    BY <1>1, <2>1, <2>2
  <2>4. task.generation = a /\ task.phase \in ActivePhases /\ task.phase # "ready"
    BY <1>3, PhaseFacts DEF Fenced, IsDispatched
  <2>5. \A b \in Attempts : ~Held(b)'
    BY <2>1, <2>3, <2>4 DEF Held, AttemptInv, CapacityFollowsAttempt, IsDispatched
  <2>6. TypeOK' /\ FreedHasOutcome'
    BY <2>1, <2>2, <2>3 DEF AttemptInv, TypeOK, FreedHasOutcome
  <2>7. CapacityFollowsAttempt' /\ ActiveIsAdmitted'
    BY <1>3, <2>2, <2>4, <2>5 DEF CapacityFollowsAttempt, ActiveIsAdmitted
  <2>8. ActiveIsCounted' /\ StatusIsDrained' /\ FinishedIsWoken'
    <3>1. ~Held(task.generation)'
      BY <2>2, <2>4, <2>5 DEF Held
    <3> QED
      BY <2>2, <2>4, <3>1 DEF AttemptInv, ActiveIsCounted, StatusIsDrained, FinishedIsWoken
  <2>9. RowsAreAdmitted'
    BY <2>2, <2>3, <2>4 DEF AttemptInv, RowsAreAdmitted
  <2> QED
    BY <2>6, <2>7, <2>8, <2>9 DEF AttemptInv
<1>4. CASE ~(Fenced(a) /\ task.phase = "releasing" /\ run.status # "ended")
  <2> DEFINE att == [attempts[a] EXCEPT !.worker = "done"]
  <2>1. att \in AttemptRecord /\ att.capacity = attempts[a].capacity /\ att.worker = "done"
    BY <1>2, WorkerFacts
  <2>2. attempts' = [attempts EXCEPT ![a] = att] /\ task' = task
    BY <1>1, <1>4 DEF FreeCapacity
  <2> HIDE DEF att
  <2> QED
    BY <1>1, <2>1, <2>2, MovingKeepsInv DEF FreeCapacity
<1> QED
  BY <1>3, <1>4

(* The workflow settles its outcome. *)
LEMMA SettleOutcomeInv ==
  ASSUME AttemptInv, NEW a \in Attempts, SettleOutcome(a)
  PROVE  AttemptInv'
<1>1. attempts \in [Attempts -> AttemptRecord] /\ cancels \subseteq Cancellations
      /\ task \in TaskRecord /\ run.active \in Nat
  BY DEF AttemptInv, TypeOK, RunRecord
<1>2. attempts[a] \in AttemptRecord
  BY <1>1
<1>3. CASE SettleCurrent(a) /\ ~Underflows
  <2> DEFINE att == [Release(attempts[a]) EXCEPT !.worker = "done"]
  <2>1. att \in AttemptRecord /\ att.capacity = "released" /\ att.worker = "done"
    BY <1>2, ReleasedFacts
  <2>2. /\ attempts' = [attempts EXCEPT ![a] = att]
        /\ run.active > 0 /\ run' = Woken(LessActive(run))
        /\ task' = SettledTask(attempts[a].exit)
    BY <1>1, <1>3 DEF SettleOutcome, Settles, Underflows
  <2> HIDE DEF att
  <2>3. attempts[a].exit \in Outcomes
    BY DEF AttemptInv, FreedHasOutcome, SettleOutcome
  <2>4. /\ task' \in TaskRecord /\ task'.phase \notin ActivePhases
        /\ task'.generation \in {task.generation, task.generation + 1}
        /\ task'.phase = "ready" => task'.generation = task.generation + 1
    BY <1>1, <2>2, <2>3, SettledFacts
  <2>5. IsDispatched(a)
    BY <1>3 DEF SettleCurrent, Fenced
  <2> QED
    BY <1>1, <2>1, <2>2, <2>4, <2>5, SettlingKeepsInv DEF SettleOutcome
<1>4. CASE ~(SettleCurrent(a) /\ ~Underflows)
  <2> DEFINE att == [attempts[a] EXCEPT !.worker = "done"]
  <2>1. att \in AttemptRecord /\ att.capacity = attempts[a].capacity /\ att.worker = "done"
    BY <1>2, WorkerFacts
  <2>2. attempts' = [attempts EXCEPT ![a] = att] /\ task' = task /\ run' = run
    BY <1>1, <1>4 DEF SettleOutcome
  <2> HIDE DEF att
  <2> QED
    BY <1>1, <2>1, <2>2, MovingKeepsInv DEF SettleOutcome
<1> QED
  BY <1>3, <1>4

(* The workflow parks its attempt on a wait, or hands it on. *)
LEMMA ParkInv ==
  ASSUME AttemptInv, NEW a \in Attempts, Park(a)
  PROVE  AttemptInv'
<1>1. attempts \in [Attempts -> AttemptRecord] /\ cancels \subseteq Cancellations
      /\ task \in TaskRecord /\ run.active \in Nat
  BY DEF AttemptInv, TypeOK, RunRecord
<1>2. attempts[a] \in AttemptRecord
  BY <1>1
<1>3. CASE SettleCurrent(a) /\ Held(a) /\ ~Underflows
  <2> DEFINE att == [Release(attempts[a]) EXCEPT !.worker = "done"]
  <2>1. att \in AttemptRecord /\ att.capacity = "released" /\ att.worker = "done"
    BY <1>2, ReleasedFacts
  <2>2. /\ attempts' = [attempts EXCEPT ![a] = att]
        /\ run.active > 0 /\ run' = Woken(LessActive(run))
        /\ task' = ParkedTask(attempts[a].exit)
    BY <1>1, <1>3 DEF Park, Underflows
  <2> HIDE DEF att
  <2>4. /\ task' \in TaskRecord /\ task'.phase \notin ActivePhases
        /\ task'.generation \in {task.generation, task.generation + 1}
        /\ task'.phase = "ready" => task'.generation = task.generation + 1
    BY <1>1, <2>2, SettledFacts DEF Park
  <2>5. IsDispatched(a)
    BY <1>3 DEF SettleCurrent, Fenced
  <2> QED
    BY <1>1, <2>1, <2>2, <2>4, <2>5, SettlingKeepsInv DEF Park
<1>4. CASE ~(SettleCurrent(a) /\ Held(a) /\ ~Underflows)
  <2> DEFINE att == [attempts[a] EXCEPT !.worker = "done"]
  <2>1. att \in AttemptRecord /\ att.capacity = attempts[a].capacity /\ att.worker = "done"
    BY <1>2, WorkerFacts
  <2>2. attempts' = [attempts EXCEPT ![a] = att] /\ task' = task /\ run' = run
    BY <1>1, <1>4 DEF Park
  <2> HIDE DEF att
  <2> QED
    BY <1>1, <2>1, <2>2, MovingKeepsInv DEF Park
<1> QED
  BY <1>3, <1>4

(* The watchdog's delivery. *)
LEMMA WatchdogFiresInv ==
  ASSUME AttemptInv, NEW a \in Attempts, WatchdogFires(a)
  PROVE  AttemptInv'
<1>1. attempts \in [Attempts -> AttemptRecord] /\ cancels \subseteq Cancellations
  BY DEF AttemptInv, TypeOK
<1> DEFINE g == IF task.phase = "starting" THEN "lost" ELSE "expired"
           att == IF ~WatchdogCurrent(a) THEN [attempts[a] EXCEPT !.watchdog = "superseded"]
                  ELSE [attempts[a] EXCEPT !.guard = g]
<1>2. attempts' = [attempts EXCEPT ![a] = att]
  BY <1>1 DEF WatchdogFires
<1>3. g \in {"idle", "lost", "expired", "claimed", "failed"}
  OBVIOUS
<1> HIDE DEF g
<1>4. /\ att \in AttemptRecord /\ att.capacity = attempts[a].capacity
      /\ att.worker = attempts[a].worker /\ att.exit = attempts[a].exit
  <2>1. attempts[a] \in AttemptRecord
    BY <1>1
  <2>2. CASE WatchdogCurrent(a)
    BY <2>1, <2>2, <1>3, GuardFacts
  <2>3. CASE ~WatchdogCurrent(a)
    BY <2>1, <2>3 DEF AttemptRecord
  <2> QED
    BY <2>2, <2>3
<1> HIDE DEF att
<1>5. att.worker = "freed" => att.exit \in Outcomes
  BY <1>4 DEF AttemptInv, FreedHasOutcome
<1> QED
  BY <1>1, <1>2, <1>4, <1>5, MovingKeepsInv DEF WatchdogFires

(* The watchdog redispatches an attempt whose delivery was lost. *)
LEMMA WatchdogRedispatchesInv ==
  ASSUME AttemptInv, NEW a \in Attempts, WatchdogRedispatches(a)
  PROVE  AttemptInv'
<1>1. /\ attempts \in [Attempts -> AttemptRecord] /\ cancels \subseteq Cancellations
      /\ task \in TaskRecord /\ run.active \in Nat
  BY DEF AttemptInv, TypeOK, RunRecord
<1>2. /\ attempts[a] \in AttemptRecord
      /\ attempts[a].worker = "freed" => attempts[a].exit \in Outcomes
  BY <1>1 DEF AttemptInv, FreedHasOutcome
<1>3. CASE /\ Held(a) /\ Fenced(a) /\ run.status # "ended"
           /\ task.phase = "starting" /\ ~Underflows
  <2> DEFINE att == GuardDone(Release(attempts[a]))
  <2>1. /\ att \in AttemptRecord /\ att.capacity = "released"
        /\ att.worker = attempts[a].worker /\ att.exit = attempts[a].exit
    <3> DEFINE q == Release(attempts[a])
    <3>1. /\ q \in AttemptRecord /\ q.capacity = "released"
          /\ q.worker = attempts[a].worker /\ q.exit = attempts[a].exit
      BY <1>2, AttemptFacts
    <3> HIDE DEF q
    <3>2. /\ GuardDone(q) \in AttemptRecord /\ GuardDone(q).capacity = q.capacity
          /\ GuardDone(q).worker = q.worker /\ GuardDone(q).exit = q.exit
      BY <3>1, AttemptFacts
    <3> QED
      BY <3>1, <3>2 DEF q
  <2>2. /\ attempts' = [attempts EXCEPT ![a] = att]
        /\ run.active > 0 /\ run' = Woken(LessActive(run)) /\ task' = ReadyAgain
    BY <1>1, <1>3 DEF WatchdogRedispatches, Underflows
  <2> HIDE DEF att
  <2>3. /\ task' \in TaskRecord /\ task'.phase \notin ActivePhases
        /\ task'.generation = task.generation + 1
    BY <1>1, <2>2, ReadyAgainFacts, PhaseFacts
  <2>4. IsDispatched(a)
    BY <1>3 DEF Fenced
  <2> QED
    BY <1>1, <1>2, <2>1, <2>2, <2>3, <2>4, SettlingKeepsInv DEF WatchdogRedispatches
<1>4. CASE /\ Held(a) /\ Fenced(a) /\ run.status # "ended"
           /\ ~(task.phase = "starting" /\ ~Underflows)
  <2> DEFINE att == [attempts[a] EXCEPT !.guard = "idle"]
  <2>1. /\ att \in AttemptRecord /\ att.capacity = attempts[a].capacity
        /\ att.worker = attempts[a].worker /\ att.exit = attempts[a].exit
    BY <1>2, GuardFacts
  <2>2. attempts' = [attempts EXCEPT ![a] = att] /\ task' = task /\ run' = run
    BY <1>1, <1>4 DEF WatchdogRedispatches
  <2> HIDE DEF att
  <2> QED
    BY <1>1, <1>2, <2>1, <2>2, MovingKeepsInv DEF WatchdogRedispatches
<1>5. CASE ~(Held(a) /\ Fenced(a) /\ run.status # "ended")
  <2> DEFINE att == GuardDone(attempts[a])
  <2>1. /\ att \in AttemptRecord /\ att.capacity = attempts[a].capacity
        /\ att.worker = attempts[a].worker /\ att.exit = attempts[a].exit
    BY <1>2, AttemptFacts
  <2>2. attempts' = [attempts EXCEPT ![a] = att] /\ task' = task /\ run' = run
    BY <1>1, <1>5 DEF WatchdogRedispatches
  <2> HIDE DEF att
  <2> QED
    BY <1>1, <1>2, <2>1, <2>2, MovingKeepsInv DEF WatchdogRedispatches
<1> QED
  BY <1>3, <1>4, <1>5

(* The watchdog claims the release of an expired attempt. *)
LEMMA WatchdogClaimsInv ==
  ASSUME AttemptInv, NEW a \in Attempts, WatchdogClaims(a)
  PROVE  AttemptInv'
<1>1. attempts \in [Attempts -> AttemptRecord] /\ cancels \subseteq Cancellations
  BY DEF AttemptInv, TypeOK
<1>2. /\ attempts[a] \in AttemptRecord
      /\ attempts[a].worker = "freed" => attempts[a].exit \in Outcomes
  BY <1>1 DEF AttemptInv, FreedHasOutcome
<1> DEFINE g == IF ClaimGranted(a) THEN "claimed" ELSE "idle"
           att == [attempts[a] EXCEPT !.guard = g]
<1>3. g \in {"idle", "lost", "expired", "claimed", "failed"}
  OBVIOUS
<1>4. /\ attempts' = [attempts EXCEPT ![a] = att]
      /\ \/ task' = task
         \/ task' = [task EXCEPT !.phase = "releasing"] /\ IsDispatched(a)
  <2>1. CASE ClaimGranted(a)
    BY <1>1, <2>1 DEF WatchdogClaims, ClaimGranted, Fenced
  <2>2. CASE ~ClaimGranted(a)
    BY <1>1, <2>2 DEF WatchdogClaims
  <2> QED
    BY <2>1, <2>2
<1> HIDE DEF g
<1>5. /\ att \in AttemptRecord /\ att.capacity = attempts[a].capacity
      /\ att.worker = attempts[a].worker /\ att.exit = attempts[a].exit
  BY <1>2, <1>3, GuardFacts
<1> HIDE DEF att
<1> QED
  BY <1>1, <1>2, <1>4, <1>5, MovingKeepsInv DEF WatchdogClaims

(* The watchdog settles the attempt whose release it claimed. *)
LEMMA WatchdogSettlesInv ==
  ASSUME AttemptInv, NEW a \in Attempts, WatchdogSettles(a)
  PROVE  AttemptInv'
<1>1. /\ attempts \in [Attempts -> AttemptRecord] /\ cancels \subseteq Cancellations
      /\ task \in TaskRecord /\ run.active \in Nat
  BY DEF AttemptInv, TypeOK, RunRecord
<1>2. /\ attempts[a] \in AttemptRecord
      /\ attempts[a].worker = "freed" => attempts[a].exit \in Outcomes
  BY <1>1 DEF AttemptInv, FreedHasOutcome
<1>3. CASE SettleCurrent(a) /\ ~Underflows
  <2> DEFINE att == GuardDone(Release(attempts[a]))
  <2>1. /\ att \in AttemptRecord /\ att.capacity = "released"
        /\ att.worker = attempts[a].worker /\ att.exit = attempts[a].exit
    <3> DEFINE q == Release(attempts[a])
    <3>1. /\ q \in AttemptRecord /\ q.capacity = "released"
          /\ q.worker = attempts[a].worker /\ q.exit = attempts[a].exit
      BY <1>2, AttemptFacts
    <3> HIDE DEF q
    <3>2. /\ GuardDone(q) \in AttemptRecord /\ GuardDone(q).capacity = q.capacity
          /\ GuardDone(q).worker = q.worker /\ GuardDone(q).exit = q.exit
      BY <3>1, AttemptFacts
    <3> QED
      BY <3>1, <3>2 DEF q
  <2>2. attempts' = [attempts EXCEPT ![a] = att]
    BY <1>1, <1>3 DEF WatchdogSettles
  <2> HIDE DEF att
  <2>3. PICK result \in {Exhausted("retry"), "unknown"} : Settles(result)
    BY <1>3 DEF WatchdogSettles
  <2>4. result \in Outcomes \cup {"unknown"}
    BY DEF Exhausted, Outcomes
  <2>5. run.active > 0 /\ run' = Woken(LessActive(run)) /\ task' = SettledTask(result)
    BY <1>1, <1>3, <2>3 DEF Settles, Underflows
  <2>6. /\ task' \in TaskRecord /\ task'.phase \notin ActivePhases
        /\ task'.generation \in {task.generation, task.generation + 1}
        /\ task'.phase = "ready" => task'.generation = task.generation + 1
    BY <1>1, <2>4, <2>5, SettledFacts
  <2>7. IsDispatched(a)
    BY <1>3 DEF SettleCurrent, Fenced
  <2> QED
    BY <1>1, <1>2, <2>1, <2>2, <2>5, <2>6, <2>7, SettlingKeepsInv DEF WatchdogSettles
<1>4. CASE ~SettleCurrent(a)
  <2> DEFINE att == GuardDone(attempts[a])
  <2>1. /\ att \in AttemptRecord /\ att.capacity = attempts[a].capacity
        /\ att.worker = attempts[a].worker /\ att.exit = attempts[a].exit
    BY <1>2, AttemptFacts
  <2>2. attempts' = [attempts EXCEPT ![a] = att] /\ task' = task /\ run' = run
    BY <1>1, <1>4 DEF WatchdogSettles
  <2> HIDE DEF att
  <2> QED
    BY <1>1, <1>2, <2>1, <2>2, MovingKeepsInv DEF WatchdogSettles
<1>5. CASE SettleCurrent(a) /\ Underflows
  <2> DEFINE att == [attempts[a] EXCEPT !.guard = "failed"]
  <2>1. /\ att \in AttemptRecord /\ att.capacity = attempts[a].capacity
        /\ att.worker = attempts[a].worker /\ att.exit = attempts[a].exit
    BY <1>2, GuardFacts
  <2>2. attempts' = [attempts EXCEPT ![a] = att] /\ task' = task /\ run' = run
    BY <1>1, <1>5 DEF WatchdogSettles
  <2> HIDE DEF att
  <2> QED
    BY <1>1, <1>2, <2>1, <2>2, MovingKeepsInv DEF WatchdogSettles
<1> QED
  BY <1>3, <1>4, <1>5

(* A cancellation settles the attempt it finds current. *)
LEMMA CancelSettlesInv ==
  ASSUME AttemptInv, NEW c \in Cancellations, IsDispatched(c.attempt),
         ~Underflows, CancelSettles(c)
  PROVE  AttemptInv'
<1>1. /\ attempts \in [Attempts -> AttemptRecord] /\ task \in TaskRecord
      /\ run.active \in Nat /\ cancels' \subseteq Cancellations
  BY DEF AttemptInv, TypeOK, RunRecord, CancelSettles
<1>2. c.attempt \in Attempts
  BY DEF Cancellations
<1> DEFINE att == Release(attempts[c.attempt])
<1>3. /\ att \in AttemptRecord /\ att.capacity = "released"
      /\ att.worker = "freed" => att.exit \in Outcomes
  <2>1. attempts[c.attempt] \in AttemptRecord
    BY <1>1, <1>2
  <2>2. /\ att \in AttemptRecord /\ att.capacity = "released"
        /\ att.worker = attempts[c.attempt].worker /\ att.exit = attempts[c.attempt].exit
    BY <2>1, AttemptFacts
  <2> HIDE DEF att
  <2> QED
    BY <1>2, <2>2 DEF AttemptInv, FreedHasOutcome
<1>4. run.active > 0 /\ attempts' = [attempts EXCEPT ![c.attempt] = att]
  BY <1>1, <1>2 DEF CancelSettles, Underflows
<1>5. \/ run' = Woken(LessActive(run)) /\ task' = [task EXCEPT !.phase = "cancelled"]
      \/ run' = LessActive(run) /\ task' = ReadyAgain
  BY DEF CancelSettles
<1>6. /\ task' \in TaskRecord /\ task'.phase \notin ActivePhases
      /\ task'.generation \in {task.generation, task.generation + 1}
      /\ task'.phase = "ready" => task'.generation = task.generation + 1
      /\ \/ run' = Woken(LessActive(run))
         \/ run' = LessActive(run) /\ task'.phase \notin FinishedPhases
  BY <1>1, <1>5, SettledFacts, ReadyAgainFacts, PhaseFacts
<1> HIDE DEF att
<1> QED
  BY <1>1, <1>2, <1>3, <1>4, <1>6, SettlingKeepsInv

(* The cancellations that pause and run cancellation send. *)
LEMMA CancelInv ==
  ASSUME AttemptInv, NEW c \in cancels, Cancel(c)
  PROVE  AttemptInv'
<1>1. run \in RunRecord /\ cancels \subseteq Cancellations /\ c \in Cancellations
  BY DEF AttemptInv, TypeOK
<1>2. ASSUME UNCHANGED <<run, task, attempts>>, cancels' \subseteq Cancellations
      PROVE  AttemptInv'
  <2>1. FinishedIsWoken'
    BY <1>2 DEF AttemptInv, FinishedIsWoken
  <2>2. /\ run.status = "paused" => run.active = 0
        /\ run.status = "ended" => task.phase \in FinishedPhases
    BY DEF AttemptInv, StatusIsDrained
  <2> QED
    BY <1>1, <1>2, <2>1, <2>2, RunKeepsInv
<1>3. \A st \in {"sent", "unstarted", "drain"} : [c EXCEPT !.step = st] \in Cancellations
  BY <1>1 DEF Cancellations
<1>4. CASE CancelLoads(c)
  <2>1. cancels' \subseteq Cancellations
    BY <1>1, <1>3, <1>4 DEF CancelLoads
  <2> QED
    BY <1>2, <1>4, <2>1 DEF CancelLoads
<1>5. CASE CancelSettlesNothing(c)
  <2>1. cancels' \subseteq Cancellations
    BY <1>1, <1>3, <1>5 DEF CancelSettlesNothing, Requeued
  <2> QED
    BY <1>2, <1>5, <2>1 DEF CancelSettlesNothing
<1>6. CASE IsDispatched(c.attempt) /\ ~Underflows /\ CancelSettles(c)
  BY <1>1, <1>6, CancelSettlesInv
<1>7. CASE CancelUnstarted(c)
  BY <1>5, <1>6, <1>7 DEF CancelUnstarted, CancelFence
<1>8. CASE CancelReleaseFails(c)
  BY <1>5, <1>8 DEF CancelReleaseFails
<1>9. CASE CancelDrains(c)
  BY <1>5, <1>6, <1>9 DEF CancelDrains, PauseDrains, CancelFence, SettleCurrent, Fenced
<1> QED
  BY <1>4, <1>7, <1>8, <1>9 DEF Cancel

--------------------------------------------------------------------------------
(* Every step keeps the invariant. *)
LEMMA NextInv ==
  ASSUME AttemptInv, [Next]_vars
  PROVE  AttemptInv'
<1>1. CASE Dispatcher
  BY <1>1, AdmitInv DEF Dispatcher
<1>2. CASE Controller
  BY <1>2, ControllerInv
<1>3. CASE User
  BY <1>3, UserInv
<1>4. ASSUME NEW a \in Attempts,
             \/ Start(a) \/ (\E exit \in Exits : ClaimRelease(a, exit))
             \/ Releases(a) \/ Watchdog(a)
      PROVE  AttemptInv'
  BY <1>4, StartInv, ClaimReleaseInv, ReleaseFailsInv, FreeCapacityInv, SettleOutcomeInv,
     ParkInv, WatchdogFiresInv, WatchdogRedispatchesInv, WatchdogClaimsInv, WatchdogSettlesInv
     DEF Releases, Watchdog
<1>5. ASSUME NEW c \in cancels, Cancel(c) PROVE AttemptInv'
  BY <1>5, CancelInv
<1>6. CASE UNCHANGED vars
  BY <1>6 DEF vars, AttemptInv, TypeOK, CapacityFollowsAttempt, ActiveIsAdmitted,
     ActiveIsCounted, StatusIsDrained, FinishedIsWoken, RowsAreAdmitted, FreedHasOutcome,
     Held, IsDispatched
<1> QED
  BY <1>1, <1>2, <1>3, <1>4, <1>5, <1>6 DEF Next

(* The rows keep their types and the inductive invariant holds, whoever settles an
   attempt and in whatever order. *)
THEOREM AttemptSafe == Spec => []AttemptInv
<1>1. Init => AttemptInv
  BY InitInv
<1>2. AttemptInv /\ [Next]_vars => AttemptInv'
  BY NextInv
<1> QED
  BY <1>1, <1>2, PTL DEF Spec

(* Capacity follows the attempt: no settlement leaks a reservation and none is
   returned under a running attempt, for any number of attempts and generations. *)
THEOREM CapacitySafe == Spec => []CapacityFollowsAttempt
<1>1. AttemptInv => CapacityFollowsAttempt
  BY DEF AttemptInv
<1> QED
  BY <1>1, AttemptSafe, PTL

(* A run that calls itself paused has drained. *)
THEOREM PauseSafe == Spec => []PausedIsDrained
<1>1. AttemptInv => PausedIsDrained
  <2> SUFFICES ASSUME AttemptInv, run.status = "paused"
               PROVE  /\ \A a \in Attempts : ~Held(a)
                      /\ ~run.terminal => task.phase \notin ActivePhases
    BY DEF PausedIsDrained
  <2>1. run.active = 0
    BY DEF AttemptInv, StatusIsDrained
  <2>2. \A a \in Attempts : Held(a) => task.phase \in ActivePhases /\ Held(task.generation)
    BY DEF AttemptInv, CapacityFollowsAttempt, IsDispatched
  <2> QED
    BY <2>1, <2>2 DEF AttemptInv, ActiveIsCounted
<1> QED
  BY <1>1, AttemptSafe, PTL

(* No wake is lost: a live run whose work is finished has a current activation. *)
THEOREM WakeSafe == Spec => []FinishedIsWoken
<1>1. AttemptInv => FinishedIsWoken
  BY DEF AttemptInv
<1> QED
  BY <1>1, AttemptSafe, PTL

--------------------------------------------------------------------------------
(* What no step does, however late its actor is. *)

(* The outcome of a task is final, and so is the end of its run. *)
Final ==
  /\ task.phase \in FinishedPhases => task' = task
  /\ run.status = "ended" => run' = run

(* An attempt is admitted once, and its capacity is returned once. *)
Once ==
  \A a \in Attempts : attempts[a].capacity # "none" =>
    /\ attempts'[a].controller = attempts[a].controller
    /\ attempts'[a].capacity # "none"
    /\ attempts[a].capacity = "released" => attempts'[a].capacity = "released"

(* A late workflow, watchdog or cancellation finds a finished task no longer active. *)
LEMMA FinalStep ==
  ASSUME AttemptInv, [Next]_vars
  PROVE  Final
<1> SUFFICES ASSUME task.phase \in FinishedPhases
             PROVE  task' = task /\ (run.status = "ended" => run' = run)
  BY DEF Final, AttemptInv, StatusIsDrained
<1>1. /\ task.phase \notin ActivePhases
      /\ task.phase \notin {"ready", "review", "input", "starting", "running", "releasing"}
  BY DEF ActivePhases, FinishedPhases
<1>2. CASE Dispatcher
  BY <1>1, <1>2 DEF Dispatcher, Admit
<1>3. CASE Controller
  BY <1>1, <1>3 DEF Controller, AdvanceIdle, AdvanceSettles, AdvanceDrains, TerminalPage
<1>4. CASE User
  <2>1. Pausable = {}
    BY <1>1 DEF Pausable
  <2> QED
    BY <1>1, <1>4, <2>1 DEF User, Pause, Resume, CancelRun, ResolveReview, ResumeInput,
       TerminalPage
<1>5. ASSUME NEW a \in Attempts,
             \/ Start(a) \/ (\E exit \in Exits : ClaimRelease(a, exit))
             \/ Releases(a) \/ Watchdog(a)
      PROVE  task' = task /\ run' = run
  <2>1. ~Fenced(a) /\ ~StartAllowed(a) /\ ~ClaimGranted(a) /\ ~SettleCurrent(a)
    BY <1>1 DEF Fenced, IsDispatched, StartAllowed, ClaimGranted, SettleCurrent
  <2> QED
    BY <1>5, <2>1 DEF Start, ClaimRelease, Releases, ReleaseFails, FreeCapacity, SettleOutcome,
       Park, Watchdog, WatchdogFires, WatchdogRedispatches, WatchdogClaims,
       WatchdogReleaseFails, WatchdogSettles
<1>6. ASSUME NEW c \in cancels, Cancel(c) PROVE task' = task /\ run' = run
  <2>1. ~CancelFence(c) /\ ~PauseDrains(c) /\ ~SettleCurrent(c.attempt)
    BY <1>1 DEF CancelFence, PauseDrains, SettleCurrent, Fenced, IsDispatched
  <2> QED
    BY <1>6, <2>1 DEF Cancel, CancelLoads, CancelUnstarted, CancelReleaseFails,
       CancelDrains, CancelSettlesNothing
<1>7. CASE UNCHANGED vars
  BY <1>7 DEF vars
<1> QED
  BY <1>2, <1>3, <1>4, <1>5, <1>6, <1>7 DEF Next

(* The rows of an attempt are written by its own actors, who keep its admission. *)
LEMMA OnceStep ==
  ASSUME AttemptInv, [Next]_vars
  PROVE  Once
<1>1. attempts \in [Attempts -> AttemptRecord] /\ cancels \subseteq Cancellations
      /\ task \in TaskRecord
  BY DEF AttemptInv, TypeOK
<1>2. ASSUME NEW a \in Attempts, NEW att, attempts' = [attempts EXCEPT ![a] = att],
             att.controller = attempts[a].controller,
             att.capacity \in {attempts[a].capacity, "released"}
      PROVE  Once
  BY <1>1, <1>2 DEF Once
<1>3. ASSUME UNCHANGED attempts PROVE Once
  BY <1>3 DEF Once
<1>4. CASE Dispatcher
  <2>1. PICK a \in Attempts : Admit(a)
    BY <1>4 DEF Dispatcher
  <2>2. attempts[a].capacity = "none"
    BY <1>1, <2>1 DEF Admit, AttemptInv, RowsAreAdmitted, TaskRecord, Attempts
  <2> QED
    BY <1>1, <2>1, <2>2 DEF Admit, Once
<1>5. CASE TerminalPage
  <2>1. CASE UNCHANGED attempts
    BY <1>3, <2>1
  <2>2. CASE /\ task.phase \in ActivePhases /\ Held(task.generation)
             /\ attempts' = [attempts EXCEPT ![task.generation].capacity = "reconciling"]
    <3>1. task.generation \in Attempts
      BY <2>2 DEF AttemptInv, ActiveIsAdmitted
    <3> QED
      BY <1>1, <2>2, <3>1 DEF Once, Held, AttemptRecord
  <2> QED
    BY <1>5, <2>1, <2>2 DEF TerminalPage
<1>6. CASE Controller
  BY <1>3, <1>5, <1>6 DEF Controller, AdvanceIdle, AdvanceSettles, AdvanceDrains
<1>7. CASE User
  BY <1>3, <1>5, <1>7 DEF User, Pause, Resume, CancelRun, ResolveReview, ResumeInput
<1>8. ASSUME NEW a \in Attempts,
             \/ Start(a) \/ (\E exit \in Exits : ClaimRelease(a, exit))
             \/ Releases(a) \/ Watchdog(a)
      PROVE  Once
  <2>1. attempts[a] \in AttemptRecord
    BY <1>1
  <2>2. CASE Start(a) \/ (\E exit \in Exits : ClaimRelease(a, exit))
    BY <1>1, <1>2, <2>1, <2>2 DEF Start, ClaimRelease, AttemptRecord
  <2>3. CASE Releases(a)
    BY <1>1, <1>2, <2>1, <2>3
       DEF Releases, ReleaseFails, FreeCapacity, SettleOutcome, Park, Release, AttemptRecord
  <2>4. CASE Watchdog(a)
    BY <1>1, <1>2, <2>1, <2>4
       DEF Watchdog, WatchdogFires, WatchdogRedispatches, WatchdogClaims,
           WatchdogReleaseFails, WatchdogSettles, Release, GuardDone, AttemptRecord
  <2> QED
    BY <1>8, <2>2, <2>3, <2>4
<1>9. ASSUME NEW c \in cancels, Cancel(c) PROVE Once
  <2>1. c.attempt \in Attempts /\ attempts[c.attempt] \in AttemptRecord
    BY <1>1 DEF Cancellations
  <2> QED
    BY <1>1, <1>2, <1>3, <1>9, <2>1 DEF Cancel, CancelLoads, CancelUnstarted,
       CancelReleaseFails, CancelDrains, CancelSettles, CancelSettlesNothing, Release, AttemptRecord
<1>10. CASE UNCHANGED vars
  BY <1>3, <1>10 DEF vars
<1> QED
  BY <1>4, <1>6, <1>7, <1>8, <1>9, <1>10 DEF Next

(* A settled outcome is never overwritten and an ended run never revived, though
   workflow, watchdog and cancellation of the same attempt may all still arrive. *)
THEOREM OutcomeIsFinal == Spec => [][Final]_vars
<1>1. AttemptInv /\ [Next]_vars => Final
  BY FinalStep
<1> QED
  BY <1>1, AttemptSafe, PTL DEF Spec

(* No attempt generation is admitted twice and no returned capacity comes back. *)
THEOREM AdmittedOnce == Spec => [][Once]_vars
<1>1. AttemptInv /\ [Next]_vars => Once
  BY OnceStep
<1> QED
  BY <1>1, AttemptSafe, PTL DEF Spec
================================================================================
