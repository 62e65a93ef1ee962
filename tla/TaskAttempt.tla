------------------------------- MODULE TaskAttempt -------------------------------
(* One task of a durable execution run, as rows of the execution repository, and *)
(* everybody who settles its attempts: the attempt workflow, the watchdog that    *)
(* is armed with every admission, the cancellations that pause and run            *)
(* cancellation send, and the controller that admits and drains.                  *)
(*                                                                                *)
(* A repository call is one transaction and one action. Between two calls of one  *)
(* actor every other actor may commit, so each call checks its fence again: the   *)
(* controller generation of the run, the attempt generation of the task and the   *)
(* dispatch that is active.                                                       *)
EXTENDS Naturals, FiniteSets

CONSTANTS
  MaxAttempts,     \* bound: attempts of the task that the controller may admit
  MaxTries,        \* retry.max_attempts
  MaxGeneration,   \* bound: controller generations of the run
  CanPause,        \* whether the user pauses and resumes the run
  CanCancel        \* whether the user cancels the run

ASSUME AttemptBounds ==
  /\ MaxAttempts \in Nat \ {0} /\ MaxTries \in Nat \ {0} /\ MaxGeneration \in Nat \ {0}
  /\ CanPause \in BOOLEAN /\ CanCancel \in BOOLEAN

Attempts == 1..MaxAttempts

(* execution_task.status with attempt_state, where both matter:                  *)
(*   starting         dispatching / dispatching                                   *)
(*   startCancelling  dispatching / cancelling                                    *)
(*   running          running / running                                           *)
(*   releasing        running / cancelling                                        *)
ActivePhases == {"starting", "startCancelling", "running", "releasing"}
FinishedPhases == {"completed", "failed", "cancelled", "unknown"}
Phases == ActivePhases \cup FinishedPhases \cup {"ready", "review", "input"}

(* How the work of an attempt ends. The first three are task outcomes. *)
Outcomes == {"completed", "failed", "retry"}
Exits == Outcomes \cup {"review", "continue", "input"}

Cancellations == [kind : {"pause", "terminal"}, generation : 1..MaxGeneration,
                  attempt : Attempts, step : {"sent", "unstarted", "drain"}]

VARIABLES
  run,        \* generation, status, pending terminal, active_task_count, activation_state
  task,       \* phase, attempt_generation, attempt (tries)
  attempts,   \* per attempt: admission generation, capacity, watchdog, workflow, watchdog handler
  cancels     \* cancellations under way: sent, or loaded and about to settle

vars == <<run, task, attempts, cancels>>

NoAttempt == [controller |-> 0, capacity |-> "none", watchdog |-> "none",
              worker |-> "none", exit |-> "none", guard |-> "idle"]

Init ==
  /\ run = [generation |-> 1, status |-> "live", terminal |-> FALSE, active |-> 0,
            activation |-> "queued"]
  /\ task = [phase |-> "ready", generation |-> 1, tries |-> 1]
  /\ attempts = [a \in Attempts |-> NoAttempt]
  /\ cancels = {}

--------------------------------------------------------------------------------
(* Fences.                                                                    *)

Held(a) == attempts[a].capacity \in {"reserved", "reconciling"}

(* task_attempt_resource_fence_matches: the attempt is still the active dispatch. *)
IsDispatched(a) == task.generation = a /\ task.phase \in ActivePhases

(* task_attempt_fence_matches: ... and its admission is of the run's generation. *)
Fenced(a) == IsDispatched(a) /\ run.generation = attempts[a].controller

(* task_attempt_resources_match. *)
ResourcesMatch(a) ==
  attempts[a].capacity = "reserved" /\ attempts[a].watchdog = "pending"

PausingStates == {"pausing", "paused"}

--------------------------------------------------------------------------------
(* Rows.                                                                      *)

(* The update trigger of execution_run: the last active attempt ends a pause. *)
Promoted(r) ==
  IF r.status = "pausing" /\ r.active = 0
  THEN [r EXCEPT !.status = "paused", !.activation = "paused"]
  ELSE r

(* transition_node_counters_in_tx moves the wake epoch and enqueues nothing: an
   activation that is on its way finds its epoch stale and is dropped. *)
Counted(r) == [r EXCEPT !.activation = IF @ = "queued" THEN "idle" ELSE @]

(* ... with the task leaving the active statuses. *)
LessActive(r) == Promoted([Counted(r) EXCEPT !.active = @ - 1])

(* enqueue_run_activation_in_conn. *)
Woken(r) == [r EXCEPT !.activation = "queued"]

(* Mutant: the reservation is left behind. *)
ReleaseWatchdogOnly(att) == [att EXCEPT !.watchdog = "superseded"]

(* release_task_capacity_in_tx and supersede_trigger_in_conn. *)
Release(att) == [att EXCEPT !.capacity = "released", !.watchdog = "superseded"]

(* A return to ready is a new attempt generation. *)
ReadyAgain == [task EXCEPT !.phase = "ready", !.generation = @ + 1]

--------------------------------------------------------------------------------
(* The dispatcher, which admits, and the controller, which advances the run.  *)

(* admit_ready_attempts. *)
Admit(a) ==
  /\ task.phase = "ready" /\ task.generation = a
  /\ run.status = "live" /\ run.activation # "paused" /\ ~run.terminal
  /\ task' = [task EXCEPT !.phase = "starting"]
  /\ run' = [Counted(run) EXCEPT !.active = @ + 1]
  /\ attempts' = [attempts EXCEPT ![a] =
                    [NoAttempt EXCEPT !.controller = run.generation, !.capacity = "reserved",
                                      !.watchdog = "pending", !.worker = "sent"]]
  /\ UNCHANGED cancels

(* An activation that finds nothing to settle. A ready task is the dispatcher's. *)
AdvanceIdle ==
  /\ run.status = "live" /\ run.activation = "queued" /\ ~run.terminal
  /\ task.phase \notin FinishedPhases
  /\ run' = [run EXCEPT !.activation = "idle"]
  /\ UNCHANGED <<task, attempts, cancels>>

Ended == [run EXCEPT !.status = "ended", !.terminal = TRUE, !.active = 0,
                     !.activation = "idle"]

(* An activation that finds the run's work finished. *)
AdvanceSettles ==
  /\ run.status = "live" /\ run.activation = "queued" /\ ~run.terminal
  /\ task.phase \in FinishedPhases
  /\ run' = Ended
  /\ UNCHANGED <<task, attempts, cancels>>

CancellingPhase(p) == IF p \in {"starting", "startCancelling"} THEN "startCancelling"
                      ELSE "releasing"

(* checkpoint_pending_terminal_wake: the counter becomes the number of held
   reservations, and the wake is consumed. *)
Checkpointed(r) ==
  Promoted([r EXCEPT !.active = Cardinality({a \in Attempts : Held(a)}),
                     !.activation = "idle"])

(* advance_pending_terminal_page_in_conn for one task. A held attempt without its
   watchdog is an error that rolls the page back. A task that is already being
   released and has returned its capacity is not looked at. *)
TerminalPage ==
  \/ /\ task.phase \in FinishedPhases
     /\ run' = Ended
     /\ UNCHANGED <<task, attempts, cancels>>
  \/ /\ task.phase \in {"ready", "review", "input"}
     /\ task' = [task EXCEPT !.phase = "cancelled"]
     /\ run' = Ended
     /\ UNCHANGED <<attempts, cancels>>
  \/ LET a == task.generation
     IN /\ task.phase \in ActivePhases /\ Held(a)
        /\ attempts[a].watchdog = "pending"
        /\ task' = [task EXCEPT !.phase = CancellingPhase(@)]
        /\ attempts' = [attempts EXCEPT ![a].capacity = "reconciling"]
        /\ cancels' = cancels \cup
             {[kind |-> "terminal", generation |-> run.generation, attempt |-> a,
               step |-> "sent"]}
        /\ run' = [Checkpointed(run) EXCEPT !.terminal = TRUE]
  \/ /\ task.phase = "releasing" /\ ~Held(task.generation)
     /\ run' = [Checkpointed(run) EXCEPT !.terminal = TRUE]
     /\ UNCHANGED <<task, attempts, cancels>>

(* An activation of a run with a pending terminal drains it. *)
AdvanceDrains ==
  /\ run.status = "live" /\ run.activation = "queued" /\ run.terminal
  /\ TerminalPage

--------------------------------------------------------------------------------
(* The user: pause, resume and cancel.                                        *)

(* The attempts that enqueue_pause_cancellations matches. *)
Pausable ==
  {a \in Attempts : /\ task.generation = a /\ task.phase \in {"starting", "running"}
                    /\ Held(a) /\ attempts[a].controller = run.generation
                    /\ attempts[a].watchdog = "pending"}

(* Mutant: the run is called paused while its attempts drain. *)
PausedAtOnce == "paused"

PauseStatus == IF run.active = 0 THEN "paused" ELSE "pausing"

(* pause_run: refused when the matched attempts are not those the counter holds. *)
Pause ==
  /\ CanPause /\ run.status = "live" /\ run.generation < MaxGeneration
  /\ Cardinality(Pausable) = run.active
  /\ run' = [run EXCEPT !.generation = @ + 1, !.status = PauseStatus,
                        !.activation = "paused"]
  /\ task' = IF Pausable = {} THEN task
             ELSE [task EXCEPT !.phase = CancellingPhase(@)]
  /\ cancels' = cancels \cup
       {[kind |-> "pause", generation |-> run.generation + 1, attempt |-> a,
         step |-> "sent"] : a \in Pausable}
  /\ UNCHANGED attempts

(* resume_run. *)
Resume ==
  /\ run.status = "paused" /\ run.active = 0 /\ run.activation = "paused"
  /\ \A a \in Attempts : ~Held(a)
  /\ run.generation < MaxGeneration
  /\ run' = Woken([run EXCEPT !.generation = @ + 1, !.status = "live"])
  /\ UNCHANGED <<task, attempts, cancels>>

(* fence_cancellation_terminal_and_enqueue_settlement: the terminal intent and its
   first page are one transaction. *)
CancelRun ==
  /\ CanCancel /\ run.status # "ended" /\ ~run.terminal
  /\ TerminalPage

--------------------------------------------------------------------------------
(* The attempt workflow.                                                      *)

StartAllowed(a) ==
  /\ Fenced(a) /\ ResourcesMatch(a)
  /\ task.phase = "starting" /\ run.status = "live" /\ ~run.terminal

(* start_task_attempt: a delivery that is not allowed to start ends the workflow. *)
Start(a) ==
  /\ attempts[a].worker = "sent"
  /\ IF StartAllowed(a)
     THEN /\ task' = [task EXCEPT !.phase = "running"]
          /\ attempts' = [attempts EXCEPT ![a].worker = "working"]
     ELSE /\ attempts' = [attempts EXCEPT ![a].worker = "done"]
          /\ UNCHANGED task
  /\ UNCHANGED <<run, cancels>>

(* begin_task_attempt_release: a claim of an attempt that is already being released
   is a replay, and granted. *)
ClaimGranted(a) ==
  /\ Fenced(a) /\ ResourcesMatch(a)
  /\ task.phase \in {"running", "releasing"}

(* exhaust_retry_outcome: the last try does not ask for another. *)
Exhausted(exit) == IF exit = "retry" /\ task.tries >= MaxTries THEN "failed" ELSE exit

(* The work is over and the workflow claims the release of its hands. *)
ClaimRelease(a, exit) ==
  /\ attempts[a].worker = "working"
  /\ IF ClaimGranted(a)
     THEN /\ task' = [task EXCEPT !.phase = "releasing"]
          /\ attempts' = [attempts EXCEPT ![a].worker = "claimed",
                                          ![a].exit = Exhausted(exit)]
     ELSE /\ attempts' = [attempts EXCEPT ![a].worker = "done"]
          /\ UNCHANGED task
  /\ UNCHANGED <<run, cancels>>

(* checkpoint_and_release_execution_hands is tried once: when the provider fails,
   the error ends the workflow after its claim, with nothing settled. *)
ReleaseFails(a) ==
  /\ attempts[a].worker = "claimed"
  /\ attempts' = [attempts EXCEPT ![a].worker = "failed"]
  /\ UNCHANGED <<run, task, cancels>>

(* release_released_task_attempt_capacity: the capacity of an outcome is returned
   before the outcome is settled, and the run's counter is left alone. *)
FreeCapacity(a) ==
  /\ attempts[a].worker = "claimed" /\ attempts[a].exit \in Outcomes
  /\ IF Fenced(a) /\ task.phase = "releasing" /\ run.status # "ended"
     THEN attempts' = [attempts EXCEPT ![a] = [Release(@) EXCEPT !.worker = "freed"]]
     ELSE attempts' = [attempts EXCEPT ![a].worker = "done"]
  /\ UNCHANGED <<run, task, cancels>>

(* settle_task_attempt_inner, when it is not stale ... *)
SettleCurrent(a) ==
  /\ Fenced(a) /\ task.phase = "releasing" /\ run.status # "ended"
  /\ attempts[a].capacity = "released" => attempts[a].watchdog = "superseded"

(* ... and its effect. *)
SettledTask(result) ==
  IF result = "retry" THEN [ReadyAgain EXCEPT !.tries = @ + 1]
  ELSE [task EXCEPT !.phase = result]

(* Mutant: the activation is enqueued before the counters move. *)
SettlesWakingFirst(result) ==
  /\ run' = LessActive(Woken(run))
  /\ task' = SettledTask(result)

Settles(result) ==
  /\ run' = Woken(LessActive(run))
  /\ task' = SettledTask(result)

(* A settlement that would take the counter of active tasks below zero is rolled
   back as InvalidRepositoryData, an error that ends the handler. *)
Underflows == run.active = 0

(* settle_released_task_attempt by the workflow. *)
SettleOutcome(a) ==
  /\ attempts[a].worker = "freed"
  /\ IF SettleCurrent(a) /\ ~Underflows
     THEN /\ Settles(attempts[a].exit)
          /\ attempts' = [attempts EXCEPT ![a] = [Release(@) EXCEPT !.worker = "done"]]
     ELSE /\ attempts' = [attempts EXCEPT ![a].worker = "done"]
          /\ UNCHANGED <<run, task>>
  /\ UNCHANGED cancels

ParkedTask(exit) == IF exit = "continue" THEN ReadyAgain ELSE [task EXCEPT !.phase = exit]

(* park_task_attempt_on_review, yield_task_attempt_continuation and the settlement
   of an input wait: capacity and task in one transaction. *)
Park(a) ==
  /\ attempts[a].worker = "claimed" /\ attempts[a].exit \in Exits \ Outcomes
  /\ IF SettleCurrent(a) /\ Held(a) /\ ~Underflows
     THEN /\ run' = Woken(LessActive(run))
          /\ task' = ParkedTask(attempts[a].exit)
          /\ attempts' = [attempts EXCEPT ![a] = [Release(@) EXCEPT !.worker = "done"]]
     ELSE /\ attempts' = [attempts EXCEPT ![a].worker = "done"]
          /\ UNCHANGED <<run, task>>
  /\ UNCHANGED cancels

(* A paused run is not woken by what its waits are answered with. *)
WokenUnlessPaused ==
  IF run.status \in PausingStates THEN Counted(run) ELSE Woken(Counted(run))

(* resolve_task_attempt_review. *)
ResolveReview ==
  /\ task.phase = "review"
  /\ task' = ReadyAgain
  /\ run' = WokenUnlessPaused
  /\ UNCHANGED <<attempts, cancels>>

(* resume_task with an input. *)
ResumeInput ==
  /\ task.phase = "input" /\ run.status # "ended" /\ ~run.terminal
  /\ task' = ReadyAgain
  /\ run' = WokenUnlessPaused
  /\ UNCHANGED <<attempts, cancels>>

--------------------------------------------------------------------------------
(* The watchdog.                                                              *)

(* prepare_watchdog_trigger: the trigger is current and its reservation is held. *)
WatchdogCurrent(a) ==
  /\ task.generation = a /\ task.phase \in {"starting", "running"}
  /\ run.generation = attempts[a].controller /\ run.status # "ended"
  /\ Held(a)

(* A due watchdog is delivered, again when its handler failed. A watchdog that is
   no longer current is dropped; a live attempt is looked at again later, which
   changes nothing. *)
WatchdogFires(a) ==
  /\ attempts[a].watchdog = "pending" /\ attempts[a].guard \in {"idle", "failed"}
  /\ attempts' =
       [attempts EXCEPT ![a] =
          IF ~WatchdogCurrent(a) THEN [@ EXCEPT !.watchdog = "superseded"]
          ELSE [@ EXCEPT !.guard = IF task.phase = "starting" THEN "lost" ELSE "expired"]]
  /\ UNCHANGED <<run, task, cancels>>

(* settle_watchdog_trigger after an answer that is not RetryDelivery. *)
GuardDone(att) == [att EXCEPT !.guard = "idle", !.watchdog = "superseded"]

(* settle_unstarted_task_attempt_in_conn with DispatchDeliveryLost. *)
WatchdogRedispatches(a) ==
  /\ attempts[a].guard = "lost"
  /\ IF Held(a) /\ Fenced(a) /\ run.status # "ended"
     THEN IF task.phase = "starting" /\ ~Underflows
          THEN /\ run' = Woken(LessActive(run))
               /\ task' = ReadyAgain
               /\ attempts' = [attempts EXCEPT ![a] = GuardDone(Release(@))]
          ELSE /\ attempts' = [attempts EXCEPT ![a].guard = "idle"]
               /\ UNCHANGED <<run, task>>
     ELSE /\ attempts' = [attempts EXCEPT ![a] = GuardDone(@)]
          /\ UNCHANGED <<run, task>>
  /\ UNCHANGED cancels

(* The watchdog of an expired attempt claims its release. *)
WatchdogClaims(a) ==
  /\ attempts[a].guard = "expired"
  /\ IF ClaimGranted(a)
     THEN /\ task' = [task EXCEPT !.phase = "releasing"]
          /\ attempts' = [attempts EXCEPT ![a].guard = "claimed"]
     ELSE /\ attempts' = [attempts EXCEPT ![a].guard = "idle"]
          /\ UNCHANGED task
  /\ UNCHANGED <<run, cancels>>

(* Its hand release is tried once, too: the handler fails after its claim. *)
WatchdogReleaseFails(a) ==
  /\ attempts[a].guard = "claimed"
  /\ attempts' = [attempts EXCEPT ![a].guard = "failed"]
  /\ UNCHANGED <<run, task, cancels>>

(* Else it settles: a retry when its effects are idempotent, else unknown. *)
WatchdogSettles(a) ==
  /\ attempts[a].guard = "claimed"
  /\ \/ /\ SettleCurrent(a) /\ ~Underflows
        /\ \E result \in {Exhausted("retry"), "unknown"} : Settles(result)
        /\ attempts' = [attempts EXCEPT ![a] = GuardDone(Release(@))]
     \/ /\ SettleCurrent(a) /\ Underflows
        /\ attempts' = [attempts EXCEPT ![a].guard = "failed"]
        /\ UNCHANGED <<run, task>>
     \/ /\ ~SettleCurrent(a)
        /\ attempts' = [attempts EXCEPT ![a] = GuardDone(@)]
        /\ UNCHANGED <<run, task>>
  /\ UNCHANGED cancels

--------------------------------------------------------------------------------
(* Delivered cancellations: cancel_task_attempt.                              *)

(* The message is about the attempt that is being cancelled now. *)
CancelCurrent(c) ==
  /\ run.generation = c.generation /\ IsDispatched(c.attempt)
  /\ task.phase \in {"startCancelling", "releasing"}

(* requeue_current_accepted_dispatches_in_conn: a cancellation that was delivered
   and settled nothing is sent again for as long as it is current. *)
Requeued(c) == IF CancelCurrent(c) THEN {[c EXCEPT !.step = "sent"]} ELSE {}

(* The handler loads the rows and stops unless the message is current. *)
CancelLoads(c) ==
  /\ c \in cancels /\ c.step = "sent"
  /\ cancels' = (cancels \ {c}) \cup
       CASE ~CancelCurrent(c)                -> {}
         [] CancelCurrent(c) /\ task.phase = "startCancelling"
                                             -> {[c EXCEPT !.step = "unstarted"]}
         [] OTHER                            -> {[c EXCEPT !.step = "drain"]}
  /\ UNCHANGED <<run, task, attempts>>

(* Mutant: a pause compares the generation of the admission, too. *)
CancelFenceOfAdmission(c) == Fenced(c.attempt)

(* unstarted_task_attempt_fence_matches, and the fence of a paused release: a pause
   fences with its own generation, a terminal cancellation with the admission's. *)
CancelFence(c) ==
  /\ IsDispatched(c.attempt)
  /\ run.generation = IF c.kind = "pause" THEN c.generation
                      ELSE attempts[c.attempt].controller

(* What a cancellation does to a task whose attempt it settles. A paused task waits
   for the resume and wakes nobody. *)
CancelSettles(c) ==
  /\ cancels' = cancels \ {c}
  /\ IF c.kind = "pause"
     THEN run' = LessActive(run) /\ task' = ReadyAgain
     ELSE run' = Woken(LessActive(run)) /\ task' = [task EXCEPT !.phase = "cancelled"]
  /\ attempts' = [attempts EXCEPT ![c.attempt] = Release(@)]

(* ... and what it leaves when it does not: the rows, and a message to be sent
   again. *)
CancelSettlesNothing(c) ==
  /\ cancels' = (cancels \ {c}) \cup Requeued(c)
  /\ UNCHANGED <<run, task, attempts>>

(* settle_unstarted_task_attempt with Paused or Cancelled. *)
CancelUnstarted(c) ==
  /\ c \in cancels /\ c.step = "unstarted"
  /\ IF /\ Held(c.attempt) /\ CancelFence(c) /\ ~Underflows
        /\ task.phase = "startCancelling" /\ run.status # "ended"
     THEN CancelSettles(c)
     ELSE CancelSettlesNothing(c)

(* finalize_paused_task_attempt_release: only while the capacity is held. *)
PauseDrains(c) ==
  /\ Held(c.attempt) /\ CancelFence(c)
  /\ task.phase = "releasing" /\ run.status \in PausingStates

(* The hand release of a cancellation is tried once and fails. *)
CancelReleaseFails(c) ==
  /\ c \in cancels /\ c.step = "drain"
  /\ CancelSettlesNothing(c)

(* The second half of the handler, after the hands are released. *)
CancelDrains(c) ==
  /\ c \in cancels /\ c.step = "drain"
  /\ IF /\ IF c.kind = "pause" THEN PauseDrains(c) ELSE SettleCurrent(c.attempt)
        /\ ~Underflows
     THEN CancelSettles(c)
     ELSE CancelSettlesNothing(c)

--------------------------------------------------------------------------------
Dispatcher == \E a \in Attempts : Admit(a)

Controller == AdvanceIdle \/ AdvanceSettles \/ AdvanceDrains

User == Pause \/ Resume \/ CancelRun \/ ResolveReview \/ ResumeInput

(* What the workflow does once it has claimed the release. *)
Releases(a) == ReleaseFails(a) \/ FreeCapacity(a) \/ SettleOutcome(a) \/ Park(a)

Watchdog(a) ==
  \/ WatchdogFires(a) \/ WatchdogRedispatches(a)
  \/ WatchdogClaims(a) \/ WatchdogReleaseFails(a) \/ WatchdogSettles(a)

Cancel(c) ==
  CancelLoads(c) \/ CancelUnstarted(c) \/ CancelReleaseFails(c) \/ CancelDrains(c)

(* The cancellation of a kind that is on its way to attempt a. *)
Cancelling(a, kind) == {c \in cancels : c.attempt = a /\ c.kind = kind}

Next ==
  \/ Dispatcher
  \/ Controller
  \/ User
  \/ \E a \in Attempts :
       \/ Start(a) \/ (\E exit \in Exits : ClaimRelease(a, exit))
       \/ Releases(a) \/ Watchdog(a)
  \/ \E c \in cancels : Cancel(c)

Spec == Init /\ [][Next]_vars

(* The dispatcher drains again and again. Activations and cancellations are outbox
   rows that are delivered until they are done with, a workflow that owns a release
   is replayed until it ends, whether it settles or fails, and a pending watchdog
   becomes due. A hand release that is asked for again and again succeeds once; only
   cancellations ask again. The delivery of an attempt may be lost, its work may
   hang, and no user has to act. *)
Fairness ==
  /\ WF_vars(Dispatcher) /\ WF_vars(Controller)
  /\ \A a \in Attempts :
       /\ WF_vars(Releases(a))
       /\ WF_vars(Watchdog(a))
       /\ \A kind \in {"pause", "terminal"} :
            /\ WF_vars(\E c \in Cancelling(a, kind) : Cancel(c))
            /\ SF_vars(\E c \in Cancelling(a, kind) : CancelDrains(c))

FairSpec == Spec /\ Fairness

--------------------------------------------------------------------------------
(* Properties.                                                                *)

(* Capacity follows the attempt: a reservation is held only by the attempt that is
   dispatched, and an attempt that has not begun its release holds one. Whoever
   settles an attempt, and however late the others are, no reservation leaks and
   none is returned under a running attempt. *)
CapacityFollowsAttempt ==
  /\ \A a \in Attempts : Held(a) => IsDispatched(a)
  /\ task.phase \in ActivePhases \ {"releasing"} => Held(task.generation)

(* A run that calls itself paused has drained: it holds no capacity, and unless its
   cancellation interfered no attempt of its task is left. *)
PausedIsDrained ==
  run.status = "paused" =>
    /\ \A a \in Attempts : ~Held(a)
    /\ ~run.terminal => task.phase \notin ActivePhases

(* No wake is lost: a live run whose work is finished has an activation on its way
   whose epoch is current, whoever settled the work and whatever moved the epoch. *)
FinishedIsWoken ==
  run.status = "live" /\ ~run.terminal /\ task.phase \in FinishedPhases =>
    run.activation = "queued"

(* The hand release of the workflow or of the watchdog failed after its claim, and
   no cancellation is on its way to the attempt. *)
Abandoned(a) ==
  /\ IsDispatched(a) /\ task.phase = "releasing"
  /\ attempts[a].worker = "failed" \/ attempts[a].guard = "failed"
  /\ \A c \in cancels : c.attempt # a

(* An attempt returns its capacity, whether its delivery is lost, its work hangs or
   its run is paused or cancelled under it, and although releases of a cancellation
   fail: the one way to keep it is a failed release by the workflow or the watchdog
   that no cancellation follows up. *)
AttemptEnds == \A a \in Attempts : Held(a) ~> ~Held(a) \/ Abandoned(a)

(* What the outbox relies on when it excludes running attempts from repair: the
   watchdog resolves them, so that every attempt returns its capacity. *)
CapacityIsReturned == \A a \in Attempts : Held(a) ~> ~Held(a)

(* A cancelled run reaches a terminal status. *)
RunCancelEnds == run.terminal ~> run.status = "ended"
================================================================================
