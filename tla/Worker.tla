--------------------------------- MODULE Worker ---------------------------------
(***************************************************************************)
(* One Worker virtual object of moa-orchestrator and the                   *)
(* WorkerTurnExecution workflows it dispatches:                            *)
(* crates/moa-orchestrator/src/objects/worker and                          *)
(* crates/moa-orchestrator/src/workflows/worker_turn_execution.rs.         *)
(*                                                                         *)
(* Restate runs at most one exclusive handler of the key at a time, so a   *)
(* handler that awaits nothing outside the key is one action.  Two         *)
(* handlers await the parent Session with the key locked: the terminal     *)
(* delivery and the stale-heartbeat signal.  They are split at that call;  *)
(* while `suspended` names one of them no other exclusive handler runs.    *)
(*                                                                         *)
(* Turn ids are 1..MaxTurns in the order they are minted.  A parent        *)
(* message is named by the generation it advanced the worker to, and the   *)
(* input request of a turn by the turn: a turn asks at most once here.     *)
(***************************************************************************)
EXTENDS ActionReviewSchedule, FiniteSets

CONSTANTS
  Reviews,       \* action-review ids
  Waiters,       \* awakeables of coordinators that wait for the result
  InputTurns,    \* the turns whose model may call request_input
  Replies,       \* the answers a parent or a user may give
  Releases,      \* why a review may be released: "deadline", "recovered", "security"
  MaxRelease,    \* MAX_CLEANUP_RELEASE_ATTEMPTS
  MaxTurns,      \* bound: turns minted
  MaxGeneration, \* bound: parent messages accepted
  MaxWatch       \* bound: liveness deadlines armed

ASSUME WorkerAssumption ==
  /\ MaxRelease \in Nat \ {0}
  /\ MaxTurns \in Nat
  /\ MaxGeneration \in Nat
  /\ MaxWatch \in Nat

NoTurn == 0

Turns == 1..MaxTurns

NoReply == "noReply"

ASSUME ReplyAssumption ==
  /\ NoReply \notin Replies
  /\ Releases \subseteq {"deadline", "recovered", "security"}

ASSUME InputAssumption == InputTurns \subseteq Turns

VARIABLES
  \* WorkerVoState
  initialized, \* the fields ensure_initialized requires are set
  status,      \* status
  active,      \* active_turn_id
  pending,     \* pending
  cancelled,   \* cancel_reason is set
  delivered,   \* notification_delivered
  waiters,     \* result_waiters
  generation,  \* generation
  schedule,    \* action_reviews
  inputs,      \* pending_input_requests
  history,     \* input_delivery_history, by request and reply
  watch,       \* liveness_generation and liveness_outstanding
  cleanup,     \* cleanup_generation and cleanup_release_attempts
  \* what surrounds the key
  suspended,   \* the exclusive handler that awaits the Session
  ticks,       \* the delayed self-calls that have not fired
  turns,       \* the WorkerTurnExecution workflows
  minted,      \* turn ids minted
  spawned,     \* the InitialTask has been handled
  raised,      \* reviews raised by some turn
  asleep,      \* waiters whose coordinator sleeps on the awakeable
  refused      \* generations whose report the Session refused

lifeVars == <<initialized, status, active, pending, cancelled, delivered,
              waiters, generation>>

coordVars == <<schedule, inputs, history, watch, cleanup>>

envVars == <<suspended, ticks, turns, minted, spawned, raised, asleep, refused>>

vars == <<lifeVars, coordVars, envVars>>

--------------------------------------------------------------------------------
(* Values of the state.                                                       *)

NoWatch == [generation |-> 0, outstanding |-> FALSE]

NoCleanup == [generation |-> 0, attempts |-> 0]

UnusedTurn == [phase |-> "unused", generation |-> 0, review |-> FALSE,
               cancel |-> FALSE, kind |-> "none", answer |-> NoReply]

(* start_worker_turn_execution: the detached dispatch of a turn. *)
Dispatched(gen, review) ==
  [UnusedTurn EXCEPT !.phase = "start", !.generation = gen, !.review = review]

LiveTick(gen) == [kind |-> "liveness", generation |-> gen]

CleanupTick(gen) == [kind |-> "cleanup", generation |-> gen]

Init ==
  /\ initialized = FALSE /\ status = "Uninitialized" /\ active = NoTurn
  /\ pending = {} /\ cancelled = FALSE /\ delivered = FALSE /\ waiters = {}
  /\ generation = 0 /\ schedule = EmptySchedule /\ inputs = {} /\ history = {}
  /\ watch = NoWatch /\ cleanup = NoCleanup /\ suspended = "none" /\ ticks = {}
  /\ turns = [t \in Turns |-> UnusedTurn] /\ minted = 0 /\ spawned = FALSE
  /\ raised = {} /\ asleep = {} /\ refused = {}

--------------------------------------------------------------------------------
(* Helpers of the handlers.                                                   *)

(* The single-writer queue of the key: no exclusive handler is suspended. *)
Free == suspended = "none"

(* Mutant: a failed worker is not terminal. *)
TerminalUnlessFailed(s) == s \in {"Completed", "Cancelled"}

(* is_terminal_worker_state *)
Terminal(s) == s \in {"Completed", "Cancelled", "Failed"}

Stopped(s) == s \in {"Cancelled", "Failed"}

(* holds_generation *)
Holds(s, gen) == \E e \in s.registered \cup s.queued : e.generation = gen

(* The guard of arm_liveness_deadline.  A heartbeat has always been seen: the
   message that made the worker Running recorded one. *)
Arms(st, ins) == ~watch.outstanding /\ st = "Running" /\ ins = {}

(* arm_liveness_deadline and the scheduling of the deadline it returns. *)
ArmWatch(st, ins) ==
  IF Arms(st, ins)
  THEN /\ watch.generation < MaxWatch
       /\ watch' = [generation |-> watch.generation + 1, outstanding |-> TRUE]
       /\ ticks' = ticks \cup {LiveTick(watch.generation + 1)}
  ELSE UNCHANGED <<watch, ticks>>

(* bump_cleanup_generation *)
Bump(c) == [generation |-> c.generation + 1, attempts |-> 0]

(* Mutant: the flag of the delivery is not consulted. *)
SuspendAlways(handler) == suspended' = handler

(* deliver_terminal_notification_once awaits the Session unless it has already
   acknowledged this generation. *)
Suspend(handler) == suspended' = IF delivered THEN suspended ELSE handler

(* Mutant: a review of this generation does not hold the report back. *)
MaybeReportHeld(st, sched) ==
  IF Terminal(st)
  THEN /\ waiters' = {}
       /\ asleep' = asleep \ waiters
       /\ Suspend("deliver")
  ELSE UNCHANGED <<waiters, asleep, suspended>>

(* maybe_resolve_parent_awakeable, after a handler that left this status and
   this schedule: the report is held back by a review of this generation; else a
   terminal worker resolves its waiters and delivers the report. *)
MaybeReport(st, sched) ==
  IF Terminal(st) /\ ~Holds(sched, generation)
  THEN /\ waiters' = {}
       /\ asleep' = asleep \ waiters
       /\ Suspend("deliver")
  ELSE UNCHANGED <<waiters, asleep, suspended>>

(* Mutant: a turn that has answered but not reported does not count. *)
IdleOnceAnswered == active = NoTurn \/ status = "Completed"

Idle == active = NoTurn

(* The turn workflow that a handler starts, under the next id. *)
StartNew(gen) ==
  /\ minted < MaxTurns
  /\ minted' = minted + 1
  /\ active' = minted + 1
  /\ turns' = [turns EXCEPT ![minted + 1] = Dispatched(gen, FALSE)]

(* The continuation turn of a queued review, under the id minted for it. *)
StartContinuation(entry) ==
  /\ active' = entry.turn
  /\ status' = "Running"
  /\ turns' = [turns EXCEPT ![entry.turn] = Dispatched(generation, TRUE)]

--------------------------------------------------------------------------------
(* Parent messages, heartbeats and cancellation (handlers/admission.rs).      *)

(* post_message, InitialTask.  The coordinator mints the id of a worker and
   posts its task once. *)
PostInitialTask ==
  /\ Free /\ ~spawned /\ generation < MaxGeneration
  /\ spawned' = TRUE
  /\ initialized' = TRUE
  /\ status' = "Running"
  /\ pending' = {generation + 1}
  /\ cancelled' = FALSE
  /\ delivered' = FALSE
  /\ waiters' = {}
  /\ inputs' = {}
  /\ history' = {}
  /\ generation' = generation + 1
  /\ schedule' = DiscardBelow(schedule, generation + 1)
  /\ cleanup' = Bump(cleanup)
  /\ StartNew(generation + 1)
  /\ ArmWatch("Running", {})
  /\ UNCHANGED <<suspended, raised, asleep, refused>>

(* post_message, FollowUp.  A cleared worker rejects it. *)
PostFollowUp ==
  /\ Free /\ initialized /\ status # "Uninitialized"
  /\ generation < MaxGeneration
  /\ status' = "Running"
  /\ pending' = pending \cup {generation + 1}
  /\ delivered' = FALSE
  /\ generation' = generation + 1
  /\ schedule' = DiscardBelow(schedule, generation + 1)
  /\ cleanup' = Bump(cleanup)
  /\ \/ Idle /\ StartNew(generation + 1)
     \/ ~Idle /\ UNCHANGED <<active, turns, minted>>
  /\ ArmWatch("Running", inputs)
  /\ UNCHANGED <<initialized, cancelled, waiters, inputs, history, suspended,
                 spawned, raised, asleep, refused>>

(* apply_reply_to_pending: the history answers a request seen before; the first
   reply to a registered request is applied. *)
Acknowledgement(t, reply) ==
  IF \E r \in Replies : <<t, r>> \in history
  THEN IF <<t, reply>> \in history THEN "Replayed" ELSE "Conflict"
  ELSE IF t \in inputs THEN "Applied" ELSE "Conflict"

(* post_message, ProvideInput, and provide_input: the reply resolves the
   awakeable of the parked turn; any other acknowledgement changes nothing. *)
ProvideInput(t, reply) ==
  /\ Free
  /\ Acknowledgement(t, reply) = "Applied"
  /\ inputs' = inputs \ {t}
  /\ history' = history \cup {<<t, reply>>}
  /\ turns' = [turns EXCEPT ![t].answer = reply]
  /\ UNCHANGED <<lifeVars, schedule, watch, cleanup, suspended, ticks, minted,
                 spawned, raised, asleep, refused>>

(* record_heartbeat, called by every iteration before the model call.  A
   heartbeat that arms nothing only moves the time of the last one. *)
Heartbeat(t) ==
  /\ Free
  /\ turns[t].phase = "model"
  /\ Arms(status, inputs)
  /\ ArmWatch(status, inputs)
  /\ UNCHANGED <<lifeVars, schedule, inputs, history, cleanup, suspended, turns,
                 minted, spawned, raised, asleep, refused>>

(* Mutant: the slot is still taken after its deadline has fired. *)
NotStopped(w) == w

(* stop_liveness_deadline *)
StopWatch(w) == [w EXCEPT !.outstanding = FALSE]

(* liveness_generation_matches *)
Matches(tick) == watch.outstanding /\ watch.generation = tick.generation

(* liveness_deadline.  A superseded deadline is ignored; a worker that is not
   Running or awaits input releases the slot; otherwise the time since the last
   heartbeat decides between one successor and the stale signal. *)
LivenessDeadline(tick) ==
  /\ Free /\ tick \in ticks /\ tick.kind = "liveness"
  /\ \/ /\ ~Matches(tick)
        /\ ticks' = ticks \ {tick}
        /\ UNCHANGED <<watch, suspended>>
     \/ /\ Matches(tick) /\ (status # "Running" \/ inputs # {})
        /\ ticks' = ticks \ {tick}
        /\ watch' = StopWatch(watch)
        /\ UNCHANGED suspended
     \/ /\ Matches(tick) /\ status = "Running" /\ inputs = {}
        /\ watch.generation < MaxWatch
        /\ watch' = [generation |-> watch.generation + 1, outstanding |-> TRUE]
        /\ ticks' = (ticks \ {tick}) \cup {LiveTick(watch.generation + 1)}
        /\ UNCHANGED suspended
     \/ /\ Matches(tick) /\ status = "Running" /\ inputs = {}
        /\ ticks' = ticks \ {tick}
        /\ suspended' = "stale"
        /\ UNCHANGED watch
  /\ UNCHANGED <<lifeVars, schedule, inputs, history, cleanup, turns, minted,
                 spawned, raised, asleep, refused>>

(* The Session has recorded the stale-heartbeat signal. *)
StaleRecorded ==
  /\ suspended = "stale"
  /\ suspended' = "none"
  /\ watch' = StopWatch(watch)
  /\ UNCHANGED <<lifeVars, schedule, inputs, history, cleanup, ticks, turns,
                 minted, spawned, raised, asleep, refused>>

(* Mutant: an active turn is not told. *)
FlagNobody == turns

(* request_cancel of the active turn's workflow. *)
FlagActive ==
  IF active = NoTurn THEN turns ELSE [turns EXCEPT ![active].cancel = TRUE]

(* cancel.  An active turn owns the terminal transition. *)
Cancel ==
  /\ Free
  /\ cancelled' = TRUE
  /\ status' = IF active = NoTurn THEN "Cancelled" ELSE status
  /\ inputs' = {}
  /\ schedule' = DiscardAll(schedule)
  /\ turns' = FlagActive
  /\ UNCHANGED <<initialized, active, pending, delivered, waiters, generation,
                 history, watch, cleanup, suspended, ticks, minted, spawned,
                 raised, asleep, refused>>

--------------------------------------------------------------------------------
(* The turn workflow (run_worker_inside_workflow) and the handlers it calls.  *)

Live(t) == turns[t].phase \notin {"unused", "reported"}

(* The outcome the workflow will report. *)
Done(t, kind) == [turns EXCEPT ![t].phase = "done", ![t].kind = kind]

(* The cancellation check at the head of an iteration. *)
BeginIteration(t) ==
  /\ turns[t].phase = "start" /\ ~turns[t].cancel
  /\ turns' = [turns EXCEPT ![t].phase = "preparing"]
  /\ UNCHANGED <<lifeVars, coordVars, suspended, ticks, minted, spawned, raised,
                 asleep, refused>>

(* The cancellation is seen at the head of an iteration, by the model call or
   before a tool call. *)
ObserveCancel(t) ==
  /\ turns[t].phase \in {"start", "model"} /\ turns[t].cancel
  /\ turns' = Done(t, "Cancelled")
  /\ UNCHANGED <<lifeVars, coordVars, suspended, ticks, minted, spawned, raised,
                 asleep, refused>>

(* prepare_turn: a cancelled worker ends the turn; otherwise the buffered
   messages are read and, with no token left, the turn ends. *)
PrepareTurn(t) ==
  /\ Free /\ turns[t].phase = "preparing"
  /\ \/ /\ cancelled
        /\ status' = "Cancelled"
        /\ turns' = Done(t, "Cancelled")
        /\ UNCHANGED pending
     \/ /\ ~cancelled /\ initialized
        /\ pending' = {}
        /\ status' = "Completed"
        /\ turns' = Done(t, "Completed")
     \/ /\ ~cancelled /\ initialized
        /\ pending' = {}
        /\ turns' = [turns EXCEPT ![t].phase = "model"]
        /\ UNCHANGED status
  /\ UNCHANGED <<initialized, active, cancelled, delivered, waiters, generation,
                 coordVars, suspended, ticks, minted, spawned, raised, asleep,
                 refused>>

(* active_turn_matches *)
OwnsTurn(t) == active = t

(* apply_turn_outcome(Continue): the next iteration.  A continuation turn has
   one iteration only. *)
ContinueTurn(t) ==
  /\ Free /\ turns[t].phase = "model" /\ ~turns[t].review
  /\ status' = IF OwnsTurn(t) THEN "Running" ELSE status
  /\ turns' = [turns EXCEPT ![t].phase = "start"]
  /\ UNCHANGED <<initialized, active, pending, cancelled, delivered, waiters,
                 generation, coordVars, suspended, ticks, minted, spawned,
                 raised, asleep, refused>>

(* apply_turn_outcome(Idle): a final answer, a spent tool budget, or the last
   iteration of the loop. *)
FinishTurn(t) ==
  /\ Free /\ turns[t].phase = "model"
  /\ status' = IF OwnsTurn(t) /\ status # "Failed" THEN "Completed" ELSE status
  /\ turns' = Done(t, "Completed")
  /\ UNCHANGED <<initialized, active, pending, cancelled, delivered, waiters,
                 generation, coordVars, suspended, ticks, minted, spawned,
                 raised, asleep, refused>>

(* The cancellation check before a tool call of the response. *)
CallTool(t) ==
  /\ turns[t].phase = "model" /\ ~turns[t].review /\ ~turns[t].cancel
  /\ turns' = [turns EXCEPT ![t].phase = "tool"]
  /\ UNCHANGED <<lifeVars, coordVars, suspended, ticks, minted, spawned, raised,
                 asleep, refused>>

(* A tool that neither needs a review nor asks has its result recorded. *)
ToolReturns(t) ==
  /\ Free /\ turns[t].phase = "tool"
  /\ turns' = [turns EXCEPT ![t].phase = "model"]
  /\ UNCHANGED <<lifeVars, coordVars, suspended, ticks, minted, spawned, raised,
                 asleep, refused>>

(* The catch-all boundary of the workflow, and the security halt. *)
FailTurn(t) ==
  /\ turns[t].phase \in {"start", "preparing", "model", "tool", "registered"}
  /\ turns' = Done(t, "Failed")
  /\ UNCHANGED <<lifeVars, coordVars, suspended, ticks, minted, spawned, raised,
                 asleep, refused>>

(* request_input_from_parent: register_input_request stores the awakeable. *)
AskInput(t) ==
  /\ Free /\ turns[t].phase = "tool"
  /\ t \in InputTurns /\ turns[t].answer = NoReply
  /\ inputs' = inputs \cup {t}
  /\ turns' = [turns EXCEPT ![t].phase = "registered"]
  /\ UNCHANGED <<lifeVars, schedule, history, watch, cleanup, suspended, ticks,
                 minted, spawned, raised, asleep, refused>>

(* ... record_child_signal tells the Session ... *)
Advertise(t) ==
  /\ turns[t].phase = "registered"
  /\ turns' = [turns EXCEPT ![t].phase = "waiting"]
  /\ UNCHANGED <<lifeVars, coordVars, suspended, ticks, minted, spawned, raised,
                 asleep, refused>>

(* ... and the workflow sleeps until the answer ... *)
AwaitAnswered(t) ==
  /\ turns[t].phase = "waiting" /\ turns[t].answer # NoReply
  /\ turns' = [turns EXCEPT ![t].phase = "model"]
  /\ UNCHANGED <<lifeVars, coordVars, suspended, ticks, minted, spawned, raised,
                 asleep, refused>>

(* Mutant: only the answer wakes a parked turn. *)
WokenNever(t) == FALSE

WokenByCancel(t) == turns[t].phase = "waiting" /\ turns[t].cancel

(* ... or the cancellation, after which clear_input_request drops what the
   turn registered. *)
AwaitCancelled(t) ==
  /\ Free /\ WokenByCancel(t)
  /\ inputs' = inputs \ {t}
  /\ turns' = Done(t, "Cancelled")
  /\ UNCHANGED <<lifeVars, schedule, history, watch, cleanup, suspended, ticks,
                 minted, spawned, raised, asleep, refused>>

--------------------------------------------------------------------------------
(* record_turn_outcome (handlers/coordination.rs).                            *)

StatusAfter(t) ==
  CASE turns[t].kind = "Failed"    -> "Failed"
    [] turns[t].kind = "Cancelled" -> "Cancelled"
    [] OTHER                       -> status

(* A failed or cancelled worker gives up its reviews ... *)
ReviewsAfter(t) == IF Stopped(StatusAfter(t)) THEN DiscardAll(schedule) ELSE schedule

(* ... and all its input requests; any other turn gives up its own. *)
InputsAfter(t) == IF Stopped(StatusAfter(t)) THEN {} ELSE inputs \ {t}

(* Mutant: buffered messages wait for the next one. *)
RestartsNever(t) == FALSE

(* should_restart: buffered messages get a turn before any continuation. *)
Restarts(t) == pending # {} /\ ~Stopped(StatusAfter(t))

(* The continuation that takes the turn's place, as a set of at most one. *)
NextContinuation(t) ==
  IF Restarts(t) \/ Stopped(StatusAfter(t)) THEN {} ELSE Eligible(schedule, generation)

OutcomeRestarts(t) ==
  /\ Free /\ turns[t].phase = "done" /\ OwnsTurn(t)
  /\ Restarts(t)
  /\ status' = "Running"
  /\ inputs' = InputsAfter(t)
  /\ minted < MaxTurns
  /\ minted' = minted + 1
  /\ active' = minted + 1
  /\ turns' = [turns EXCEPT ![t].phase = "reported",
                            ![minted + 1] = Dispatched(generation, FALSE)]
  /\ UNCHANGED <<initialized, pending, cancelled, delivered, waiters, generation,
                 schedule, history, watch, cleanup, suspended, ticks, spawned,
                 raised, asleep, refused>>

OutcomeContinues(t) ==
  /\ Free /\ turns[t].phase = "done" /\ OwnsTurn(t)
  /\ \E entry \in NextContinuation(t) :
       /\ schedule' = Dequeue(schedule, entry)
       /\ active' = entry.turn
       /\ turns' = [turns EXCEPT ![t].phase = "reported",
                                 ![entry.turn] = Dispatched(generation, TRUE)]
  /\ status' = "Running"
  /\ inputs' = InputsAfter(t)
  /\ UNCHANGED <<initialized, pending, cancelled, delivered, waiters, generation,
                 history, watch, cleanup, suspended, ticks, minted, spawned,
                 raised, asleep, refused>>

OutcomeSettles(t) ==
  /\ Free /\ turns[t].phase = "done" /\ OwnsTurn(t)
  /\ ~Restarts(t) /\ NextContinuation(t) = {}
  /\ active' = NoTurn
  /\ status' = StatusAfter(t)
  /\ inputs' = InputsAfter(t)
  /\ schedule' = ReviewsAfter(t)
  /\ turns' = [turns EXCEPT ![t].phase = "reported"]
  /\ MaybeReport(StatusAfter(t), ReviewsAfter(t))
  /\ UNCHANGED <<initialized, pending, cancelled, delivered, generation, history,
                 watch, cleanup, ticks, minted, spawned, raised, refused>>

(* The worker was cleared under its turn: with no admitted identity the handler
   fails before it stores anything. *)
OutcomeRejected(t) ==
  /\ Free /\ turns[t].phase = "done" /\ ~initialized
  /\ turns' = [turns EXCEPT ![t].phase = "reported"]
  /\ UNCHANGED <<lifeVars, coordVars, suspended, ticks, minted, spawned, raised,
                 asleep, refused>>

--------------------------------------------------------------------------------
(* The report: deliver_terminal_notification_once after the Session's answer. *)

(* Mutant: the cleanup is scheduled under the generation before the bump. *)
TickBeforeBump(gen) == CleanupTick(gen - 1)

(* schedule_cleanup_self_call *)
TickAfterReport(gen) == CleanupTick(gen)

ParentAcknowledges ==
  /\ suspended = "deliver"
  /\ suspended' = "none"
  /\ delivered' = TRUE
  /\ cleanup' = Bump(cleanup)
  /\ ticks' = ticks \cup {TickAfterReport(cleanup.generation + 1)}
  /\ UNCHANGED <<initialized, status, active, pending, cancelled, waiters,
                 generation, schedule, inputs, history, watch, turns, minted,
                 spawned, raised, asleep, refused>>

(* The Session does not know the child: a terminal error ends the handler. *)
ParentRefuses ==
  /\ suspended = "deliver"
  /\ suspended' = "none"
  /\ refused' = refused \cup {generation}
  /\ UNCHANGED <<lifeVars, coordVars, ticks, turns, minted, spawned, raised, asleep>>

--------------------------------------------------------------------------------
(* Action reviews (register_action_review, action_review_resolved and         *)
(* release_action_review).                                                    *)

(* Mutant: a review is registered whatever happened since its turn began. *)
RegisterAlways(r, t) == Register(schedule, r, t, turns[t].generation)

(* A follow-up since the turn was dispatched supersedes its reviews. *)
RegisterUnlessSuperseded(r, t) ==
  IF turns[t].generation < generation
  THEN schedule
  ELSE Register(schedule, r, t, turns[t].generation)

(* The governed tool call of a turn waits for the registration. *)
RaiseReview(t, r) ==
  /\ Free /\ turns[t].phase = "tool"
  /\ r \notin raised
  /\ raised' = raised \cup {r}
  /\ schedule' = RegisterUnlessSuperseded(r, t)
  /\ turns' = [turns EXCEPT ![t].phase = "model"]
  /\ UNCHANGED <<lifeVars, inputs, history, watch, cleanup, suspended, ticks,
                 minted, spawned, asleep, refused>>

(* action_review_resolved: the id of the continuation turn is minted at once.
   Its branch for a superseded or stopped worker is dead: see
   RegisteredCanContinue. *)
ResolveReview(r) ==
  /\ Free /\ IsRegistered(schedule, r) /\ minted < MaxTurns
  /\ minted' = minted + 1
  /\ LET reg    == Registration(schedule, r)
         entry  == [review |-> r, turn |-> minted + 1,
                    generation |-> reg.generation, ordinal |-> reg.ordinal]
         queued == Enqueue(Resolve(schedule, r), entry)
         ready  == IF Idle THEN Eligible(queued, generation) ELSE {}
     IN \/ /\ ready = {}
           /\ schedule' = queued
           /\ UNCHANGED <<active, status, turns>>
        \/ \E e \in ready :
             /\ schedule' = Dequeue(queued, e)
             /\ StartContinuation(e)
  /\ UNCHANGED <<initialized, pending, cancelled, delivered, waiters, generation,
                 inputs, history, watch, cleanup, suspended, ticks, spawned,
                 raised, asleep, refused>>

(* resume_queued: only the reaper's recovery of missed releases sets it; the
   deadline of the review and the security circuit do not. *)
ResumesQueued(cause) == cause = "recovered"

(* release_action_review, with the release its sender built. *)
ReleaseReview(r, cause) ==
  /\ Free /\ IsRegistered(schedule, r)
  /\ LET left  == Resolve(schedule, r)
         ready == IF ResumesQueued(cause) /\ Idle /\ ~Stopped(status)
                  THEN Eligible(left, generation) ELSE {}
     IN \/ /\ ready = {}
           /\ schedule' = left
           /\ MaybeReport(status, left)
           /\ UNCHANGED <<active, status, turns>>
        \/ \E e \in ready :
             /\ schedule' = Dequeue(left, e)
             /\ StartContinuation(e)
             /\ UNCHANGED <<waiters, asleep, suspended>>
  /\ UNCHANGED <<initialized, pending, cancelled, delivered, generation, inputs,
                 history, watch, cleanup, ticks, minted, spawned, raised, refused>>

--------------------------------------------------------------------------------
(* Result waiters (wait_child of delegation.rs and the handlers it calls).    *)

(* A result that no open review can still change. *)
Final == Terminal(status) /\ ~Holds(schedule, generation)

(* attach_result_waiter, when it does not answer with the result at once.  A
   coordinator learns the worker's id from the call that posted its task. *)
AttachWaiter(w) ==
  /\ Free /\ spawned /\ ~Final /\ w \notin asleep
  /\ waiters' = waiters \cup {w}
  /\ asleep' = asleep \cup {w}
  /\ UNCHANGED <<initialized, status, active, pending, cancelled, delivered,
                 generation, coordVars, suspended, ticks, turns, minted, spawned,
                 raised, refused>>

(* The wait timed out: remove_result_waiter. *)
WaitTimesOut(w) ==
  /\ Free /\ w \in asleep
  /\ waiters' = waiters \ {w}
  /\ asleep' = asleep \ {w}
  /\ UNCHANGED <<initialized, status, active, pending, cancelled, delivered,
                 generation, coordVars, suspended, ticks, turns, minted, spawned,
                 raised, refused>>

--------------------------------------------------------------------------------
(* Self-cleanup (handlers/cleanup.rs).                                        *)

(* Mutant: any tick clears a terminal worker. *)
ProceedsWhenFinal(tick) == Final

(* decide_cleanup.  A worker has no children of its own, so it never defers. *)
Proceeds(tick) == tick.generation = cleanup.generation /\ Final /\ delivered

(* Fewer than MAX_CLEANUP_RELEASE_ATTEMPTS have failed, this one included. *)
RetriesRelease == cleanup.attempts + 1 < MaxRelease

(* ctx.clear_all *)
ClearAll ==
  /\ initialized' = FALSE /\ status' = "Uninitialized" /\ active' = NoTurn
  /\ pending' = {} /\ cancelled' = FALSE /\ delivered' = FALSE /\ waiters' = {}
  /\ generation' = 0 /\ schedule' = EmptySchedule /\ inputs' = {} /\ history' = {}
  /\ watch' = NoWatch /\ cleanup' = NoCleanup

(* cleanup: the worker is cleared when its hands are released, or the last
   attempt to release them failed. *)
Cleanup(tick, released) ==
  /\ Free /\ tick \in ticks /\ tick.kind = "cleanup"
  /\ \/ /\ ~Proceeds(tick)
        /\ ticks' = ticks \ {tick}
        /\ UNCHANGED <<lifeVars, coordVars>>
     \/ /\ Proceeds(tick) /\ (released \/ ~RetriesRelease)
        /\ ticks' = ticks \ {tick}
        /\ ClearAll
     \/ /\ Proceeds(tick) /\ ~released /\ RetriesRelease
        /\ cleanup' = [cleanup EXCEPT !.attempts = @ + 1]
        /\ ticks' = (ticks \ {tick}) \cup {TickAfterReport(cleanup.generation)}
        /\ UNCHANGED <<lifeVars, schedule, inputs, history, watch>>
  /\ UNCHANGED <<suspended, turns, minted, spawned, raised, asleep, refused>>

--------------------------------------------------------------------------------

Message == PostInitialTask \/ PostFollowUp

TurnStep(t) ==
  \/ BeginIteration(t) \/ ObserveCancel(t) \/ PrepareTurn(t) \/ ContinueTurn(t)
  \/ FinishTurn(t) \/ FailTurn(t) \/ CallTool(t) \/ ToolReturns(t)
  \/ AskInput(t) \/ AwaitAnswered(t)
  \/ AwaitCancelled(t) \/ Heartbeat(t)

OutcomeStep(t) ==
  \/ OutcomeRestarts(t) \/ OutcomeContinues(t) \/ OutcomeSettles(t)
  \/ OutcomeRejected(t)

ReviewStep(r) ==
  \/ \E t \in Turns : RaiseReview(t, r)
  \/ ResolveReview(r)
  \/ \E cause \in Releases : ReleaseReview(r, cause)

Tick(tick) == LivenessDeadline(tick) \/ \E released \in BOOLEAN : Cleanup(tick, released)

Next ==
  \/ Message
  \/ Cancel
  \/ \E t \in Turns : TurnStep(t) \/ Advertise(t) \/ OutcomeStep(t)
  \/ \E t \in InputTurns, reply \in Replies : ProvideInput(t, reply)
  \/ \E r \in Reviews : ReviewStep(r)
  \/ \E tick \in ticks : Tick(tick)
  \/ \E w \in Waiters : AttachWaiter(w) \/ WaitTimesOut(w)
  \/ StaleRecorded
  \/ ParentAcknowledges
  \/ ParentRefuses

Spec == Init /\ [][Next]_vars

(* What the runtime guarantees: a dispatched workflow runs, its loop ends after
   a bounded number of iterations, delayed self-calls fire, and the Session
   answers the calls it receives.  Handlers queue for the key, so their turn
   comes although others keep it busy. *)
TurnMoves(t) ==
  \/ BeginIteration(t) \/ ObserveCancel(t) \/ PrepareTurn(t) \/ ToolReturns(t)
  \/ AskInput(t) \/ Advertise(t) \/ AwaitAnswered(t) \/ AwaitCancelled(t)
  \/ OutcomeStep(t)

Fairness ==
  /\ \A t \in Turns : SF_vars(TurnMoves(t)) /\ SF_vars(FinishTurn(t))
  /\ SF_vars(\E tick \in ticks, released \in BOOLEAN : Cleanup(tick, released))
  /\ WF_vars(StaleRecorded \/ ParentAcknowledges \/ ParentRefuses)

LiveSpec == Spec /\ Fairness

--------------------------------------------------------------------------------
(* Properties.                                                                *)

Phases == {"unused", "start", "preparing", "model", "tool",
           "registered", "waiting", "done", "reported"}

(* Every variable has its type. *)
TypeOK ==
  /\ initialized \in BOOLEAN
  /\ status \in {"Uninitialized", "Running", "Completed", "Cancelled", "Failed"}
  /\ active \in Turns \cup {NoTurn}
  /\ pending \subseteq 1..MaxGeneration
  /\ cancelled \in BOOLEAN /\ delivered \in BOOLEAN
  /\ waiters \subseteq Waiters /\ asleep \subseteq Waiters
  /\ generation \in 0..MaxGeneration
  /\ schedule \in [nextOrdinal : Nat,
                   registered : SUBSET [review : Reviews, turn : Turns,
                                        generation : Nat, ordinal : Nat],
                   queued     : SUBSET [review : Reviews, turn : Turns,
                                        generation : Nat, ordinal : Nat]]
  /\ inputs \subseteq Turns
  /\ history \subseteq InputTurns \X Replies
  /\ watch \in [generation : 0..MaxWatch, outstanding : BOOLEAN]
  /\ cleanup \in [generation : Nat, attempts : 0..(MaxRelease - 1)]
  /\ suspended \in {"none", "deliver", "stale"}
  /\ ticks \subseteq [kind : {"liveness", "cleanup"}, generation : Nat]
  /\ turns \in [Turns -> [phase : Phases, generation : 0..MaxGeneration,
                          review : BOOLEAN, cancel : BOOLEAN,
                          kind : {"none", "Completed", "Cancelled", "Failed"},
                          answer : Replies \cup {NoReply}]]
  /\ minted \in 0..MaxTurns
  /\ spawned \in BOOLEAN
  /\ raised \subseteq Reviews
  /\ refused \subseteq 1..MaxGeneration

(* The worker has settled: no turn runs, no handler is on its way to the
   Session and no review of the generation is open. *)
Settled == initialized /\ Free /\ active = NoTurn /\ ~Holds(schedule, generation)

(* Someone answered for this generation, and no coordinator sleeps on it. *)
HasReported == asleep = {} /\ (delivered \/ generation \in refused)

(* A worker that completed or failed has told its parent: every path that
   leaves it idle (an outcome, a released review) also wakes the coordinators
   that wait for the result and delivers the report of the generation that
   just ended, of a revived worker too. *)
ReportedWhenSettled == Settled /\ status \in {"Completed", "Failed"} => HasReported

(* The same of every terminal state, as the documentation of the report has it:
   "On every terminal transition, the Worker first resolves its explicit result
   awakeables, then makes one joined call to the Session's terminal handler". *)
EveryTerminalReported == Settled /\ Terminal(status) => HasReported

(* A report of success covers every instruction the worker accepted, also the
   follow-up that arrived while the last turn was ending; and a worker that no
   turn serves is terminal, with nothing buffered unless it was stopped. *)
InstructionsAreServed ==
  /\ (delivered \/ suspended = "deliver") /\ status = "Completed" => pending = {}
  /\ initialized /\ active = NoTurn =>
       Terminal(status) /\ (~Stopped(status) => pending = {})

(* No report is given, and the worker is not cleaned up, while a review of its
   generation is open or approved and not yet continued. *)
NoReportWhileHeld ==
  (delivered \/ suspended = "deliver") => ~Holds(schedule, generation)

(* A review that is registered or queued belongs to the worker's current
   instructions and to a worker that may still run: its approval can start a
   continuation.  Follow-ups, failures and cancellations all release theirs. *)
RegisteredCanContinue ==
  \A e \in schedule.registered \cup schedule.queued :
    e.generation = generation /\ ~Stopped(status)

(* An approved review whose turn has come does not wait on an idle worker:
   "Timeouts set this because only the timed-out review is suppressed". *)
ReadyContinuationRuns ==
  initialized /\ Free /\ active = NoTurn => Eligible(schedule, generation) = {}

(* At most one turn of the worker is live, and it is the active one unless the
   worker was cleared under it. *)
OneLiveTurn == \A t \in Turns : Live(t) => active = t \/ ~initialized

(* The liveness slot is taken exactly while a deadline of its generation is
   scheduled or its stale signal is on the way: a slot without a deadline would
   never be armed again. *)
OutstandingIsScheduled ==
  watch.outstanding <=> LiveTick(watch.generation) \in ticks \/ suspended = "stale"

(* A turn parked on a question can still be woken: its request is registered,
   or it has been answered, or it has been cancelled. *)
ParkedIsAnswerable ==
  \A t \in Turns : turns[t].phase \in {"registered", "waiting"} =>
    t \in inputs \/ turns[t].answer # NoReply \/ turns[t].cancel

(* The worker as its parent knows it. *)
LifeOfWorker ==
  CASE ~spawned               -> [phase |-> "new", generation |-> 0]
    [] spawned /\ ~initialized -> [phase |-> "cleared", generation |-> 0]
    [] initialized /\ delivered -> [phase |-> "reported", generation |-> generation]
    [] OTHER -> [phase |-> IF suspended = "deliver" THEN "reporting" ELSE "working",
                 generation |-> generation]

Life == INSTANCE WorkerLife WITH life <- LifeOfWorker

(* The worker keeps the promise of module WorkerLife: a generation is reported
   once, no message is accepted between the report and its answer, the cleanup
   of an earlier report never clears a revived worker, and a cleared worker
   stays cleared. *)
ImplementsLife == Life!LifeSpec

(* A worker that was told to stop reports, whatever its turn was doing. *)
CancelledTurnReports ==
  \A t \in Turns : turns[t].cancel ~> turns[t].phase = "reported"

(* An acknowledged worker is cleared or revived in the end. *)
DeliveredEnds == delivered ~> ~delivered

================================================================================
