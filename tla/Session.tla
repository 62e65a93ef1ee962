-------------------------------- MODULE Session --------------------------------
(***************************************************************************)
(* The Session virtual object of moa-orchestrator and the TurnExecution    *)
(* workflows it dispatches: crates/moa-orchestrator/src/objects/session    *)
(* and crates/moa-orchestrator/src/workflows/turn_execution.               *)
(*                                                                         *)
(* Restate runs at most one exclusive handler per session key and replays  *)
(* its journal after a crash, so one handler invocation is one action.     *)
(* The turns it dispatches, the action-review service, the worker children *)
(* and the durable execution runs are concurrent: their calls arrive in    *)
(* any order.  Waiting for shared admission capacity keeps the session key *)
(* locked, so an acquire appears here as its effect; the competition for   *)
(* capacity is modelled in TurnAdmission.                                  *)
(*                                                                         *)
(* Turn ids are the numbers 1..MaxTurns in the order they are minted.      *)
(***************************************************************************)
EXTENDS MessageAdmissions, ActionReviewSchedule, FiniteSets

CONSTANTS
  Uploads,      \* the client messages that carry attachments
  Reviews,      \* action-review ids
  Runs,         \* execution-run ids
  Signals,      \* child-signal ids; what they ask, they ask the coordinator
  SignalKind,   \* the ChildSignalKind of every signal
  Waiters,      \* awakeables of workflows that wait for a turn
  CancelKinds,  \* cancel surfaces used: "CoordinatorOnly", "TaskTree", "request"
  InputTurns,   \* the turns whose tools may ask the user for input
  MaxPending,   \* session_limits.max_pending_messages
  MaxUnread,    \* MAX_UNREAD_CHILD_SIGNALS
  MaxResumes,   \* session_limits.worker_resume_max_per_window
  CanDestroy,   \* whether the session may be destroyed
  MaxTurns,     \* bound: turns minted
  MaxGeneration,\* bound: messages admitted as turns
  MaxClock      \* bound: clock ticks

ASSUME BoundsAssumption ==
  /\ MaxPending \in Nat
  /\ MaxUnread \in Nat
  /\ MaxResumes \in Nat
  /\ MaxTurns \in Nat
  /\ MaxGeneration \in Nat
  /\ MaxClock \in Nat

ASSUME InputsAssumption ==
  /\ Uploads \subseteq Messages
  /\ CancelKinds \subseteq {"CoordinatorOnly", "TaskTree", "request"}
  /\ CanDestroy \in BOOLEAN
  /\ SignalKind \in [Signals -> {"NeedsInput", "Blocked", "Failed", "Finding"}]

NoTurn == 0

Turns == 1..MaxTurns

(* The message of a turn that no user message started, and the run of a turn
   that started none. *)
NoMessage == "noMessage"

NoRun == "noRun"

ASSUME NoneAssumption == NoMessage \notin Messages /\ NoRun \notin Runs

VARIABLES
  \* SessionPendingState
  active,        \* active_turn_id
  queue,         \* pending_messages
  lastOutcome,   \* last_outcome, by its turn
  waiters,       \* turn_waiters
  parked,        \* turn_admission_parked
  cancellation,  \* pending_cancellation
  generation,    \* turn_generation
  schedule,      \* action_reviews
  \* SessionVoState
  initialized,   \* meta is set
  status,        \* status
  owner,         \* security_circuit.owner
  inputs,        \* pending_coordinator_inputs and their reply targets
  runs,          \* active_execution_runs
  synthesized,   \* execution_synthesis_dedupe
  unread,        \* unread_child_signals
  resumeTurn,    \* resume_turn
  resumes,       \* resume_budget, the resumes of the current window
  \* the other durable state of the key, and what surrounds it
  admissions,    \* SessionMessageAdmissions
  rejected,      \* queued messages that a cancellation discarded, by generation
  facts,         \* QueuedMessageRejected events in the log, with their dedupe keys
  lease,         \* the session's fleet and tenant lease in the runtime store
  beating,       \* a turn_admission_heartbeat of the current
                 \* admission_heartbeat_generation is scheduled
  turns,         \* the TurnExecution workflows
  minted,        \* turn ids minted
  raised,        \* reviews raised by some turn
  sent,          \* child signals delivered
  clock

pendingVars == <<active, queue, lastOutcome, waiters, parked,
                 cancellation, generation, schedule>>

stateVars == <<initialized, status, owner, inputs, runs, synthesized, unread,
               resumeTurn, resumes>>

otherVars == <<admissions, rejected, facts, lease, beating, turns, minted, raised,
               sent, clock>>

vars == <<pendingVars, stateVars, otherVars>>

--------------------------------------------------------------------------------
(* Values of the state.                                                       *)

NoCancellation == [turn |-> NoTurn, scope |-> "CoordinatorOnly"]

NoPark == [turn |-> NoTurn, generation |-> 0]

NoOwner == [turn |-> NoTurn, generation |-> 0]

NoResume == [turn |-> NoTurn, consumed |-> {}]

UnusedTurn == [phase |-> "unused", trigger |-> "none", message |-> NoMessage,
               generation |-> 0, cancel |-> FALSE, run |-> NoRun, kind |-> "none"]

RunTurn(trigger, message, gen) ==
  [UnusedTurn EXCEPT !.phase = "running", !.trigger = trigger,
                     !.message = message, !.generation = gen]

Init ==
  /\ active = NoTurn /\ queue = <<>> /\ lastOutcome = NoTurn /\ waiters = {}
  /\ parked = NoPark /\ cancellation = NoCancellation
  /\ generation = 0 /\ schedule = EmptySchedule
  /\ initialized = TRUE /\ status = "Idle" /\ owner = NoOwner /\ inputs = {}
  /\ runs = {} /\ synthesized = {} /\ unread = {} /\ resumeTurn = NoResume
  /\ resumes = 0
  /\ admissions = NoAdmissions /\ rejected = {} /\ facts = {} /\ lease = FALSE
  /\ beating = FALSE /\ turns = [t \in Turns |-> UnusedTurn] /\ minted = 0
  /\ raised = {} /\ sent = {} /\ clock = 0

--------------------------------------------------------------------------------
(* Helpers of the handlers.                                                   *)

(* task_tree_cancellation_fenced *)
Fenced == cancellation.turn # NoTurn /\ cancellation.scope = "TaskTree"

Parked == parked.turn # NoTurn

(* turn_admission_is_live *)
AdmissionIsLive == active # NoTurn /\ ~Parked

NewTurn == minted + 1

CanMint == minted < MaxTurns

OwnerOf(turn, gen) == [turn |-> turn, generation |-> gen]

(* arm_turn_admission_heartbeat.  A heartbeat of an older generation changes
   nothing when it fires, so only the current chain is kept. *)
ArmHeartbeat == beating' = TRUE

(* Mutant: the next turn runs on the lease the parked turn gave up. *)
UnparkOnly == parked' = NoPark /\ UNCHANGED <<lease, beating>>

(* reacquire_parked_turn_admission_for_dispatch *)
ReacquireIfParked ==
  IF Parked
  THEN /\ lease' = TRUE
       /\ parked' = NoPark
       /\ ArmHeartbeat
  ELSE UNCHANGED <<lease, parked, beating>>

(* advance_turn_generation *)
AdvanceGeneration ==
  /\ generation < MaxGeneration
  /\ generation' = generation + 1
  /\ schedule' = DiscardBelow(schedule, generation + 1)

(* Mutant: a failed turn stops the queue. *)
StopsOnFailure(t, kind) ==
  \/ kind \in {"Completed", "Accepted"}
  \/ cancellation.turn = t /\ cancellation.scope = "CoordinatorOnly"

(* dispatches_next_after *)
DispatchesNext(t, kind) ==
  \/ kind # "Cancelled"
  \/ cancellation.turn = t /\ cancellation.scope = "CoordinatorOnly"

ActionRequired(s) == SignalKind[s] \in {"NeedsInput", "Blocked"}

ResumeEligible(s) == SignalKind[s] # "Finding"

(* push_unread_child_signal: over the cap an informational signal goes first.
   The source drops the oldest candidate; any of them may go here. *)
PushUnread(s) ==
  LET all     == unread \cup {s}
      passive == {x \in all : ~ActionRequired(x)}
      victims == IF passive # {} THEN passive ELSE all
  IN  IF Cardinality(all) <= MaxUnread
      THEN {all}
      ELSE {all \ {v} : v \in victims}

(* resume_budget.allows and consume: elapsed says the rolling window is over. *)
BudgetAllows(elapsed) == MaxResumes > 0 /\ (elapsed \/ resumes < MaxResumes)

ConsumeBudget(elapsed) == resumes' = IF elapsed THEN 1 ELSE resumes + 1

(* Mutant: the outcome of the active turn resolves no waiter. *)
WaitersOfStale(t) == {w \in waiters : w.turn = t /\ active # t}

(* take_turn_waiters *)
WaitersOf(t) == {w \in waiters : w.turn = t}

(* Mutant: the fence is left in place. *)
KeepsCancellation(t) == cancellation

(* Mutant: the outcome of whichever turn is active releases it. *)
ReleasesAnyFence(t) == NoCancellation

(* The outcome of the cancelled turn releases the fence. *)
CancellationAfter(t) ==
  IF cancellation.turn = t THEN NoCancellation ELSE cancellation

(* Mutant: the queue is read and not popped. *)
QueueUnpopped == queue

(* pending_messages.pop_front, after its message is dispatched. *)
QueueAfterPop == Tail(queue)

OldestQueued == Head(queue)

(* Mutant: the message is pushed to the front. *)
QueuePushedFront(m) == <<[message |-> m, generation |-> generation + 1]>> \o queue

(* pending_messages.push_back *)
QueueAfterPush(m) == Append(queue, [message |-> m, generation |-> generation + 1])

--------------------------------------------------------------------------------
(* start_turn.  A retry of an admitted message, a message inside the fence, an
   ambiguous or stale reply and a full queue are refused or replayed without
   any change: those early returns are the guards.                            *)

(* Mutant: the fence is not consulted. *)
AdmissibleInsideFence(m) == initialized /\ Fresh(admissions, m)

Admissible(m) == initialized /\ Fresh(admissions, m) /\ ~Fenced

(* resolve_message_routing.  Attachments make an ordinary turn; so does a text
   when nothing waits for input. *)
RoutesOrdinary(m) == m \in Uploads \/ inputs = {}

(* A text names the question it answers, or there is no other question. *)
RoutesReply(m, input) == m \notin Uploads /\ input \in inputs

StartTurnIdle(m) ==
  /\ Admissible(m) /\ RoutesOrdinary(m)
  /\ active = NoTurn
  /\ CanMint
  /\ lease' = TRUE
  /\ AdvanceGeneration
  /\ minted' = NewTurn
  /\ active' = NewTurn
  /\ owner' = OwnerOf(NewTurn, generation + 1)
  /\ ArmHeartbeat
  /\ status' = "Running"
  /\ unread' = {}
  /\ admissions' = RecordRunning(admissions, m, NewTurn, clock)
  /\ turns' = [turns EXCEPT ![NewTurn] = RunTurn("user", m, generation + 1)]
  /\ UNCHANGED <<queue, lastOutcome, waiters, parked, cancellation, initialized,
                 inputs, runs, synthesized, resumeTurn, resumes, rejected, facts,
                 raised, sent, clock>>

StartTurnQueued(m) ==
  /\ Admissible(m) /\ RoutesOrdinary(m)
  /\ active # NoTurn
  /\ Len(queue) < MaxPending
  /\ AdvanceGeneration
  /\ queue' = QueueAfterPush(m)
  /\ admissions' = RecordQueued(admissions, m, clock)
  /\ UNCHANGED <<active, lastOutcome, waiters, parked, cancellation,
                 stateVars, rejected, facts, lease, beating, turns, minted, raised,
                 sent, clock>>

(* Shared admission is live again before the awakeable of the waiting turn is
   resolved; a target that is not the parked active turn is refused (409). *)
StartTurnReply(m, input) ==
  /\ Admissible(m) /\ RoutesReply(m, input)
  /\ active = input.turn /\ parked = input
  /\ lease' = TRUE
  /\ parked' = NoPark
  /\ ArmHeartbeat
  /\ inputs' = inputs \ {input}
  /\ admissions' = RecordTerminal(admissions, m, clock)
  /\ turns' = [turns EXCEPT ![input.turn].phase = "answered"]
  /\ UNCHANGED <<active, queue, lastOutcome, waiters, cancellation, generation,
                 schedule, initialized, status, owner, runs, synthesized, unread,
                 resumeTurn, resumes, rejected, facts, minted, raised, sent, clock>>

--------------------------------------------------------------------------------
(* record_turn_outcome.  TurnExecution reports its outcome once; the call may
   be delivered again.                                                        *)

Reports(t, kind) ==
  \/ /\ turns[t].phase \in {"running", "answered"}
     /\ kind \in {"Completed", "Accepted", "Cancelled", "Failed"}
     /\ kind = "Completed" => turns[t].run = NoRun
     /\ kind = "Accepted" => turns[t].run # NoRun
     /\ kind = "Cancelled" => turns[t].cancel
  \/ turns[t].phase = "cleared" /\ kind = "Cancelled"
  \/ turns[t].phase = "reported" /\ kind = turns[t].kind

Reported(t, kind) == [turns EXCEPT ![t].phase = "reported", ![t].kind = kind]

AdmissionsAfter(t) == MarkTerminalForTurn(admissions, t, clock)

(* A turn that is no longer active only resolves its own waiters. *)
OutcomeStale(t, kind) ==
  /\ Reports(t, kind)
  /\ active # t
  /\ admissions' = AdmissionsAfter(t)
  /\ waiters' = waiters \ WaitersOf(t)
  /\ turns' = Reported(t, kind)
  /\ UNCHANGED <<active, queue, lastOutcome, parked, cancellation,
                 generation, schedule, stateVars, rejected, facts, lease, beating,
                 minted, raised, sent, clock>>

ContinuationEligible(kind) == kind \in {"Completed", "Accepted"}

ReviewsAfter(kind) ==
  IF ContinuationEligible(kind) THEN schedule ELSE DiscardAll(schedule)

(* The unread window after clear_resume_on_outcome. *)
UnreadAfter(t) == IF resumeTurn.turn = t THEN unread \ resumeTurn.consumed ELSE unread

(* The part every outcome of the active turn shares.  An accepted outcome needs
   the marker of its run. *)
SettleActive(t, kind) ==
  /\ Reports(t, kind)
  /\ active = t
  /\ kind = "Accepted" => turns[t].run \in runs
  /\ cancellation' = CancellationAfter(t)
  /\ lastOutcome' = t
  /\ waiters' = waiters \ WaitersOf(t)
  /\ UNCHANGED <<generation, initialized, inputs, runs, synthesized, rejected, facts,
                 raised, sent, clock>>

(* A resolved review of the current generation continues first. *)
OutcomeContinues(t, kind, entry) ==
  /\ SettleActive(t, kind)
  /\ ContinuationEligible(kind)
  /\ entry \in Eligible(schedule, generation)
  /\ schedule' = Dequeue(schedule, entry)
  /\ active' = entry.turn
  /\ ReacquireIfParked
  /\ owner' = OwnerOf(entry.turn, entry.generation)
  /\ status' = "Running"
  /\ unread' = UnreadAfter(t)
  /\ resumeTurn' = IF resumeTurn.turn = t THEN NoResume ELSE resumeTurn
  /\ admissions' = AdmissionsAfter(t)
  /\ turns' = [Reported(t, kind) EXCEPT
                 ![entry.turn] = RunTurn("review", NoMessage, entry.generation)]
  /\ UNCHANGED <<queue, minted, resumes>>

NoContinuation(kind) ==
  ContinuationEligible(kind) => Eligible(schedule, generation) = {}

(* Otherwise the oldest queued message runs. *)
OutcomeDispatchesNext(t, kind) ==
  /\ SettleActive(t, kind)
  /\ NoContinuation(kind)
  /\ DispatchesNext(t, kind)
  /\ queue # <<>>
  /\ CanMint
  /\ schedule' = ReviewsAfter(kind)
  /\ queue' = QueueAfterPop
  /\ minted' = NewTurn
  /\ active' = NewTurn
  /\ ReacquireIfParked
  /\ owner' = OwnerOf(NewTurn, OldestQueued.generation)
  /\ status' = "Running"
  /\ unread' = {}
  /\ resumeTurn' = IF resumeTurn.turn = t THEN NoResume ELSE resumeTurn
  /\ admissions' = MarkRunning(AdmissionsAfter(t), OldestQueued.message, NewTurn)
  /\ turns' = [Reported(t, kind) EXCEPT
                 ![NewTurn] = RunTurn("user", OldestQueued.message,
                                      OldestQueued.generation)]
  /\ UNCHANGED <<resumes>>

NoQueuedWork(t, kind) ==
  /\ NoContinuation(kind)
  /\ DispatchesNext(t, kind) => queue = <<>>

(* Otherwise a completed turn hands its admission to a queued child signal. *)
OutcomeResumesParent(t, elapsed) ==
  /\ SettleActive(t, "Completed")
  /\ NoQueuedWork(t, "Completed")
  /\ \E s \in UnreadAfter(t) : ResumeEligible(s)
  /\ BudgetAllows(elapsed)
  /\ CanMint
  /\ ReacquireIfParked
  /\ minted' = NewTurn
  /\ active' = NewTurn
  /\ owner' = OwnerOf(NewTurn, generation)
  /\ status' = "Running"
  /\ unread' = UnreadAfter(t)
  /\ resumeTurn' = [turn |-> NewTurn, consumed |-> UnreadAfter(t)]
  /\ ConsumeBudget(elapsed)
  /\ admissions' = AdmissionsAfter(t)
  /\ turns' = [Reported(t, "Completed") EXCEPT
                 ![NewTurn] = RunTurn("child", NoMessage, generation)]
  /\ UNCHANGED <<queue, schedule>>

StatusAfter(kind) ==
  CASE kind = "Completed" -> IF runs # {} THEN "Running" ELSE "Idle"
    [] kind = "Accepted"  -> "Running"
    [] kind = "Cancelled" -> "Cancelled"
    [] OTHER              -> "Failed"

(* Otherwise the session goes idle and its lease is released; a parked turn
   owned none. *)
OutcomeIdles(t, kind, elapsed) ==
  /\ SettleActive(t, kind)
  /\ NoQueuedWork(t, kind)
  /\ kind = "Completed" =>
       ~(BudgetAllows(elapsed) /\ \E s \in UnreadAfter(t) : ResumeEligible(s))
  /\ schedule' = ReviewsAfter(kind)
  /\ active' = NoTurn
  /\ parked' = NoPark
  /\ IF Parked /\ kind = "Completed"
     THEN lease' = FALSE /\ ArmHeartbeat
     ELSE /\ lease' = (lease /\ Parked)
          /\ UNCHANGED beating
  /\ status' = StatusAfter(kind)
  /\ unread' = UnreadAfter(t)
  /\ resumeTurn' = IF resumeTurn.turn = t THEN NoResume ELSE resumeTurn
  /\ admissions' = AdmissionsAfter(t)
  /\ turns' = Reported(t, kind)
  /\ UNCHANGED <<queue, owner, resumes, minted>>

--------------------------------------------------------------------------------
(* cancel and request_cancel.                                                 *)

(* The turns of the queued messages, by generation. *)
QueuedGenerations == {queue[i].generation : i \in 1..Len(queue)}

(* The log keeps the first event of a dedupe key and drops the others. *)
FactIsTaken(i) == active # NoTurn /\ \E f \in facts : f.turn = active /\ f.index = i

(* Mutant: only the first rejection is appended. *)
FirstFact ==
  {[turn |-> active, index |-> i, generation |-> queue[i].generation] :
     i \in {j \in 1..Len(queue) : j = 1 /\ ~FactIsTaken(j)}}

(* reject_queued_messages appends one fact per queued message, under a dedupe
   key of the cancelled turn and the queue position; an idle session has the
   fresh invocation id instead of a turn. *)
NewFacts ==
  {[turn |-> active, index |-> i, generation |-> queue[i].generation] :
     i \in {j \in 1..Len(queue) : ~FactIsTaken(j)}}

(* The scope is remembered against the active turn; a task-tree cancellation
   also rejects every queued message and retracts the children's questions.
   The cascade to the children and to the runs is the environment's. *)
Cancel(scope) ==
  /\ initialized
  /\ scope \in CancelKinds \ {"request"}
  /\ cancellation' = IF active # NoTurn THEN [turn |-> active, scope |-> scope]
                                        ELSE cancellation
  /\ turns' = IF active # NoTurn THEN [turns EXCEPT ![active].cancel = TRUE] ELSE turns
  /\ IF scope = "TaskTree"
     THEN /\ queue' = <<>>
          /\ rejected' = rejected \cup QueuedGenerations
          /\ facts' = facts \cup NewFacts
          /\ admissions' = MarkRejected(admissions, queue, clock)
          /\ unread' = {s \in unread : SignalKind[s] # "NeedsInput"}
     ELSE UNCHANGED <<queue, rejected, facts, admissions, unread>>
  /\ UNCHANGED <<active, lastOutcome, waiters, parked, generation,
                 schedule, initialized, status, owner, inputs, runs, synthesized,
                 resumeTurn, resumes, lease, beating, minted, raised, sent,
                 clock>>

(* request_cancel forwards the cancellation and records no scope. *)
RequestCancel ==
  /\ "request" \in CancelKinds
  /\ active # NoTurn
  /\ turns' = [turns EXCEPT ![active].cancel = TRUE]
  /\ UNCHANGED <<pendingVars, stateVars, admissions, rejected, facts, lease, beating,
                 minted, raised, sent, clock>>

(* destroy clears the key's state; the store keeps the lease. *)
Destroy ==
  /\ CanDestroy /\ initialized
  /\ active' = NoTurn /\ queue' = <<>> /\ lastOutcome' = NoTurn /\ waiters' = {}
  /\ parked' = NoPark /\ cancellation' = NoCancellation
  /\ generation' = 0 /\ schedule' = EmptySchedule
  /\ initialized' = FALSE /\ status' = "Idle" /\ owner' = NoOwner /\ inputs' = {}
  /\ runs' = {} /\ synthesized' = {} /\ unread' = {} /\ resumeTurn' = NoResume
  /\ resumes' = 0 /\ admissions' = NoAdmissions
  /\ UNCHANGED <<rejected, facts, lease, beating, turns, minted, raised, sent, clock>>

--------------------------------------------------------------------------------
(* Coordinator input: a turn asks the user and waits.                         *)

Asks(t) == turns[t].phase = "running" /\ turns[t].trigger \in {"user", "child"}

InputOf(t) == OwnerOf(t, turns[t].generation)

(* The park fence is durable before the lease is released; parking invalidates
   the scheduled heartbeat.  A superseded owner is refused (409). *)
RegisterCoordinatorInput(t) ==
  /\ t \in InputTurns /\ Asks(t)
  /\ owner = InputOf(t)
  /\ active = t
  /\ ~Parked
  /\ inputs' = inputs \cup {InputOf(t)}
  /\ parked' = InputOf(t)
  /\ beating' = FALSE
  /\ lease' = FALSE
  /\ turns' = [turns EXCEPT ![t].phase = "waiting"]
  /\ UNCHANGED <<active, queue, lastOutcome, waiters, cancellation, generation,
                 schedule, initialized, status, owner, runs, synthesized, unread,
                 resumeTurn, resumes, admissions, rejected, facts, minted, raised,
                 sent, clock>>

(* Mutant: the question stays advertised. *)
InputsKept(t) == inputs

(* clear_coordinator_input *)
InputsAfterClear(t) == inputs \ {InputOf(t)}

(* A waiting turn that is cancelled retracts its question, then reports. *)
ClearCoordinatorInput(t) ==
  /\ turns[t].phase = "waiting" /\ turns[t].cancel
  /\ inputs' = InputsAfterClear(t)
  /\ turns' = [turns EXCEPT ![t].phase = "cleared"]
  /\ UNCHANGED <<pendingVars, initialized, status, owner, runs, synthesized,
                 unread, resumeTurn, resumes, admissions, rejected, facts, lease,
                 beating, minted, raised, sent, clock>>

--------------------------------------------------------------------------------
(* Action reviews.                                                            *)

(* The generation of the owner that issued the tool call. *)
ReviewGeneration(t) == turns[t].generation

(* register_action_review: a superseded review is not registered. *)
RegisterActionReview(t, review) ==
  /\ Asks(t) \/ turns[t].phase = "answered"
  /\ review \notin raised
  /\ raised' = raised \cup {review}
  /\ schedule' = IF ReviewGeneration(t) < generation
                 THEN schedule
                 ELSE Register(schedule, review, t, ReviewGeneration(t))
  /\ UNCHANGED <<active, queue, lastOutcome, waiters, parked,
                 cancellation, generation, stateVars, admissions, rejected, facts, lease,
                 beating, turns, minted, sent, clock>>

TerminalSession == status \in {"Cancelled", "Failed"}

(* Dispatches the continuation entry on an idle session, out of schedule s. *)
DispatchContinuation(s, entry) ==
  /\ schedule' = Dequeue(s, entry)
  /\ active' = entry.turn
  /\ owner' = OwnerOf(entry.turn, entry.generation)
  /\ status' = "Running"
  /\ turns' = [turns EXCEPT
                 ![entry.turn] = RunTurn("review", NoMessage, entry.generation)]

OnlySchedules(s) ==
  /\ schedule' = s
  /\ UNCHANGED <<active, owner, status, turns>>

KeptByReview ==
  UNCHANGED <<queue, lastOutcome, waiters, parked, cancellation,
              generation, initialized, inputs, runs, synthesized, unread,
              resumeTurn, resumes, admissions, rejected, facts, lease, beating, raised,
              sent, clock>>

(* A resolution that arrives for superseded or cancelled work is dropped. *)
ReviewDropped(review) ==
  /\ IsRegistered(schedule, review)
  /\ \/ Registration(schedule, review).generation # generation
     \/ Fenced
     \/ TerminalSession
     \/ ~initialized
  /\ OnlySchedules(Resolve(schedule, review))
  /\ UNCHANGED minted
  /\ KeptByReview

(* Otherwise its continuation is queued under a turn id minted now, and the
   first eligible one runs at once if the session is idle. *)
ReviewResolved(review) ==
  LET r == Registration(schedule, review)
      s == Enqueue(Resolve(schedule, review),
                   [review |-> review, turn |-> NewTurn,
                    generation |-> r.generation, ordinal |-> r.ordinal])
  IN  /\ IsRegistered(schedule, review)
      /\ initialized /\ r.generation = generation /\ ~Fenced /\ ~TerminalSession
      /\ CanMint
      /\ minted' = NewTurn
      /\ \/ \E e \in Eligible(s, generation) :
              active = NoTurn /\ DispatchContinuation(s, e)
         \/ /\ active # NoTurn \/ Eligible(s, generation) = {}
            /\ OnlySchedules(s)
      /\ KeptByReview

(* release_action_review: the review ends without a continuation of its own;
   the one it was fencing may run. *)
ReleaseActionReview(review, resumeQueued) ==
  LET s           == Resolve(schedule, review)
      canDispatch == /\ resumeQueued /\ active = NoTurn /\ ~Fenced
                     /\ ~TerminalSession /\ initialized
  IN  /\ IsRegistered(schedule, review)
      /\ \/ \E e \in Eligible(s, generation) :
              canDispatch /\ DispatchContinuation(s, e)
         \/ /\ ~canDispatch \/ Eligible(s, generation) = {}
            /\ OnlySchedules(s)
      /\ UNCHANGED minted
      /\ KeptByReview

--------------------------------------------------------------------------------
(* Durable execution runs.                                                    *)

(* execution_run_started, on behalf of a user turn that goes durable. *)
ExecutionRunStarted(t, run) ==
  /\ initialized
  /\ turns[t].phase \in {"running", "answered"} /\ turns[t].trigger = "user"
  /\ turns[t].run = NoRun
  /\ run \notin runs \cup synthesized
  /\ runs' = runs \cup {run}
  /\ status' = "Running"
  /\ turns' = [turns EXCEPT ![t].run = run]
  /\ UNCHANGED <<pendingVars, initialized, owner, inputs, synthesized, unread,
                 resumeTurn, resumes, admissions, rejected, facts, lease, beating,
                 minted, raised, sent, clock>>

(* Mutant: a busy session keeps its active turn. *)
ActiveKept == IF active = NoTurn THEN NewTurn ELSE active

(* The synthesis turn becomes the active turn. *)
ActiveAfterSynthesis == NewTurn

(* execution_terminal dispatches the run's synthesis turn, whatever the session
   is doing: no guard reads active_turn_id or the cancellation fence. *)
ExecutionTerminal(run) ==
  /\ run \in runs
  /\ CanMint
  /\ lease' = TRUE
  /\ minted' = NewTurn
  /\ active' = ActiveAfterSynthesis
  /\ owner' = OwnerOf(NewTurn, generation)
  /\ ArmHeartbeat
  /\ status' = "Running"
  /\ turns' = [turns EXCEPT ![NewTurn] = RunTurn("synthesis", NoMessage, generation)]
  /\ synthesized' = synthesized \cup {run}
  /\ runs' = runs \ {run}
  /\ UNCHANGED <<queue, lastOutcome, waiters, parked, cancellation, generation,
                 schedule, initialized, inputs, unread, resumeTurn, resumes,
                 admissions, rejected, facts, raised, sent, clock>>

--------------------------------------------------------------------------------
(* record_child_signal: one delivery per signal.  An eligible one wakes an idle
   coordinator within the resume budget.                                      *)

(* Mutant: the active turn is not consulted. *)
WakesBusy(s, elapsed) == ResumeEligible(s) /\ BudgetAllows(elapsed)

(* maybe_arm_parent_resume *)
Wakes(s, elapsed) == ResumeEligible(s) /\ active = NoTurn /\ BudgetAllows(elapsed)

RecordChildSignal(s, elapsed) ==
  /\ initialized
  /\ minted > 0 /\ s \notin sent
  /\ sent' = sent \cup {s}
  /\ unread' \in PushUnread(s)
  /\ \/ /\ Wakes(s, elapsed) /\ CanMint
        /\ lease' = TRUE
        /\ minted' = NewTurn
        /\ active' = NewTurn
        /\ owner' = OwnerOf(NewTurn, generation)
        /\ ArmHeartbeat
        /\ status' = "Running"
        /\ resumeTurn' = [turn |-> NewTurn, consumed |-> unread']
        /\ ConsumeBudget(elapsed)
        /\ turns' = [turns EXCEPT
                       ![NewTurn] = RunTurn("child", NoMessage, generation)]
     \/ /\ ~Wakes(s, elapsed)
        /\ UNCHANGED <<lease, minted, active, owner, beating,
                       status, resumeTurn, resumes, turns>>
  /\ UNCHANGED <<queue, lastOutcome, waiters, parked, cancellation, generation,
                 schedule, initialized, inputs, runs, synthesized, admissions,
                 rejected, facts, raised, clock>>

--------------------------------------------------------------------------------
(* Turn waiters, the admission heartbeat, and the clock.                      *)

(* attach_turn_waiter answers at once for the last outcome, else registers. *)
AttachTurnWaiter(w, t) ==
  /\ turns[t].phase # "unused"
  /\ lastOutcome # t
  /\ \A x \in waiters : x.awakeable # w
  /\ waiters' = waiters \cup {[turn |-> t, awakeable |-> w]}
  /\ UNCHANGED <<active, queue, lastOutcome, parked, cancellation,
                 generation, schedule, stateVars, otherVars>>

(* The waiting workflow timed out or was cancelled. *)
RemoveTurnWaiter(w) ==
  /\ waiters' = {x \in waiters : x.awakeable # w}
  /\ waiters' # waiters
  /\ UNCHANGED <<active, queue, lastOutcome, parked, cancellation,
                 generation, schedule, stateVars, otherVars>>

(* The heartbeat renews the lease of a live admission and schedules the next
   one; otherwise its chain ends. *)
TurnAdmissionHeartbeat ==
  /\ beating
  /\ IF AdmissionIsLive
     THEN lease' = TRUE /\ UNCHANGED beating
     ELSE beating' = FALSE /\ UNCHANGED lease
  /\ UNCHANGED <<pendingVars, stateVars, admissions, rejected, facts, turns, minted,
                 raised, sent, clock>>

Renewed == AdmissionIsLive /\ beating

(* The store reclaims a lease that nothing renews: the chain beats three times
   per TTL, so a renewed lease outlives it. *)
LeaseExpires ==
  /\ lease /\ ~Renewed
  /\ lease' = FALSE
  /\ UNCHANGED <<pendingVars, stateVars, admissions, rejected, facts, beating, turns,
                 minted, raised, sent, clock>>

Tick ==
  /\ clock < MaxClock
  /\ clock' = clock + 1
  /\ UNCHANGED <<pendingVars, stateVars, admissions, rejected, facts, lease, beating,
                 turns, minted, raised, sent>>

--------------------------------------------------------------------------------

RecordTurnOutcome(t) ==
  \E kind \in {"Completed", "Accepted", "Cancelled", "Failed"} :
    \/ OutcomeStale(t, kind)
    \/ \E entry \in schedule.queued : OutcomeContinues(t, kind, entry)
    \/ OutcomeDispatchesNext(t, kind)
    \/ \E elapsed \in BOOLEAN : OutcomeIdles(t, kind, elapsed)

Next ==
  \/ \E m \in Messages : StartTurnIdle(m) \/ StartTurnQueued(m)
  \/ \E m \in Messages : \E input \in inputs : StartTurnReply(m, input)
  \/ \E t \in Turns : RecordTurnOutcome(t)
  \/ \E t \in Turns : \E elapsed \in BOOLEAN : OutcomeResumesParent(t, elapsed)
  \/ \E scope \in CancelKinds : Cancel(scope)
  \/ RequestCancel
  \/ Destroy
  \/ \E t \in Turns : RegisterCoordinatorInput(t)
  \/ \E t \in Turns : ClearCoordinatorInput(t)
  \/ \E t \in Turns : \E review \in Reviews : RegisterActionReview(t, review)
  \/ \E review \in Reviews : ReviewDropped(review) \/ ReviewResolved(review)
  \/ \E review \in Reviews : \E resumeQueued \in BOOLEAN :
       ReleaseActionReview(review, resumeQueued)
  \/ \E t \in Turns : \E run \in Runs : ExecutionRunStarted(t, run)
  \/ \E run \in Runs : ExecutionTerminal(run)
  \/ \E s \in Signals : \E elapsed \in BOOLEAN : RecordChildSignal(s, elapsed)
  \/ \E w \in Waiters : \E t \in Turns : AttachTurnWaiter(w, t)
  \/ \E w \in Waiters : RemoveTurnWaiter(w)
  \/ TurnAdmissionHeartbeat
  \/ LeaseExpires
  \/ Tick

Spec == Init /\ [][Next]_vars

(* A dispatched turn runs to its outcome and reports it: TurnExecution::run has
   no exit that skips notify_session_of_outcome, and Restate retries the call.
   Nothing else is fair: users, reviewers and children may never act. *)
TurnProgress(t) ==
  /\ turns[t].phase # "reported"
  /\ \/ RecordTurnOutcome(t)
     \/ \E elapsed \in BOOLEAN : OutcomeResumesParent(t, elapsed)

Fairness ==
  \A t \in Turns : WF_vars(TurnProgress(t)) /\ WF_vars(ClearCoordinatorInput(t))

FairSpec == Spec /\ Fairness

--------------------------------------------------------------------------------
(* Properties.                                                                *)

TurnOrNone == Turns \cup {NoTurn}

OwnerSet == [turn : TurnOrNone, generation : Nat]

QueueEntry == [message : Messages, generation : Nat]

ReviewEntry == [review : Reviews, turn : Turns, generation : Nat, ordinal : Nat]

ScheduleSet == [nextOrdinal : Nat, registered : SUBSET ReviewEntry,
                queued : SUBSET ReviewEntry]

EntrySet == [state : {"absent", "queued", "running", "terminal"},
             turn : TurnOrNone, at : Nat, ordinal : Nat]

AdmissionSet == [entries : [Messages -> EntrySet], nextOrdinal : Nat]

TurnSet == [phase : {"unused", "running", "waiting", "answered", "cleared", "reported"},
            trigger : {"none", "user", "review", "child", "synthesis"},
            message : Messages \cup {NoMessage}, generation : Nat,
            cancel : BOOLEAN, run : Runs \cup {NoRun},
            kind : {"none", "Completed", "Accepted", "Cancelled", "Failed"}]

(* The types of the session's durable state and of what surrounds it. *)
TypeOK ==
  /\ active \in TurnOrNone
  /\ queue \in Seq(QueueEntry)
  /\ lastOutcome \in TurnOrNone
  /\ waiters \subseteq [turn : Turns, awakeable : Waiters]
  /\ parked \in OwnerSet
  /\ cancellation \in [turn : TurnOrNone, scope : {"CoordinatorOnly", "TaskTree"}]
  /\ generation \in Nat
  /\ schedule \in ScheduleSet
  /\ initialized \in BOOLEAN
  /\ status \in {"Idle", "Running", "Cancelled", "Failed"}
  /\ owner \in OwnerSet
  /\ inputs \subseteq OwnerSet
  /\ runs \subseteq Runs
  /\ synthesized \subseteq Runs
  /\ unread \subseteq Signals
  /\ resumeTurn \in [turn : TurnOrNone, consumed : SUBSET Signals]
  /\ resumes \in Nat
  /\ admissions \in AdmissionSet
  /\ rejected \subseteq Nat
  /\ facts \subseteq [turn : TurnOrNone, index : Nat, generation : Nat]
  /\ lease \in BOOLEAN
  /\ beating \in BOOLEAN
  /\ turns \in [Turns -> TurnSet]
  /\ minted \in 0..MaxTurns
  /\ raised \subseteq Reviews
  /\ sent \subseteq Signals
  /\ clock \in Nat

UserTurns == {t \in Turns : turns[t].trigger = "user"}

Unfinished(t) == turns[t].phase \notin {"unused", "reported"}

(* No accepted message is lost or run twice: the generation that start_turn
   gave to each accepted message belongs to exactly one of a dispatched user
   turn, a queue entry and a rejection. *)
MessageLedger ==
  initialized =>
    /\ 1..generation = {turns[t].generation : t \in UserTurns}
                         \cup QueuedGenerations \cup rejected
    /\ \A t \in UserTurns : turns[t].generation \notin QueuedGenerations \cup rejected
    /\ \A t, u \in UserTurns : turns[t].generation = turns[u].generation => t = u
    /\ \A i, j \in 1..Len(queue) : queue[i].generation = queue[j].generation => i = j
    /\ QueuedGenerations \cap rejected = {}

(* Every rejected message has its own QueuedMessageRejected fact in the log: its
   sender was told that it was accepted. *)
RejectionsAreRecorded == \A g \in rejected : \E f \in facts : f.generation = g

(* A rejection goes unrecorded only under a turn that was cancelled before: it then
   had a fact of an older message, appended by an earlier cancellation of the same
   turn, whose dedupe key it repeats. The first task-tree cancellation of a turn
   records every message it discards, and so does one that finds no active turn. *)
OnlyRepeatsGoUnrecorded ==
  [][\A g \in rejected' \ rejected :
       \/ \E f \in facts' : f.generation = g
       \/ \E f \in facts : active # NoTurn /\ f.turn = active /\ f.generation < g]_vars

(* A message that is still queued or running is never admitted a second time,
   whatever retries its client sends and whatever the fence evicts. *)
NoSecondAdmission ==
  \A m \in Messages :
    Cardinality({t \in UserTurns : turns[t].message = m /\ Unfinished(t)})
      + Cardinality({i \in 1..Len(queue) : queue[i].message = m}) <= 1

(* Queued messages are dispatched oldest first: no user turn was dispatched
   ahead of a message that is still queued and was accepted before it. *)
OldestFirst ==
  \A t \in UserTurns : \A g \in QueuedGenerations : turns[t].generation < g

(* A review never outlives the message it was raised for: whatever is
   registered or queued for continuation has the current generation, so no
   continuation resumes work the user has since superseded. *)
ReviewsAreCurrent ==
  initialized => \A e \in schedule.registered \cup schedule.queued :
                    e.generation = generation

(* Shared admission follows the turn: the session holds its lease, and a
   heartbeat chain renews it, exactly while a coordinator turn is active and
   not parked for human input. *)
LeaseFollowsTurn ==
  initialized => /\ lease <=> AdmissionIsLive
                 /\ AdmissionIsLive => beating

(* The lease and its renewal are in place. *)
Covered == lease /\ beating

(* A coordinator turn goes without a renewed lease only after a review continuation
   that was dispatched on the idle session. Every other dispatch, every hand-over,
   every resumption of a parked turn and every expiry leaves the active turn with its
   lease and heartbeat; whoever takes over from an uncovered turn is uncovered. *)
OnlyContinuationsGoUncovered ==
  [][AdmissionIsLive' =>
       \/ Covered'
       \/ AdmissionIsLive /\ ~Covered
       \/ active = NoTurn /\ turns'[active'].trigger = "review"]_vars

(* One coordinator at a time: a turn that has not reported is the active one. *)
SingleCoordinator == initialized => \A t \in Turns : Unfinished(t) => active = t

(* While a task tree is being cancelled nothing is queued behind it. *)
FenceKeepsQueueEmpty == Fenced => queue = <<>>

(* A question advertised to the user can be answered: its turn is active and
   parked under the same generation, so the reply is delivered, not refused. *)
QuestionIsAnswerable == \A input \in inputs : active = input.turn /\ parked = input

(* An active turn that started a durable run still has the run's marker, so its
   accepted outcome is not refused. *)
AcceptedRunIsMarked ==
  \A t \in Turns : active = t /\ Unfinished(t) /\ turns[t].run # NoRun
                     => turns[t].run \in runs

(* A task-tree cancellation is final for its turn: the fence stays until the
   cancelled turn reports. *)
FenceHoldsUntilOutcome ==
  [][Fenced /\ ~Fenced' => turns'[cancellation.turn].phase = "reported"]_vars

(* Before its turn reports, the fence of a task-tree cancellation is lifted only by a
   further cancellation or with the session itself: never by the outcome of another
   turn, such as a synthesis turn that took the place of the cancelled one. *)
OnlyCancelLiftsFence ==
  [][Fenced /\ ~Fenced' =>
       \/ turns'[cancellation.turn].phase = "reported"
       \/ cancellation'.turn # NoTurn
       \/ ~initialized']_vars

(* A waiter that is registered waits for a turn that is still to report. *)
WaiterHasFuture == \A w \in waiters : turns[w.turn].phase # "reported"

(* The fence is always released. *)
FenceIsReleased == Fenced ~> ~Fenced

(* Every queued message is eventually dispatched or rejected, unless the active
   turn waits for ever for an answer of the user. *)
QueueDrains ==
  \A g \in 1..MaxGeneration :
    g \in QueuedGenerations ~> (g \notin QueuedGenerations \/ []Parked)

(* A workflow that attached to an unfinished turn is eventually answered, unless
   the turn waits for ever for an answer of the user. *)
WaitersResolve ==
  \A w \in Waiters : \A t \in Turns :
    ([turn |-> t, awakeable |-> w] \in waiters /\ Unfinished(t))
      ~> ([turn |-> t, awakeable |-> w] \notin waiters \/ []Parked)

================================================================================
