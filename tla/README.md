# Verification of the moa orchestrator

TLA+ specifications, TLC configurations and TLAPS proofs for the core of moa: how
a user's message becomes a coordinator turn and what may happen to it on the way,
how turns share the capacity of the fleet, how a session delegates to workers and
collects their results, and how the attempts of a durable task are started,
watched, paused, cancelled and settled. Every definition names
the code it models in `PROJECT.json` under `map`; paths below are relative to
`src/crates/` unless they start with `docs/`.

## 1. The system

moa runs agent sessions on Restate. A *virtual object* has durable state under
one key and at most one exclusive handler running per key; a *workflow* runs
once per key; calls between them are delivered at least once and journaled, so
a handler that crashes is replayed from its journal. Two durable systems are
outside that journal: the Postgres event log and the Valkey runtime cache.

| Component | State it keeps | Operations | Speaks to |
|---|---|---|---|
| Session object (`moa-orchestrator/src/objects/session`) | `SessionPendingState` (active turn, message queue, waiters, park fence, cancellation fence, generation, review schedule), `SessionVoState` (meta, status, security owner, inputs, run markers, unread signals, resume budget, children) | `start_turn`, `record_turn_outcome`, `cancel`, `request_cancel`, `destroy`, coordinator input, action reviews, execution bridge, child signals, waiters, heartbeat | TurnExecution, Worker, Execution, action reviews, event log, runtime store |
| Message admission fence (`session/message_admission.rs`) | one entry per client message id: running, queued or terminal | lookup, record, three transitions, eviction | inside the Session key |
| Review index (`action_reviews/scheduling.rs`) | registrations and queued continuations, with generation and ordinal | register, resolve, enqueue, take_next, discard | inside the Session and the Worker key |
| Turn admission (`session/admission.rs`) | none of its own | acquire, renew, release, heartbeat | runtime store |
| Runtime store (`moa-runtime-store`) | lease sets with deadlines | try_acquire, release | shared by all replicas |
| TurnExecution (`workflows/turn_execution`) | the journal of one turn | run, cancel, reply | Session |
| Worker object (`objects/worker`) | one child task: its turn, inputs, approvals, liveness, terminal result | admission, input, cancel, heartbeat, cleanup | Session, WorkerTurnExecution |
| Worker fan-in (`session/state/workers.rs`) | cached reports, delivery fences, the generations registered, settled and failed | register, record, consume, remove, suppress | inside the Session key |
| Task attempts (`workflows/execution_task_attempt`) | the journal of one attempt | run, watchdog, cancel | repository, hands |
| Execution repository (`moa-execution/src/repository`) | rows of runs, tasks, reservations, triggers and outbox dispatches | admit, start, claim, settle, park, pause, resume, fence and drain a terminal | Postgres; called by attempts, controller, dispatcher and users |
| ExecutionRunController, dispatcher | none of their own | advance a run, deliver dispatches, admit ready tasks | repository, Session |
| Action-review service, reaper | review records | create, decide, expire | Session, Worker |
| Event log (`moa-session`) | per-session sequence of events, dedupe keys | append, read, archive | everyone |
| Hands, providers, lineage, authorization, memory, knowledge, edge, ... | see `PROJECT.json` | | |

What is hard here is not any one handler but their order. Between two steps of
one turn the session may be cancelled in three ways, a durable run may settle, a
reviewer may answer, a child may signal, a user may reply or send more; each of
those handlers is short, and each reads state that another one wrote. On top of
that come duplicate deliveries, crashes between two durable systems, and leases
that expire. The hazards are listed, at their lines, in `PROJECT.json`.

What makes each part correct:

* Session: no accepted message is lost, run twice or overtaken; nothing waits
  behind an idle session; one coordinator turn at a time; a task-tree
  cancellation fences admission until its turn reports, and then ends; a
  question that is advertised can be answered; superseded work never resumes.
* Admission fence: a retry never becomes a second turn while the first
  admission is unresolved.
* Turn admission: a turn that asks is let in only within the fleet and tenant
  limits and keeps its leases while it is live; leases are returned or expire, so
  that only other turns ever keep a session waiting.
* Worker: every instruction it accepted is served, one report per generation and
  never while a review holds it, a cancelled turn reports, a reported worker is
  cleared or revived, and the watchdog never goes blind.
* Delegation: no report is dropped, mistaken for a duplicate or lost before it is
  read; a question that is advertised leads to somebody who waits for the answer;
  the two keys never wait for each other.
* Fan-in: a set of workers wakes its coordinator once, when all have reported and
  no failure is unread.
* Task attempts: capacity is held exactly while an attempt is dispatched and is
  given back, whatever is lost or hangs; a paused run has drained; finished work is always followed by
  a wake; a cancelled run ends.

## 2. The modules

| Module | Models |
|---|---|
| `ActionReviewSchedule` | the review index, one operator per method |
| `MessageAdmissions` | the admission fence, one operator per method |
| `Session` | the Session object and the interface of its turns: one action per handler, or one per branch where a handler decides between several |
| `TurnAdmission` | sessions competing for fleet and tenant leases, one action per store call |
| `TurnCapacity` | the promise of turn admission, as an abstract specification |
| `Worker` | the Worker object and its turn workflows, with its two calls into the Session split into call and answer |
| `WorkerLife` | what a worker promises its Session, as an abstract specification |
| `Delegation` | `Worker` composed with the part of the Session that serves it: both keys, and the detached sends between them |
| `WorkerFanIn` | the fan-in of several workers, each a `WorkerLife` |
| `TaskAttempt` | one task of a durable run: repository transactions, attempt workflow, watchdog, pause, resume and cancellation |
| `MCSession`, `MCTurnAdmission`, `MCWorker`, `MCDelegation`, `MCWorkerFanIn`, `MCTaskAttempt` | instances for TLC |
| `TurnAdmissionProofs` | proofs about `TurnAdmission`, including the refinement |
| `SessionProofs` | type correctness and the fence, for `Session` |
| `SessionLedgerProofs` | reviews and the message ledger, for `Session` |
| `SessionTurnProofs` | the active turn, its run and question, the lease that covers it, the order of messages, the facts of rejections and single admission, for `Session` |
| `WorkerProofs` | the worker's invariants, the once-only steps of its turns and the refinement of `WorkerLife` |
| `DelegationProofs` | the Session and its worker as a pair, and that the pair runs `Worker` |
| `WorkerFanInProofs` | the fan-in, for any number of workers |
| `TaskAttemptProofs` | capacity, pause, wakes and final outcomes of task attempts |

### Session

One handler invocation is one action: an exclusive handler holds the key for its
whole duration, and its journal makes it all-or-nothing across crashes. The
branches of `record_turn_outcome` are separate actions (`OutcomeStale`,
`OutcomeContinues`, `OutcomeDispatchesNext`, `OutcomeResumesParent`,
`OutcomeIdles`) in the priority order of the code: review continuation, oldest
queued message, queued child signal, idle. `start_turn` is `StartTurnIdle`,
`StartTurnQueued` and `StartTurnReply`; its refusals change nothing and are the
guards.

Concurrency is in `turns`, the workflows the session dispatched. A turn runs, may
go durable (`run`), raise reviews, ask the user and wait ("waiting", "answered",
"cleared") and reports one outcome, which may be delivered again. A turn whose
`cancel` flag is set may still complete: the flag is seen at a checkpoint.

Abstractions:

* A message is its client id; turn ids are numbers in minting order; a queued
  message is its id and the generation `advance_turn_generation` gave it, which
  also names the accepted message in the ledger.
* `rejected` is a history variable: the generations that a task-tree
  cancellation discarded. `facts` is the part of the event log that holds
  `QueuedMessageRejected` events with their dedupe keys.
* `admission_heartbeat_generation` is not a number here. A heartbeat of an old
  generation changes nothing, so `beating` says whether one of the current
  generation is scheduled.
* `lease` is this session's pair of leases. `acquire` keeps the key locked until
  it succeeds, so it appears as its effect; `TurnAdmission` has the waiting.
* The unread window drops the oldest candidate in the code and any candidate
  here; the resume window has elapsed or not, as a free choice.
* Restate delivers each child signal once to the handler.
* The cascade of a task-tree cancellation to children and runs is not a step of
  this module: what it makes them do (signal, settle) they may do at any time.

### TurnAdmission

Each store call is atomic; calls of different sessions interleave and time passes
between any two. `call` is the next call of the handler that holds the key.
`Crash` re-runs a closure from its first call, at any point inside it. A lease is
its remaining time. With `Timely`, a renewal ends at most `MaxLate` ticks after it
is due and an attempt takes at most `MaxStep` ticks between its two grants; the
assumption `HeartbeatInterval + MaxLate + MaxStep < LeaseTtl` is what "three
missed beats" leaves as room. Without it nothing is assumed about time.

`turn` says which path dispatched the session's turn, because only some paths ask.
`StartTurn` stands for the handlers that acquire before they dispatch from idle
(`start_turn`, a child resume, `execution_terminal`). `ContinueReview` is the one
that does not: a review resolved or released on an idle session dispatches its
continuation with nothing acquired and nothing armed ("unleased"), and a heartbeat
that is still scheduled from an earlier turn may give it leases later. `Synthesize`
replaces an active turn after an acquire and leaves a park marker set; the outcome
of such a turn releases nothing when it fails, so its leases are left to the TTL
("expiring"). `armed` holds the sessions with a scheduled heartbeat: an outcome
leaves it scheduled, a park moves the generation past it, and one that finds no
live admission schedules no other. A turn that hands over to the next one keeps the
session as it is.

### Worker, WorkerLife and Delegation

A handler of the Worker is one action, with two exceptions: the delivery of the
report and the stale-heartbeat signal await the Session with the key locked.
`suspended` names the call, and only the Session's answer (`ParentAcknowledges`,
`ParentRefuses`, `StaleRecorded`) releases the key. Turns are the
`WorkerTurnExecution` workflows; they call models and tools, raise reviews, park on
a question and report. `ticks` are the delayed sends of the liveness deadline and
of the cleanup, delivered at any time. `WorkerLife` is what remains when turns,
reviews and questions are hidden: new, working, reporting, reported, cleared; the
run `worker` checks that `Worker` implements it, and `WorkerFanIn` builds on it.

`Delegation` replaces the Session's free answers by the Session's handlers for one
worker. `session` says which Session handler awaits the worker, and `posted`,
`retracting` and `removing` are detached sends that arrive when they like.

Abstractions: a worker's result is its status; a turn asks at most one question;
the cleanup grace and the heartbeat threshold are above zero, as configured by
default; the delivery history of inputs never reaches its limit of 128; the
security circuit appears only as the reason "security" for which a review is
released.

### WorkerFanIn

The wait set, its three generations and its bounded delivery fences. Each child
takes the steps of `WorkerLife`; a report may be delivered again while its fence
exists or after it was evicted; the coordinator is busy or idle as it likes.

### TaskAttempt

One repository call is one transaction and one action, so every other actor may
commit between two calls of the same actor. `task.phase` combines the task's status
with its attempt state. `attempts` records, for each attempt generation, the
controller generation of its admission, its reservation, its watchdog trigger, and
where its workflow (`worker`) and its watchdog handler (`guard`) are between their
calls. `cancels` are cancellations that were sent, and those that have loaded the
rows and are about to settle. Abstractions:

* The live run statuses (queued, running, waiting for something) are one, "live":
  each transaction recomputes them from the counters, and the fences do not tell
  them apart.
* `wake_epoch` and the outbox are the flag `activation`: "queued" means that an
  activation of the current epoch is on its way. A counter transition moves the
  epoch without enqueueing (`Counted`), which makes that activation stale.
* Releasing the hands of an attempt touches no row. It is tried once: a failure ends
  the workflow (`ReleaseFails`), the watchdog's handler (`WatchdogReleaseFails`) or
  the cancellation (`CancelReleaseFails`) after the claim, with nothing settled. The
  outbox sends a cancellation that settled nothing again while it is current
  (`Requeued`); a workflow is over, and a watchdog is no longer current once its
  attempt is being released.
* A settlement that would take a counter below zero is an error that ends its
  handler (`Underflows`).
* The watchdog's preparation and its load are one step, and its trigger is settled
  with the attempt. Deadlines and retry delays pass at any time.
* The logical task generation moves with the attempt generation.

## 3. What the passing runs show

| Run | Instance | Properties |
|---|---|---|
| `session_queue` | 4 messages (1 upload), queue of 2, 4 turns, a waiter, both scopes, a question | `MessageLedger`, `OldestFirst`, `FenceKeepsQueueEmpty`, `QuestionIsAnswerable`, `OnlyRepeatsGoUnrecorded`, `QueueDrains`, `WaitersResolve`, `FenceIsReleased` |
| `session_runs` | 3 messages retried, retention of 1 entry and 1 tick, a durable run, a waiter, every kind of cancellation, destroy | `NoSecondAdmission`, `AcceptedRunIsMarked`, `OnlyCancelLiftsFence` |
| `session_background` | 2 reviews, 2 child signals, 2 messages, unread window of 1, budget of 1, a parked turn, both scopes | `ReviewsAreCurrent`, `SingleCoordinator`, `OnlyContinuationsGoUncovered` |
| `admission` | 3 sessions, 2 tenants, fleet 2, tenant 1, TTL 3 | `AdmittedHoldsLeases`, `KeepsCapacity`, `LeasesBounded` |
| `admission_live` | 2 sessions of one tenant, tenant 1, TTL 3, 1 crash, any number of turns | `NoLeakedLease`, `OnlyTurnsKeepWaiting` |
| `worker` | 2 reviews, a question, a follow-up, a waiting coordinator, 4 turns, 3 liveness deadlines, 2 release attempts | `ReportedWhenSettled`, `InstructionsAreServed`, `NoReportWhileHeld`, `RegisteredCanContinue`, `OneLiveTurn`, `OutstandingIsScheduled`, `ParkedIsAnswerable`, `ImplementsLife` |
| `worker_live` | 1 review, a question, a follow-up, 3 turns | `CancelledTurnReports`, `DeliveredEnds` |
| `delegation` | 1 review, a question, a follow-up, 3 turns, both keys | `DeliveryIsNew`, `AcknowledgedIsKept`, `FirstReportIsAccepted`, `TargetIsAnswerable` |
| `fan_in` | 3 workers, 2 delivery fences, 2 instructions each | `OneWakePerGeneration`, `AllTerminalIsSettled`, `WakeIsEarned` |
| `task_attempts` | 2 attempts, 2 tries, 3 controller generations, pause, resume, cancel | `CapacityFollowsAttempt`, `PausedIsDrained`, `FinishedIsWoken`, `AttemptEnds` |

The two liveness properties of the queue and the waiters allow one excuse, a turn
that waits for its user for ever: nothing in the code times such a wait out.
Admission promises less: a waiting session polls and has no place in a queue
(`admission.rs:225-245`), so turns that are let in elsewhere again and again may
starve it. `OnlyTurnsKeepWaiting` says that nothing else does; there is no bound on
the turns of a session that would end the competition.
`AttemptEnds` names the one way to keep capacity, a failed release of the hands that
no cancellation follows up (`Abandoned`, section 4).

Bounds. `MaxTurns`, `MaxGeneration`, `MaxClock`, `MaxAttempts` and the number of
instructions and deadlines of a worker cap what would grow for ever, and
`MaxCrashes` caps the crashes; `MaxLate` and `MaxStep` are what `Timely` assumes. The
queue, the unread window, the resume budget, the retention, the delivery fences, the
tries and the lease limits are the code's own limits at small values. Four turns let a turn
run, be cancelled, hand over and be followed by another with its late duplicate
still under way; a queue of two distinguishes first from last and reaches the
full-queue refusal; two reviews distinguish ordinals; a retention of one makes
eviction by age and by count happen. In the worker, a third liveness deadline lets
a deadline outlive the slot it was armed for, and four turns allow a turn, its
review's continuation, a follow-up and one more. Three workers with two fences
evict a fence that is still needed. Two attempts let every late message of the
first meet the second, and three controller generations are a pause and a resume
around it. The runs divide the features because their
product is out of reach; the theorems of section 5 hold for all of them together,
where they name no hypothesis. `session_queue` checks liveness, for which TLC's
symmetry reduction is not sound; its action constraint `FirstUsedInOrder` lets the
clients use the ids of plain messages for the first time in one order. The ids are
interchangeable, and a client owes no message, so every behaviour is still there up to
the names of the messages. `admission` has no crash because three sessions with
one are out of reach; `admission_live` has it, and the theorems allow any number.

A run that leaves a feature out does so for a reason: `session_queue` has neither
runs nor `request_cancel` because `QuestionIsAnswerable` fails with the first and
`OldestFirst` with the second (section 4). `session_background` has no runs because a
settled run starts a second coordinator next to an active one. What holds with the
excluded feature is a property of its own: `OnlyRepeatsGoUnrecorded` speaks of
repeated task-tree cancellations, `OnlyContinuationsGoUncovered` of reviews and
`OnlyCancelLiftsFence` of a run that takes over a cancelled turn, and all three are
proved for all features together.
`session_runs` allows deadlock because a destroyed session has nothing left to do,
the worker runs because a cleared worker is at rest, and `task_attempts` because an
ended run is.

Fairness. A dispatched turn reports: `TurnExecution::run` turns every result into
an outcome and calls `notify_session_of_outcome`, which Restate retries, so
`TurnProgress(t)` and the retraction of a cancelled question are weakly fair.
Nobody else is: users, reviewers, children and runs may stay silent for ever. In
`TurnAdmission` the handler that holds a key goes on, heartbeats are delivered and
time passes (weak fairness); a turn's outcome is strongly fair because it waits in
the key's queue, which serves heartbeats and outcomes in order; an attempt to acquire
goes on and may be refused each time. In `Worker` a turn's
steps and the cleanup tick wait in the key's queue while a handler is suspended, so
they are strongly fair; the Session answers (weak fairness); parents, users,
reviewers and liveness deadlines owe nothing. In `TaskAttempt` the dispatcher's
drain recurs, outbox rows are delivered until acknowledged, a workflow that claimed
its release is replayed to its end, which may be a settlement or a failure, and a
pending watchdog becomes due (weak fairness). A cancellation that is sent again and
again releases the hands in the end (strong fairness of `CancelDrains`); nobody else
gets a second try, so no fairness makes the workflow's or the watchdog's release
succeed. The delivery of an attempt and its work are not fair, because the
watchdog is there for their loss.

## 4. Where code and documentation disagree

Two of these are runs that TLC must find violated, each with a finding; for the
others the configuration is kept and named, or the property is in the module.

| Run | What happens |
|---|---|
| `delegation_deadlock` | a task-tree cancellation awaits `Worker.cancel` inside the Session key while the worker awaits the Session with its report or its stale signal: each holds the key the other needs (`NoMutualWait`) |
| `cancel_wedged` | a run is cancelled after an attempt returned its capacity and before it settled: the drain does not see the attempt and zeroes the counter of active tasks, the settlement would take it below zero and fails, and nothing is left to wake or end the run (`RunCancelEnds`) |

| Configuration | What happens |
|---|---|
| `MCSessionOvertaking` | `request_cancel` records no scope: queued messages stay behind an idle session and later ones overtake them |
| `MCTaskAttemptStranded` | the one try to release the hands of an attempt fails after the claim: the workflow is over, the watchdog is no longer current, although `outbox.rs:1550-1563` leaves what is ambiguous to it, and the capacity stays held until somebody pauses or cancels the run (`CapacityIsReturned`) |
| `MCTurnAdmissionUnleased` | a review continuation is dispatched from idle without a lease and without a heartbeat, although `docs/12-restate-architecture.md:134` says that the session "acquires both a fleet lease and a tenant lease before dispatching a coordinator turn" (`AcquiresBeforeDispatch`) |
| `MCSessionReviewLease` | the same continuation, seen from the Session: its lease does not follow the turn (`LeaseFollowsTurn`) |
| `MCSessionFenceStuck` | `execution_terminal` replaces the active turn without looking; if that turn was under task-tree cancellation, its outcome is stale and the fence stays: every later message gets 409 (`FenceIsReleased`, against `docs/02-brain-orchestration.md:122-126`) |
| `MCSessionScopeReplaced` | `cancel` overwrites a recorded `TaskTree` scope with `CoordinatorOnly` and lifts the fence early (`FenceHoldsUntilOutcome`) |
| `MCSessionRejectionLost` | a second task-tree cancellation of the same turn reuses the dedupe keys of the first: its rejection facts are dropped, although each discarded message is to have one durable fact (`lifecycle.rs:67-69`, `RejectionsAreRecorded`) |
| `MCSessionLateWaiter` | a waiter for a turn older than the last outcome is registered and never answered |
| `MCWorkerCancelHeld` | a worker whose cancelled turn ends while a review is open becomes cancelled and is never reported, although `docs/01-architecture-overview.md:600` promises a report "on every terminal transition" |
| `MCWorkerReviewStranded` | a review that times out is released with `resume_queued` false, and an approved review queued behind it stays on an idle worker (`moa-core/src/types/action_policy.rs:733` says otherwise) |
| `MCWorkerFanInRevived` | a worker that was revived by a follow-up keeps its earlier report in the cache, so the set may be called settled while that worker is at work (`docs/12-restate-architecture.md:339`) |

Properties of `Delegation` that the code does not have, although a text says so:
`CachedUntilConsumed` (`docs/02-brain-orchestration.md:376`: the removal of a
cleaned-up child drops its unread result) and `TargetNeverOutlives` (the comment at
`objects/worker/handlers/cleanup.rs:186`: the turn of a cancelled worker may end
before its target is retracted).

Two more of the task attempts. A pausing run that is cancelled waits for a resume:
the terminal cancellation compares the admission's generation, which the pause moved,
and the pause's own cancellation returns the task to ready and wakes nobody. And a
release claim of an attempt that is already being released is a replay, so the
watchdog and the workflow may both own the release: the slower one's outcome is
discarded, although `begin_release_workflow` is documented to claim "exclusive
release ownership".

Some branches cannot be reached, which the invariants show: the superseded branch
of the worker's `action_review_resolved`, the duplicate branch of
`record_worker_child_terminal` in an undisturbed delegation, and the deferral of a
cleanup.

`session_queue` fails in two more ways when a feature is added to it, which are
not runs of their own. With a durable run, the replacement of `MCSessionFenceStuck`
happens while a turn waits for input: the question stays advertised and every
reply is refused (`QuestionIsAnswerable`). With a review, a turn that completes
although its task tree was cancelled dispatches the review's continuation in the
step that releases the fence, while the comment at `scheduling.rs:123` says that
no continuation may run inside a tree that is being torn down.

## 5. What is proved

For every value of the constants that satisfies the named assumptions
(`BoundsAssumption`, `InputsAssumption`, `NoneAssumption`, `RetainedAssumption`,
`RetentionAssumption`; `SessionsAssumption`, `LimitsAssumption`, `TtlAssumption`,
`TimelyType`, `TimelyAssumption`; `FanInAssumption`; `WorkerAssumption`,
`ReplyAssumption`, `InputAssumption`; and `AttemptBounds`):

* `TurnAdmissionProofs`. `LeasesBounded` holds with and without timeliness and is
  inductive with `TypeOK`: a new lease
  needs room, a renewal adds none, and everything else only removes. The rest
  needs `AllCovered`: while a turn that was let in is live, its heartbeat is armed,
  each lease has more time left than the
  heartbeat has until its deadline, and the fleet lease of a half-done attempt
  was granted at most `MaxStep` ticks ago; so no tick can expire the lease of such
  a turn. From it follow `AdmittedTurnsHoldLeases` and, because the turns that were
  let in are then a subset of live leases, the refinement
  `AdmissionKeepsCapacity`: each step maps to a step of `TurnCapacity` or a
  stutter. Both speak of the turns that asked; review continuations from idle are
  steps of the module and outside the promise, and they neither take a lease from
  an admitted turn nor are counted by the limits. `LeasesAreReturned` uses `AllClean`, which says where in a release or
  an attempt each lease may still be held, and needs no timing.
* `SessionProofs`. `SessionTypeCorrect` has one lemma per action.
  `FenceHoldsQueueEmpty` needs no strengthening beyond types: the fence is set
  only where the queue is drained, and admission is refused inside it.
* `SessionLedgerProofs`. `ReviewsStayCurrent` needs `GenerationsBounded`: no turn
  carries a generation above the session's. `NoMessageLostOrRepeated` proves
  `MessageLedger`. Its inductive invariant adds `FreshTurns` (a turn id that has
  not been dispatched is unused, minted continuations included), without which a
  dispatch might overwrite a user turn. Every action is first shown to be one of
  six kinds of ledger step (starts now, queues, dispatches the oldest, rejects,
  ends, continues), and each kind preserves the ledger.
* `WorkerFanInProofs`. `WakesOncePerGeneration`, `FinishedSetIsSettled` and
  `WakesAreEarned`, with the types. The inductive invariant `FInv` adds to the
  three statements the order of the generations (settled and failed never exceed
  registered), that only children have cached reports, that a delivery fence never
  names a generation its worker has not reached, and that a failure in the cache is
  remembered by the failure generation. The last is what a second registration might
  lose: the failure of an earlier set moves with the new generation, so the wake
  stays suppressed until a coordinator has read it.

* `SessionTurnProofs` sorts every step once more, now by what it does to the active
  turn (`TurnClass`): the turn stays, the session comes to rest, or a turn begins.
  `TurnInv` is inductive over these classes. It says that ids above the last minted
  one and those of queued continuations are unused, which a dispatch would otherwise
  overwrite; that the active turn is unfinished; that only a cancelled turn retracts
  its question; that a user turn has a message; and `AcceptedRunIsMarked`. On it rest:
  * `AdmittedOnceAtATime` (`NoSecondAdmission`, no further hypothesis). The property
    counts turns and queue entries; what is inductive is `AdmittedIsHeld`: the
    fence's entry of a running message names its turn, and that of a queued one says
    queued. Eviction removes terminal entries only, and an outcome gives up only the
    entry that names its own turn.
  * `OneCoordinator` (`SingleCoordinator`) and `QuestionsAreAnswerable`
    (`QuestionIsAnswerable`) for sessions without durable runs. The second needs that
    the turn of a question is waiting (`AskedIsParked`): a waiting turn cannot
    report, so no outcome moves the session on under an open question.
  * `LeasesCoverTurns` (`OnlyContinuationsGoUncovered`, no further hypothesis): an
    action property, one lemma per kind of step. Over reviews, runs, signals and every
    cancellation it names the one step that leaves a live turn without a renewed
    lease, the continuation dispatched from idle, and shows that no other step does.
  * `FenceOutlivesOthers` (`OnlyCancelLiftsFence`, no further hypothesis): an outcome
    gives up only the cancellation of the turn that it reports, so the fence of a
    cancelled tree goes with that turn, with a cancellation or with the session.
  * `DispatchedOldestFirst` (`OldestFirst`) when every cancellation goes through
    `cancel`. It needs that a cancelled active turn has its scope recorded, so that
    the only outcome that leaves the queue alone is that of a fenced task tree, whose
    queue is empty; hence an idle session has an empty queue, and a message that
    starts at once overtakes none.
  * `OnlyRepeatsLoseFacts` (`OnlyRepeatsGoUnrecorded`, no further hypothesis). It
    needs `FactsAreOlder`: every fact is of a message older than all queued ones, so a
    fact that takes the dedupe key of a queued message was appended by an earlier
    cancellation of the same turn.

  The hypotheses of `OneCoordinator`, `QuestionsAreAnswerable` and
  `DispatchedOldestFirst` are on the constants `Runs` and `CancelKinds`, that is, on
  which features of the session are used. They are not conveniences: without each of
  them TLC finds the property violated (section 4 and the comments of the theorems). The runs of section 3 check the properties under the same hypotheses.
* `WorkerProofs`. `WorkerInv` is one inductive invariant for eight of the properties.
  Alone they are not inductive: whether a worker may report depends on what its live
  turn will leave behind. So `LiveIsActive` ties each phase of the live turn to the
  worker's status, `WorkingIsCurrent` says that a turn that has read its messages
  leaves none, `ReviewsAreCurrent` that a cancelled worker has at most the one review
  its turn raised after the cancellation, and `IdleHasReported` that a worker without
  a turn has reported unless it was cancelled or held. `WorkerKeepsItsPromise` maps
  each step to a step of `WorkerLife` or a stutter. `TurnRunsOnce` is an action
  property and needs `IdsInv`: a continuation's id, minted when its review resolves,
  stays unused until it is dispatched.
* `DelegationProofs`. `PairRunsTheWorker` proves that the composition implements
  `Worker`: what that module lets the parent answer is what the Session answers. All
  worker theorems then hold of the pair. `PairInv` adds the Session's half: the
  delivery fence is at the acknowledged generation and behind an unacknowledged one,
  a worker is forgotten only after its result was consumed, and a user sees only
  requests that were parked. `InputAssumption` (the turns that ask are turns) was
  implicit before.
* `TaskAttemptProofs`. `AttemptInv` adds to capacity and wakes that the counter of
  active tasks is that of the dispatched attempt, except that a terminal drain may
  have recounted after the capacity was returned; that a paused run has none and an
  ended run only finished work; and that no row exists of an attempt not yet admitted.
  It is kept by every release that fails, too: a failure strands capacity, which is a
  matter of liveness, and never gives it to somebody else.
  `OutcomeIsFinal` and `AdmittedOnce` are action properties over the same invariant:
  of the workflow, the watchdog and the cancellation of one attempt the first to
  settle wins, and whatever arrives later changes neither outcome nor capacity.

The type invariants are theorems, and the proofs of the other properties use them.

## 6. What is only model-checked, and what is not modelled

Every invariant, action property and refinement that a passing run checks is a theorem
of section 5. `LeaseFollowsTurn` and `RejectionsAreRecorded` are statements of the
documentation that fail of the whole session (section 4); what is checked and proved in
their place are `OnlyContinuationsGoUncovered` and `OnlyRepeatsGoUnrecorded`.
Liveness (`QueueDrains`, `WaitersResolve`, `FenceIsReleased`, `OnlyTurnsKeepWaiting`,
`CancelledTurnReports`, `DeliveredEnds`, `AttemptEnds`) is out of TLAPS's reach and
stays with TLC, on the bounds above. So do the cases beyond the hypotheses of the
conditional theorems about `Session`, where the properties do not hold.

Not modelled in the Session and the Worker: the security circuit beyond its owner,
execution templates, confirmations and progress. Not modelled of durable runs: more
than one task of a run (dependencies, map and reduce pages), budgets, replans,
compensation, timers, schedules, external jobs, run deadlines and the recovery of a
crashed activation. Not modelled at all: the components listed as `not_modelled` in
`PROJECT.json`, each with its reason. Most are data transformation or adapters; those
with protocols of their own are in the plan.

## 7. Plan

Done, with proofs: the Session turn path, its admission fence and review index; shared turn
admission and its refinement; the Worker and the life it implements, its delegation
and the fan-in; the attempts of a durable task.

Next, in this order:

1. Proofs. What still holds of a session with durable runs and every kind of
   cancellation, where `SingleCoordinator`, `QuestionIsAnswerable` and `OldestFirst`
   fail: how many coordinators there may be, which question is orphaned and which
   message is overtaken. Action properties of `Session` that match those of `Worker`
   and `TaskAttempt`.
2. Several tasks of one run, with dependencies, budgets and the wake epoch as a
   number; the reverse-order compensation of committed effects.
3. External jobs: start recovery, reconciliation and cancellation of a job that may
   already run at the provider.
4. The action-review service and its reaper against the schedule.
5. The event log's sequence allocation and dedupe, then the provider concurrency
   leases and the sandbox workspace leases.
