----------------------------- MODULE SessionProofs -----------------------------
(***************************************************************************)
(* Proofs about Session for any sets of messages, reviews, runs, signals   *)
(* and waiters, any limits and any bounds.                                 *)
(***************************************************************************)
EXTENDS Session, TLAPS

Kinds == {"Completed", "Accepted", "Cancelled", "Failed"}

Phases == {"unused", "running", "waiting", "answered", "cleared", "reported"}

Triggers == {"user", "review", "child", "synthesis"}

--------------------------------------------------------------------------------
(* Types of the operators the handlers are built from.                        *)

(* A dispatched turn has the type of a turn. *)
LEMMA RunTurnType ==
  ASSUME NEW trigger \in Triggers, NEW m \in Messages \cup {NoMessage}, NEW g \in Nat
  PROVE  RunTurn(trigger, m, g) \in TurnSet
BY DEF RunTurn, UnusedTurn, TurnSet, Triggers

LEMMA ReportedType ==
  ASSUME TypeOK, NEW t \in Turns, NEW kind \in Kinds
  PROVE  Reported(t, kind) \in [Turns -> TurnSet]
<1>1. turns \in [Turns -> TurnSet]
  BY DEF TypeOK
<1>2. [turns[t] EXCEPT !.phase = "reported", !.kind = kind] \in TurnSet
  BY <1>1 DEF TurnSet, Kinds
<1>3. Reported(t, kind) = [turns EXCEPT ![t] = [turns[t] EXCEPT !.phase = "reported",
                                                               !.kind = kind]]
  BY <1>1 DEF Reported
<1> QED
  BY <1>1, <1>2, <1>3

LEMMA PhaseType ==
  ASSUME TypeOK, NEW t, NEW p \in Phases
  PROVE  [turns EXCEPT ![t].phase = p] \in [Turns -> TurnSet]
<1>1. turns \in [Turns -> TurnSet]
  BY DEF TypeOK
<1>2. CASE t \in Turns
  <2>1. [turns[t] EXCEPT !.phase = p] \in TurnSet
    BY <1>1, <1>2 DEF TurnSet, Phases
  <2> QED
    BY <1>1, <1>2, <2>1
<1>3. CASE t \notin Turns
  BY <1>1, <1>3
<1> QED
  BY <1>2, <1>3

LEMMA CancelType ==
  ASSUME TypeOK, NEW t
  PROVE  [turns EXCEPT ![t].cancel = TRUE] \in [Turns -> TurnSet]
<1>1. turns \in [Turns -> TurnSet]
  BY DEF TypeOK
<1>2. CASE t \in Turns
  <2>1. [turns[t] EXCEPT !.cancel = TRUE] \in TurnSet
    BY <1>1, <1>2 DEF TurnSet
  <2> QED
    BY <1>1, <1>2, <2>1
<1>3. CASE t \notin Turns
  BY <1>1, <1>3
<1> QED
  BY <1>2, <1>3

LEMMA ResolveType ==
  ASSUME NEW s \in ScheduleSet, NEW r
  PROVE  Resolve(s, r) \in ScheduleSet
BY DEF Resolve, ScheduleSet

LEMMA DiscardBelowType ==
  ASSUME NEW s \in ScheduleSet, NEW g
  PROVE  DiscardBelow(s, g) \in ScheduleSet
BY Zenon DEF DiscardBelow, ScheduleSet

LEMMA DiscardAllType ==
  ASSUME NEW s \in ScheduleSet
  PROVE  DiscardAll(s) \in ScheduleSet
BY DEF DiscardAll, ScheduleSet

LEMMA DequeueType ==
  ASSUME NEW s \in ScheduleSet, NEW e
  PROVE  Dequeue(s, e) \in ScheduleSet
BY DEF Dequeue, ScheduleSet

LEMMA EnqueueType ==
  ASSUME NEW s \in ScheduleSet, NEW e \in ReviewEntry
  PROVE  Enqueue(s, e) \in ScheduleSet
BY DEF Enqueue, ScheduleSet

LEMMA RegisterType ==
  ASSUME NEW s \in ScheduleSet, NEW r \in Reviews, NEW t \in Turns, NEW g \in Nat
  PROVE  Register(s, r, t, g) \in ScheduleSet
<1>1. [review |-> r, turn |-> t, generation |-> g, ordinal |-> s.nextOrdinal]
        \in ReviewEntry
  BY DEF ReviewEntry, ScheduleSet
<1>2. s.nextOrdinal + 1 \in Nat /\ s.queued \in SUBSET ReviewEntry
  BY DEF ScheduleSet
<1> QED
  BY <1>1, <1>2 DEF Register, ScheduleSet

LEMMA RegistrationType ==
  ASSUME NEW s \in ScheduleSet, NEW r, IsRegistered(s, r)
  PROVE  Registration(s, r) \in s.registered /\ Registration(s, r) \in ReviewEntry
BY DEF Registration, IsRegistered, ScheduleSet

--------------------------------------------------------------------------------
(* Types of the admission fence.                                              *)

LEMMA EntryTypes ==
  /\ Absent \in EntrySet
  /\ QueuedEntry \in EntrySet
  /\ \A t \in TurnOrNone : RunningEntry(t) \in EntrySet
  /\ \A now, n \in Nat : TerminalEntry(now, n) \in EntrySet
BY Zenon DEF Absent, QueuedEntry, RunningEntry, TerminalEntry, EntrySet, TurnOrNone, NoTurn

LEMMA EvictType ==
  ASSUME NEW a \in AdmissionSet, NEW now
  PROVE  EvictExpired(a, now) \in AdmissionSet
BY Zenon, EntryTypes DEF EvictExpired, AdmissionSet

LEMMA RecordTypes ==
  ASSUME NEW a \in AdmissionSet, NEW m \in Messages, NEW now \in Nat
  PROVE  /\ RecordQueued(a, m, now) \in AdmissionSet
         /\ RecordTerminal(a, m, now) \in AdmissionSet
<1>1. [a EXCEPT !.entries[m] = QueuedEntry] \in AdmissionSet
  BY EntryTypes DEF AdmissionSet
<1>2. [entries     |-> [a.entries EXCEPT ![m] = TerminalEntry(now, a.nextOrdinal)],
       nextOrdinal |-> a.nextOrdinal + 1] \in AdmissionSet
  BY EntryTypes DEF AdmissionSet
<1> QED
  BY <1>1, <1>2, EvictType DEF RecordQueued, RecordTerminal

LEMMA RunningTypes ==
  ASSUME NEW a \in AdmissionSet, NEW m \in Messages, NEW t \in Turns, NEW now \in Nat
  PROVE  /\ RecordRunning(a, m, t, now) \in AdmissionSet
         /\ MarkRunning(a, m, t) \in AdmissionSet
<1>1. t \in TurnOrNone
  BY DEF TurnOrNone
<1>2. [a EXCEPT !.entries[m] = RunningEntry(t)] \in AdmissionSet
  BY <1>1, EntryTypes DEF AdmissionSet
<1> QED
  BY <1>2, EvictType DEF RecordRunning, MarkRunning

LEMMA MarkTerminalType ==
  ASSUME NEW a \in AdmissionSet, NEW t, NEW now \in Nat
  PROVE  MarkTerminalForTurn(a, t, now) \in AdmissionSet
<1>1. a.nextOrdinal \in Nat
  BY DEF AdmissionSet
<1>2. [entries     |-> [x \in Messages |->
                          IF OwnsTurn(a, x, t)
                          THEN TerminalEntry(now, a.nextOrdinal)
                          ELSE a.entries[x]],
       nextOrdinal |-> a.nextOrdinal + 1] \in AdmissionSet
  BY <1>1, EntryTypes DEF AdmissionSet
<1> QED
  BY <1>2, EvictType DEF MarkTerminalForTurn

LEMMA MarkRejectedType ==
  ASSUME NEW a \in AdmissionSet, NEW q \in Seq(QueueEntry), NEW now \in Nat
  PROVE  MarkRejected(a, q, now) \in AdmissionSet
<1>n. a.nextOrdinal \in Nat /\ Len(q) \in Nat
  BY DEF AdmissionSet
<1> DEFINE At(m) == CHOOSE i \in 1..Len(q) : q[i].message = m
           Rejects(m) == (\E i \in 1..Len(q) : q[i].message = m) /\ ~Fresh(a, m)
<1>1. \A m : Rejects(m) => At(m) \in 1..Len(q)
  OBVIOUS
<1>2. \A m : Rejects(m) => RejectionOrdinal(a, At(m)) \in Nat
  <2> HIDE DEF At, Rejects
  <2> QED
    BY <1>n, <1>1 DEF RejectionOrdinal
<1>3. \A m \in Messages : Rejects(m) => TerminalEntry(now, RejectionOrdinal(a, At(m))) \in EntrySet
  <2> HIDE DEF At, Rejects
  <2> QED
    BY <1>2, EntryTypes
<1>4. [m \in Messages |-> IF Rejects(m) THEN TerminalEntry(now, RejectionOrdinal(a, At(m)))
                                        ELSE a.entries[m]] \in [Messages -> EntrySet]
  <2> HIDE DEF At, Rejects
  <2> QED
    BY <1>3 DEF AdmissionSet
<1> QED
  BY <1>n, <1>4 DEF MarkRejected, AdmissionSet

--------------------------------------------------------------------------------
(* Every handler preserves the types of the session's state.                  *)

LEMMA NewTurnType ==
  ASSUME TypeOK, CanMint
  PROVE  NewTurn \in Turns /\ NewTurn \in TurnOrNone /\ NewTurn \in 0..MaxTurns
BY BoundsAssumption DEF TypeOK, CanMint, NewTurn, Turns, TurnOrNone

LEMMA OwnerType ==
  ASSUME NEW t \in TurnOrNone, NEW g \in Nat
  PROVE  OwnerOf(t, g) \in OwnerSet
BY DEF OwnerOf, OwnerSet

LEMMA NoneTypes ==
  /\ NoTurn \in TurnOrNone /\ NoPark \in OwnerSet /\ NoOwner \in OwnerSet
  /\ NoCancellation \in [turn : TurnOrNone, scope : {"CoordinatorOnly", "TaskTree"}]
  /\ NoResume \in [turn : TurnOrNone, consumed : SUBSET Signals]
BY DEF NoTurn, NoPark, NoOwner, NoCancellation, NoResume, TurnOrNone, OwnerSet

LEMMA StartTurnIdleType ==
  ASSUME TypeOK, NEW m \in Messages, StartTurnIdle(m)
  PROVE  TypeOK'
<1>1. NewTurn \in Turns /\ NewTurn \in TurnOrNone /\ NewTurn \in 0..MaxTurns
  BY NewTurnType DEF StartTurnIdle
<1>2. generation + 1 \in Nat
  BY DEF TypeOK
<1>3. OwnerOf(NewTurn, generation + 1) \in OwnerSet
  BY <1>1, <1>2, OwnerType
<1>4. RunTurn("user", m, generation + 1) \in TurnSet
  BY <1>2, RunTurnType DEF Triggers
<1>5. RecordRunning(admissions, m, NewTurn, clock) \in AdmissionSet
  BY <1>1, RunningTypes DEF TypeOK
<1>6. DiscardBelow(schedule, generation + 1) \in ScheduleSet
  BY DiscardBelowType DEF TypeOK
<1> QED
  BY <1>1, <1>2, <1>3, <1>4, <1>5, <1>6
  DEF TypeOK, StartTurnIdle, AdvanceGeneration, ArmHeartbeat

LEMMA StartTurnQueuedType ==
  ASSUME TypeOK, NEW m \in Messages, StartTurnQueued(m)
  PROVE  TypeOK'
<1>1. generation + 1 \in Nat
  BY DEF TypeOK
<1>2. RecordQueued(admissions, m, clock) \in AdmissionSet
  BY RecordTypes DEF TypeOK
<1>3. DiscardBelow(schedule, generation + 1) \in ScheduleSet
  BY DiscardBelowType DEF TypeOK
<1>4. QueueAfterPush(m) \in Seq(QueueEntry)
  BY <1>1 DEF QueueAfterPush, TypeOK, QueueEntry
<1> QED
  BY <1>1, <1>2, <1>3, <1>4
  DEF TypeOK, StartTurnQueued, AdvanceGeneration, stateVars

LEMMA StartTurnReplyType ==
  ASSUME TypeOK, NEW m \in Messages, NEW input \in inputs, StartTurnReply(m, input)
  PROVE  TypeOK'
<1>1. input.turn \in TurnOrNone /\ inputs \ {input} \subseteq OwnerSet
  BY DEF TypeOK, OwnerSet
<1>2. RecordTerminal(admissions, m, clock) \in AdmissionSet
  BY RecordTypes DEF TypeOK
<1>3. [turns EXCEPT ![input.turn].phase = "answered"] \in [Turns -> TurnSet]
  BY PhaseType DEF Phases
<1> QED
  BY <1>1, <1>2, <1>3, NoneTypes DEF TypeOK, StartTurnReply, ArmHeartbeat

(* The variables SettleActive determines have their types after it. *)
SettledOK ==
  /\ lastOutcome \in TurnOrNone
  /\ waiters \subseteq [turn : Turns, awakeable : Waiters]
  /\ cancellation \in [turn : TurnOrNone, scope : {"CoordinatorOnly", "TaskTree"}]
  /\ generation \in Nat
  /\ initialized \in BOOLEAN
  /\ inputs \subseteq OwnerSet
  /\ runs \subseteq Runs
  /\ synthesized \subseteq Runs
  /\ rejected \subseteq Nat
  /\ facts \subseteq [turn : TurnOrNone, index : Nat, generation : Nat]
  /\ raised \subseteq Reviews
  /\ sent \subseteq Signals
  /\ clock \in Nat

LEMMA SettleType ==
  ASSUME TypeOK, NEW t \in Turns, NEW kind, SettleActive(t, kind)
  PROVE  SettledOK'
BY NoneTypes DEF TypeOK, SettledOK, SettleActive, CancellationAfter, WaitersOf,
                 TurnOrNone

(* Every outcome leaves these types; the rest is what the dispatch decides. *)
LEMMA OutcomeTypes ==
  ASSUME TypeOK, NEW t \in Turns
  PROVE  /\ AdmissionsAfter(t) \in AdmissionSet
         /\ UnreadAfter(t) \subseteq Signals
         /\ (IF resumeTurn.turn = t THEN NoResume ELSE resumeTurn)
              \in [turn : TurnOrNone, consumed : SUBSET Signals]
<1>1. AdmissionsAfter(t) \in AdmissionSet
  BY MarkTerminalType DEF TypeOK, AdmissionsAfter
<1>2. UnreadAfter(t) \subseteq Signals
  BY DEF UnreadAfter, TypeOK
<1>3. (IF resumeTurn.turn = t THEN NoResume ELSE resumeTurn)
         \in [turn : TurnOrNone, consumed : SUBSET Signals]
  BY NoneTypes DEF TypeOK
<1> QED
  BY <1>1, <1>2, <1>3

LEMMA ReacquireType ==
  ASSUME TypeOK, ReacquireIfParked
  PROVE  lease' \in BOOLEAN /\ beating' \in BOOLEAN /\ parked' \in OwnerSet
BY NoneTypes DEF TypeOK, ReacquireIfParked, ArmHeartbeat

LEMMA OutcomeStaleType ==
  ASSUME TypeOK, NEW t \in Turns, NEW kind \in Kinds, OutcomeStale(t, kind)
  PROVE  TypeOK'
BY OutcomeTypes, ReportedType DEF TypeOK, OutcomeStale, stateVars, WaitersOf

LEMMA OutcomeContinuesType ==
  ASSUME TypeOK, NEW t \in Turns, NEW kind \in Kinds, NEW entry \in schedule.queued,
         OutcomeContinues(t, kind, entry)
  PROVE  TypeOK'
<1>1. entry \in ReviewEntry
  BY DEF TypeOK, ScheduleSet
<1>2. entry.turn \in Turns /\ entry.turn \in TurnOrNone /\ entry.generation \in Nat
  BY <1>1 DEF ReviewEntry, TurnOrNone
<1>3. OwnerOf(entry.turn, entry.generation) \in OwnerSet
  BY <1>2, OwnerType
<1>4. Dequeue(schedule, entry) \in ScheduleSet
  BY DequeueType DEF TypeOK
<1>5. RunTurn("review", NoMessage, entry.generation) \in TurnSet
  BY <1>2, RunTurnType DEF Triggers
<1>6. turns' \in [Turns -> TurnSet]
  BY <1>2, <1>5, ReportedType DEF OutcomeContinues
<1>7. SettledOK'
  BY SettleType DEF OutcomeContinues
<1>8. lease' \in BOOLEAN /\ beating' \in BOOLEAN /\ parked' \in OwnerSet
  BY ReacquireType DEF OutcomeContinues
<1> QED
  BY <1>2, <1>3, <1>4, <1>6, <1>7, <1>8, OutcomeTypes
  DEF TypeOK, OutcomeContinues, SettledOK

LEMMA ReviewsAfterType ==
  ASSUME TypeOK, NEW kind
  PROVE  ReviewsAfter(kind) \in ScheduleSet
BY DiscardAllType DEF TypeOK, ReviewsAfter

LEMMA OutcomeDispatchesNextType ==
  ASSUME TypeOK, NEW t \in Turns, NEW kind \in Kinds, OutcomeDispatchesNext(t, kind)
  PROVE  TypeOK'
<1>1. NewTurn \in Turns /\ NewTurn \in TurnOrNone /\ NewTurn \in 0..MaxTurns
  BY NewTurnType DEF OutcomeDispatchesNext
<1>2. OldestQueued \in QueueEntry /\ QueueAfterPop \in Seq(QueueEntry)
  BY DEF OutcomeDispatchesNext, TypeOK, OldestQueued, QueueAfterPop
<1>3. OldestQueued.message \in Messages /\ OldestQueued.generation \in Nat
  BY <1>2 DEF QueueEntry
<1>4. OwnerOf(NewTurn, OldestQueued.generation) \in OwnerSet
  BY <1>1, <1>3, OwnerType
<1>5. MarkRunning(AdmissionsAfter(t), OldestQueued.message, NewTurn) \in AdmissionSet
  BY <1>1, <1>3, OutcomeTypes, RunningTypes DEF TypeOK
<1>6. RunTurn("user", OldestQueued.message, OldestQueued.generation) \in TurnSet
  BY <1>3, RunTurnType DEF Triggers
<1>7. turns' \in [Turns -> TurnSet]
  BY <1>1, <1>6, ReportedType DEF OutcomeDispatchesNext
<1>8. SettledOK'
  BY SettleType DEF OutcomeDispatchesNext
<1>9. lease' \in BOOLEAN /\ beating' \in BOOLEAN /\ parked' \in OwnerSet
  BY ReacquireType DEF OutcomeDispatchesNext
<1> QED
  BY <1>1, <1>2, <1>4, <1>5, <1>7, <1>8, <1>9, OutcomeTypes, ReviewsAfterType
  DEF TypeOK, OutcomeDispatchesNext, SettledOK

LEMMA OutcomeResumesParentType ==
  ASSUME TypeOK, NEW t \in Turns, NEW elapsed \in BOOLEAN,
         OutcomeResumesParent(t, elapsed)
  PROVE  TypeOK'
<1>1. NewTurn \in Turns /\ NewTurn \in TurnOrNone /\ NewTurn \in 0..MaxTurns
  BY NewTurnType DEF OutcomeResumesParent
<1>2. generation \in Nat
  BY DEF TypeOK
<1>3. OwnerOf(NewTurn, generation) \in OwnerSet
  BY <1>1, <1>2, OwnerType
<1>4. RunTurn("child", NoMessage, generation) \in TurnSet
  BY <1>2, RunTurnType DEF Triggers
<1>5. turns' \in [Turns -> TurnSet]
  BY <1>1, <1>4, ReportedType DEF OutcomeResumesParent, Kinds
<1>6. SettledOK'
  BY SettleType DEF OutcomeResumesParent
<1>7. lease' \in BOOLEAN /\ beating' \in BOOLEAN /\ parked' \in OwnerSet
  BY ReacquireType DEF OutcomeResumesParent
<1>8. resumes' \in Nat
  BY DEF TypeOK, OutcomeResumesParent, ConsumeBudget
<1>9. resumeTurn' \in [turn : TurnOrNone, consumed : SUBSET Signals]
  BY <1>1, OutcomeTypes DEF OutcomeResumesParent
<1> QED
  BY <1>1, <1>3, <1>5, <1>6, <1>7, <1>8, <1>9, OutcomeTypes
  DEF TypeOK, OutcomeResumesParent, SettledOK

LEMMA OutcomeIdlesType ==
  ASSUME TypeOK, NEW t \in Turns, NEW kind \in Kinds, NEW elapsed \in BOOLEAN,
         OutcomeIdles(t, kind, elapsed)
  PROVE  TypeOK'
<1>1. SettledOK'
  BY SettleType DEF OutcomeIdles
<1>2. turns' \in [Turns -> TurnSet]
  BY ReportedType DEF OutcomeIdles
<1>3. lease' \in BOOLEAN /\ beating' \in BOOLEAN
  BY Zenon DEF OutcomeIdles, TypeOK, ArmHeartbeat
<1>4. StatusAfter(kind) \in {"Idle", "Running", "Cancelled", "Failed"}
  BY DEF StatusAfter, Kinds
<1> QED
  BY <1>1, <1>2, <1>3, <1>4, OutcomeTypes, ReviewsAfterType, NoneTypes
  DEF TypeOK, OutcomeIdles, SettledOK

LEMMA CancelActionType ==
  ASSUME TypeOK, NEW scope \in CancelKinds, Cancel(scope)
  PROVE  TypeOK'
<1>1. scope \in {"CoordinatorOnly", "TaskTree"}
  BY InputsAssumption DEF Cancel
<1>2. cancellation' \in [turn : TurnOrNone, scope : {"CoordinatorOnly", "TaskTree"}]
  BY <1>1 DEF Cancel, TypeOK
<1>3. turns' \in [Turns -> TurnSet]
  BY CancelType DEF Cancel, TypeOK
<1>4. QueuedGenerations \subseteq Nat
  <2>1. \A i \in 1..Len(queue) : queue[i] \in QueueEntry
    BY DEF TypeOK
  <2> QED
    BY <2>1 DEF QueuedGenerations, QueueEntry
<1>5. MarkRejected(admissions, queue, clock) \in AdmissionSet
  BY MarkRejectedType DEF TypeOK
<1>6. <<>> \in Seq(QueueEntry)
  OBVIOUS
<1>7. NewFacts \subseteq [turn : TurnOrNone, index : Nat, generation : Nat]
  <2>1. \A i \in 1..Len(queue) : queue[i] \in QueueEntry
    BY DEF TypeOK
  <2> QED
    BY <2>1 DEF NewFacts, QueueEntry, TypeOK
<1> QED
  <2>1. CASE scope = "TaskTree"
    BY <1>2, <1>3, <1>4, <1>5, <1>6, <1>7, <2>1 DEF TypeOK, Cancel
  <2>2. CASE scope # "TaskTree"
    BY <1>2, <1>3, <2>2 DEF TypeOK, Cancel
  <2> QED
    BY <2>1, <2>2

LEMMA RequestCancelType ==
  ASSUME TypeOK, RequestCancel
  PROVE  TypeOK'
BY CancelType DEF TypeOK, RequestCancel, pendingVars, stateVars

LEMMA DestroyType ==
  ASSUME TypeOK, Destroy
  PROVE  TypeOK'
<1>1. EmptySchedule \in ScheduleSet
  BY DEF EmptySchedule, ScheduleSet
<1>2. NoAdmissions \in AdmissionSet
  BY EntryTypes DEF NoAdmissions, AdmissionSet
<1>3. <<>> \in Seq(QueueEntry)
  OBVIOUS
<1> QED
  BY <1>1, <1>2, <1>3, NoneTypes DEF TypeOK, Destroy

LEMMA InputOfType ==
  ASSUME TypeOK, NEW t \in Turns
  PROVE  InputOf(t) \in OwnerSet
BY DEF InputOf, OwnerOf, OwnerSet, TypeOK, TurnSet, TurnOrNone

LEMMA RegisterInputType ==
  ASSUME TypeOK, NEW t \in Turns, RegisterCoordinatorInput(t)
  PROVE  TypeOK'
<1>1. turns' \in [Turns -> TurnSet]
  BY PhaseType DEF RegisterCoordinatorInput, Phases
<1> QED
  BY <1>1, InputOfType DEF TypeOK, RegisterCoordinatorInput

LEMMA ClearInputType ==
  ASSUME TypeOK, NEW t \in Turns, ClearCoordinatorInput(t)
  PROVE  TypeOK'
<1>1. turns' \in [Turns -> TurnSet]
  BY PhaseType DEF ClearCoordinatorInput, Phases
<1> QED
  BY <1>1 DEF TypeOK, ClearCoordinatorInput, InputsAfterClear, pendingVars

LEMMA RegisterReviewType ==
  ASSUME TypeOK, NEW t \in Turns, NEW review \in Reviews,
         RegisterActionReview(t, review)
  PROVE  TypeOK'
<1>1. ReviewGeneration(t) \in Nat
  BY DEF ReviewGeneration, TypeOK, TurnSet
<1>2. schedule' \in ScheduleSet
  BY <1>1, RegisterType DEF RegisterActionReview, TypeOK
<1> QED
  BY <1>2 DEF TypeOK, RegisterActionReview, stateVars

LEMMA DispatchContinuationType ==
  ASSUME TypeOK, NEW s \in ScheduleSet, NEW entry \in s.queued,
         DispatchContinuation(s, entry)
  PROVE  /\ schedule' \in ScheduleSet /\ active' \in TurnOrNone
         /\ owner' \in OwnerSet /\ turns' \in [Turns -> TurnSet]
         /\ status' \in {"Idle", "Running", "Cancelled", "Failed"}
<1>1. entry.turn \in Turns /\ entry.turn \in TurnOrNone /\ entry.generation \in Nat
  BY DEF ScheduleSet, ReviewEntry, TurnOrNone
<1>2. RunTurn("review", NoMessage, entry.generation) \in TurnSet
  BY <1>1, RunTurnType DEF Triggers
<1>3. turns' \in [Turns -> TurnSet]
  BY <1>1, <1>2 DEF DispatchContinuation, TypeOK
<1> QED
  BY <1>1, <1>3, DequeueType, OwnerType DEF DispatchContinuation

LEMMA EligibleIsQueued ==
  ASSUME NEW s, NEW g, NEW e \in Eligible(s, g)
  PROVE  e \in s.queued /\ e.generation = g
BY DEF Eligible

(* A resolved or released review touches the schedule s, and what a dispatch out
   of it assigns. *)
LEMMA ReviewStepType ==
  ASSUME TypeOK, NEW s \in ScheduleSet, KeptByReview,
         minted' \in 0..MaxTurns,
         \/ OnlySchedules(s)
         \/ \E e \in Eligible(s, generation) : DispatchContinuation(s, e)
  PROVE  TypeOK'
<1>1. CASE OnlySchedules(s)
  BY <1>1 DEF TypeOK, OnlySchedules, KeptByReview
<1>2. ASSUME NEW e \in Eligible(s, generation), DispatchContinuation(s, e)
      PROVE  TypeOK'
  BY <1>2, EligibleIsQueued, DispatchContinuationType DEF TypeOK, KeptByReview
<1> QED
  BY <1>1, <1>2

LEMMA ReviewDroppedType ==
  ASSUME TypeOK, NEW review \in Reviews, ReviewDropped(review)
  PROVE  TypeOK'
<1>1. Resolve(schedule, review) \in ScheduleSet
  BY ResolveType DEF TypeOK
<1>2. minted' \in 0..MaxTurns
  BY DEF TypeOK, ReviewDropped
<1> QED
  BY <1>1, <1>2, ReviewStepType DEF ReviewDropped

LEMMA ReviewResolvedType ==
  ASSUME TypeOK, NEW review \in Reviews, ReviewResolved(review)
  PROVE  TypeOK'
<1> DEFINE r == Registration(schedule, review)
           e == [review |-> review, turn |-> NewTurn,
                 generation |-> r.generation, ordinal |-> r.ordinal]
           s == Enqueue(Resolve(schedule, review), e)
<1>1. NewTurn \in Turns /\ minted' \in 0..MaxTurns
  BY NewTurnType DEF ReviewResolved
<1>2. r \in ReviewEntry
  BY RegistrationType DEF TypeOK, ReviewResolved
<1>3. e \in ReviewEntry
  BY <1>1, <1>2 DEF ReviewEntry
<1>4. s \in ScheduleSet
  BY <1>3, ResolveType, EnqueueType DEF TypeOK
<1>5. \/ OnlySchedules(s)
      \/ \E x \in Eligible(s, generation) : DispatchContinuation(s, x)
  BY DEF ReviewResolved
<1>6. KeptByReview
  BY DEF ReviewResolved
<1> HIDE DEF s
<1> QED
  BY <1>1, <1>4, <1>5, <1>6, ReviewStepType

LEMMA ReleaseReviewType ==
  ASSUME TypeOK, NEW review \in Reviews, NEW resumeQueued \in BOOLEAN,
         ReleaseActionReview(review, resumeQueued)
  PROVE  TypeOK'
<1>1. Resolve(schedule, review) \in ScheduleSet
  BY ResolveType DEF TypeOK
<1>2. minted' \in 0..MaxTurns /\ KeptByReview
  BY DEF TypeOK, ReleaseActionReview
<1>3. \/ OnlySchedules(Resolve(schedule, review))
      \/ \E x \in Eligible(Resolve(schedule, review), generation) :
            DispatchContinuation(Resolve(schedule, review), x)
  BY DEF ReleaseActionReview
<1> QED
  BY <1>1, <1>2, <1>3, ReviewStepType

LEMMA RunStartedType ==
  ASSUME TypeOK, NEW t \in Turns, NEW run \in Runs, ExecutionRunStarted(t, run)
  PROVE  TypeOK'
<1>1. turns \in [Turns -> TurnSet]
  BY DEF TypeOK
<1>2. [turns[t] EXCEPT !.run = run] \in TurnSet
  BY <1>1 DEF TurnSet
<1>3. turns' \in [Turns -> TurnSet]
  BY <1>1, <1>2 DEF ExecutionRunStarted
<1> QED
  BY <1>3 DEF TypeOK, ExecutionRunStarted, pendingVars

LEMMA ExecutionTerminalType ==
  ASSUME TypeOK, NEW run \in Runs, ExecutionTerminal(run)
  PROVE  TypeOK'
<1>1. NewTurn \in Turns /\ NewTurn \in TurnOrNone /\ NewTurn \in 0..MaxTurns
  BY NewTurnType DEF ExecutionTerminal
<1>2. OwnerOf(NewTurn, generation) \in OwnerSet
  BY <1>1, OwnerType DEF TypeOK
<1>3. RunTurn("synthesis", NoMessage, generation) \in TurnSet
  BY RunTurnType DEF Triggers, TypeOK
<1> QED
  BY <1>1, <1>2, <1>3
  DEF TypeOK, ExecutionTerminal, ActiveAfterSynthesis, ArmHeartbeat

LEMMA ChildSignalType ==
  ASSUME TypeOK, NEW s \in Signals, NEW elapsed \in BOOLEAN,
         RecordChildSignal(s, elapsed)
  PROVE  TypeOK'
<1>1. unread' \subseteq Signals
  BY DEF RecordChildSignal, PushUnread, TypeOK
<1>2. CASE Wakes(s, elapsed) /\ CanMint /\ minted' = NewTurn
  <2>1. NewTurn \in Turns /\ NewTurn \in TurnOrNone /\ NewTurn \in 0..MaxTurns
    BY <1>2, NewTurnType
  <2>2. OwnerOf(NewTurn, generation) \in OwnerSet
    BY <2>1, OwnerType DEF TypeOK
  <2>3. RunTurn("child", NoMessage, generation) \in TurnSet
    BY RunTurnType DEF Triggers, TypeOK
  <2>4. resumeTurn' \in [turn : TurnOrNone, consumed : SUBSET Signals]
    BY <1>1, <1>2, <2>1 DEF RecordChildSignal
  <2>5. resumes' \in Nat
    BY <1>2 DEF TypeOK, RecordChildSignal, ConsumeBudget
  <2>6. turns' \in [Turns -> TurnSet]
    BY <1>2, <2>1, <2>3 DEF TypeOK, RecordChildSignal
  <2> QED
    BY <1>1, <1>2, <2>1, <2>2, <2>4, <2>5, <2>6
    DEF TypeOK, RecordChildSignal, ArmHeartbeat
<1>3. CASE ~Wakes(s, elapsed)
  BY <1>1, <1>3 DEF TypeOK, RecordChildSignal
<1> QED
  BY <1>2, <1>3 DEF RecordChildSignal

LEMMA WaiterTypes ==
  ASSUME TypeOK, NEW w \in Waiters,
         (\E t \in Turns : AttachTurnWaiter(w, t)) \/ RemoveTurnWaiter(w)
  PROVE  TypeOK'
<1>1. waiters' \subseteq [turn : Turns, awakeable : Waiters]
  BY DEF TypeOK, AttachTurnWaiter, RemoveTurnWaiter
<1>2. UNCHANGED <<active, queue, lastOutcome, parked, cancellation, generation, schedule>>
      /\ UNCHANGED stateVars /\ UNCHANGED otherVars
  BY DEF AttachTurnWaiter, RemoveTurnWaiter
<1> QED
  BY <1>1, <1>2 DEF TypeOK, stateVars, otherVars

LEMMA TimeTypes ==
  ASSUME TypeOK, TurnAdmissionHeartbeat \/ LeaseExpires \/ Tick
  PROVE  TypeOK'
<1>1. lease' \in BOOLEAN /\ beating' \in BOOLEAN
  BY Zenon DEF TypeOK, TurnAdmissionHeartbeat, LeaseExpires, Tick
<1>2. clock' \in Nat
  BY DEF TypeOK, TurnAdmissionHeartbeat, LeaseExpires, Tick
<1>3. UNCHANGED <<pendingVars, stateVars, admissions, rejected, facts, turns, minted,
                  raised, sent>>
  BY DEF TurnAdmissionHeartbeat, LeaseExpires, Tick
<1> QED
  BY <1>1, <1>2, <1>3 DEF TypeOK, pendingVars, stateVars

(* Every step of Next preserves the types. *)
LEMMA TypeOKStep == TypeOK /\ [Next]_vars => TypeOK'
<1> SUFFICES ASSUME TypeOK, [Next]_vars PROVE TypeOK'
  OBVIOUS
<1>1. ASSUME NEW t \in Turns, RecordTurnOutcome(t)
      PROVE  TypeOK'
  BY <1>1, OutcomeStaleType, OutcomeContinuesType, OutcomeDispatchesNextType,
     OutcomeIdlesType DEF RecordTurnOutcome, Kinds
<1>2. ASSUME UNCHANGED vars
      PROVE  TypeOK'
  BY <1>2 DEF TypeOK, vars, pendingVars, stateVars, otherVars
<1> QED
  BY <1>1, <1>2, StartTurnIdleType, StartTurnQueuedType, StartTurnReplyType,
     OutcomeResumesParentType, CancelActionType, RequestCancelType, DestroyType,
     RegisterInputType, ClearInputType, RegisterReviewType, ReviewDroppedType,
     ReviewResolvedType, ReleaseReviewType, RunStartedType, ExecutionTerminalType,
     ChildSignalType, WaiterTypes, TimeTypes
  DEF Next

LEMMA TypeOKInit == Init => TypeOK
<1>1. EmptySchedule \in ScheduleSet
  BY DEF EmptySchedule, ScheduleSet
<1>2. NoAdmissions \in AdmissionSet
  BY EntryTypes DEF NoAdmissions, AdmissionSet
<1>3. <<>> \in Seq(QueueEntry)
  OBVIOUS
<1>4. UnusedTurn \in TurnSet
  BY DEF UnusedTurn, TurnSet
<1>5. 0 \in Nat /\ 0 \in 0..MaxTurns
  BY BoundsAssumption
<1>6. Init => turns \in [Turns -> TurnSet]
  BY <1>4 DEF Init
<1>7. Init => lease \in BOOLEAN /\ beating \in BOOLEAN /\ initialized \in BOOLEAN
  BY Zenon DEF Init
<1> QED
  BY <1>1, <1>2, <1>3, <1>5, <1>6, <1>7, NoneTypes DEF Init, TypeOK

(* The type invariant of the session holds in every reachable state. *)
THEOREM SessionTypeCorrect == Spec => []TypeOK
BY TypeOKInit, TypeOKStep, PTL DEF Spec

--------------------------------------------------------------------------------
(* The cancellation fence keeps the queue empty.                              *)

(* Steps that touch neither the fence nor the queue. *)
LEMMA FenceFrame ==
  ASSUME FenceKeepsQueueEmpty, UNCHANGED <<cancellation, queue>>
  PROVE  FenceKeepsQueueEmpty'
BY DEF FenceKeepsQueueEmpty, Fenced

(* An outcome releases the fence or leaves it alone, and pops the queue or leaves
   it alone: a popped queue was not empty, so there was no fence. *)
LEMMA FenceOutcome ==
  ASSUME FenceKeepsQueueEmpty, NEW t,
         cancellation' = CancellationAfter(t),
         queue' = queue \/ queue # <<>>
  PROVE  FenceKeepsQueueEmpty'
BY DEF FenceKeepsQueueEmpty, Fenced, CancellationAfter, NoCancellation

LEMMA FenceStep ==
  ASSUME TypeOK, FenceKeepsQueueEmpty, [Next]_vars
  PROVE  FenceKeepsQueueEmpty'
<1>1. ASSUME NEW m \in Messages, StartTurnQueued(m)
      PROVE  FenceKeepsQueueEmpty'
  BY <1>1 DEF StartTurnQueued, Admissible, FenceKeepsQueueEmpty, Fenced
<1>2. ASSUME NEW t \in Turns, RecordTurnOutcome(t)
      PROVE  FenceKeepsQueueEmpty'
  BY <1>2, FenceFrame, FenceOutcome
  DEF RecordTurnOutcome, OutcomeStale, OutcomeContinues, OutcomeDispatchesNext,
      OutcomeIdles, SettleActive
<1>3. ASSUME NEW t \in Turns, NEW elapsed \in BOOLEAN, OutcomeResumesParent(t, elapsed)
      PROVE  FenceKeepsQueueEmpty'
  BY <1>3, FenceOutcome DEF OutcomeResumesParent, SettleActive
<1>4. ASSUME NEW scope \in CancelKinds, Cancel(scope)
      PROVE  FenceKeepsQueueEmpty'
  BY <1>4 DEF Cancel, FenceKeepsQueueEmpty, Fenced
<1>5. ASSUME Destroy
      PROVE  FenceKeepsQueueEmpty'
  BY <1>5 DEF Destroy, FenceKeepsQueueEmpty
<1>6. ASSUME NEW review \in Reviews, NEW resumeQueued \in BOOLEAN,
             \/ ReviewDropped(review) \/ ReviewResolved(review)
             \/ ReleaseActionReview(review, resumeQueued)
      PROVE  FenceKeepsQueueEmpty'
  BY <1>6, FenceFrame DEF ReviewDropped, ReviewResolved, ReleaseActionReview,
                          KeptByReview
<1>7. ASSUME \/ \E m \in Messages : StartTurnIdle(m)
             \/ \E m \in Messages : \E input \in inputs : StartTurnReply(m, input)
             \/ RequestCancel
             \/ \E t \in Turns : RegisterCoordinatorInput(t)
             \/ \E t \in Turns : ClearCoordinatorInput(t)
             \/ \E t \in Turns : \E review \in Reviews : RegisterActionReview(t, review)
      PROVE  FenceKeepsQueueEmpty'
  BY <1>7, FenceFrame
  DEF StartTurnIdle, StartTurnReply, RequestCancel, RegisterCoordinatorInput,
      ClearCoordinatorInput, RegisterActionReview, pendingVars
<1>8. ASSUME \/ \E t \in Turns : \E run \in Runs : ExecutionRunStarted(t, run)
             \/ \E run \in Runs : ExecutionTerminal(run)
             \/ \E s \in Signals : \E elapsed \in BOOLEAN : RecordChildSignal(s, elapsed)
             \/ \E w \in Waiters : \E t \in Turns : AttachTurnWaiter(w, t)
             \/ \E w \in Waiters : RemoveTurnWaiter(w)
             \/ TurnAdmissionHeartbeat \/ LeaseExpires \/ Tick \/ UNCHANGED vars
      PROVE  FenceKeepsQueueEmpty'
  BY <1>8, FenceFrame
  DEF ExecutionRunStarted, ExecutionTerminal, RecordChildSignal, AttachTurnWaiter,
      RemoveTurnWaiter, TurnAdmissionHeartbeat, LeaseExpires, Tick, vars, pendingVars
<1> QED
  BY <1>1, <1>2, <1>3, <1>4, <1>5, <1>6, <1>7, <1>8 DEF Next

(* While a task tree is being cancelled no message is queued behind it: the
   cancellation rejects the queue and start_turn refuses until the fence falls. *)
THEOREM FenceHoldsQueueEmpty == Spec => []FenceKeepsQueueEmpty
<1>1. Init => FenceKeepsQueueEmpty
  BY DEF Init, FenceKeepsQueueEmpty
<1>2. TypeOK /\ FenceKeepsQueueEmpty /\ [Next]_vars => FenceKeepsQueueEmpty'
  BY FenceStep
<1> QED
  BY <1>1, <1>2, TypeOKInit, TypeOKStep, PTL DEF Spec
================================================================================
