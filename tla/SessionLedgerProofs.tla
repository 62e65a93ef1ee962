-------------------------- MODULE SessionLedgerProofs --------------------------
(***************************************************************************)
(* What becomes of accepted messages and of action reviews, proved for     *)
(* every Session: the ledger of generations and the generation fence.      *)
(*                                                                         *)
(* Every step of Session is first classified by what it does to the turns, *)
(* the queue, the generation and the review schedule; the invariants are   *)
(* then proved once per class instead of once per action.                  *)
(***************************************************************************)
EXTENDS SessionProofs

--------------------------------------------------------------------------------
(* The classes.                                                               *)

(* No turn is dispatched. *)
SameTurns ==
  \A x \in Turns : /\ turns'[x].trigger = turns[x].trigger
                   /\ turns'[x].generation = turns[x].generation

(* The turn n, and no other, is dispatched. *)
Dispatches(n, trigger, g) ==
  /\ turns'[n].trigger = trigger /\ turns'[n].generation = g
  /\ \A x \in Turns : x # n => /\ turns'[x].trigger = turns[x].trigger
                               /\ turns'[x].generation = turns[x].generation

(* Nothing new is scheduled. *)
ScheduleShrinks ==
  /\ schedule'.registered \subseteq schedule.registered
  /\ schedule'.queued \subseteq schedule.queued

(* A message is accepted and runs. *)
StartsNow ==
  /\ CanMint /\ minted' = NewTurn
  /\ Dispatches(NewTurn, "user", generation + 1)
  /\ generation' = generation + 1
  /\ schedule' = DiscardBelow(schedule, generation + 1)
  /\ UNCHANGED <<queue, rejected, initialized>>

(* A message is accepted and waits. *)
Queues ==
  /\ \E m \in Messages : queue' = QueueAfterPush(m)
  /\ SameTurns
  /\ generation' = generation + 1
  /\ schedule' = DiscardBelow(schedule, generation + 1)
  /\ UNCHANGED <<rejected, initialized, minted>>

(* The oldest waiting message runs. *)
DispatchesOldest ==
  /\ queue # <<>> /\ queue' = QueueAfterPop
  /\ CanMint /\ minted' = NewTurn
  /\ Dispatches(NewTurn, "user", OldestQueued.generation)
  /\ ScheduleShrinks
  /\ UNCHANGED <<generation, rejected, initialized>>

(* Every waiting message is rejected. *)
Rejects ==
  /\ queue' = <<>> /\ rejected' = rejected \cup QueuedGenerations
  /\ SameTurns
  /\ UNCHANGED <<generation, initialized, schedule, minted>>

(* The session is destroyed. *)
Ends ==
  /\ ~initialized' /\ queue' = <<>> /\ schedule' = EmptySchedule
  /\ SameTurns
  /\ UNCHANGED minted

KeepsLedger == UNCHANGED <<queue, generation, rejected, initialized>>

(* A turn without a message is dispatched, under a new id or under the id of a
   queued continuation. *)
DispatchesOther ==
  \E n \in Turns, trigger \in {"review", "child", "synthesis"} :
    /\ Dispatches(n, trigger, generation)
    /\ \/ n = NewTurn /\ minted' = NewTurn
       \/ (\E e \in schedule.queued : e.turn = n) /\ minted' \in {minted, NewTurn}

(* The schedule gains a registration of a running turn, or a continuation under
   a new id, of the generation of a registered review. *)
ScheduleStep ==
  /\ \A e \in schedule'.registered :
       \/ e \in schedule.registered
       \/ \E t \in Turns : /\ e.generation = turns[t].generation
                           /\ e.generation >= generation
  /\ \A e \in schedule'.queued :
       \/ e \in schedule.queued
       \/ e.turn = NewTurn /\ minted' = NewTurn /\ e.generation = generation

(* Everything else. *)
Continues ==
  /\ KeepsLedger
  /\ (SameTurns /\ minted' \in {minted, NewTurn}) \/ DispatchesOther
  /\ ScheduleStep

LedgerStep ==
  \/ StartsNow \/ Queues \/ DispatchesOldest \/ Rejects \/ Ends \/ Continues

--------------------------------------------------------------------------------
(* Updates of turns, by class.                                                *)

LEMMA RunTurnFields ==
  ASSUME NEW trigger, NEW m, NEW g
  PROVE  /\ RunTurn(trigger, m, g).trigger = trigger
         /\ RunTurn(trigger, m, g).generation = g
BY DEF RunTurn, UnusedTurn

LEMMA ReportedFields ==
  ASSUME TypeOK, NEW t \in Turns, NEW kind
  PROVE  /\ DOMAIN Reported(t, kind) = Turns
         /\ \A x \in Turns : /\ Reported(t, kind)[x].trigger = turns[x].trigger
                             /\ Reported(t, kind)[x].generation = turns[x].generation
<1>1. turns \in [Turns -> TurnSet]
  BY DEF TypeOK
<1>2. turns[t] \in TurnSet
  BY <1>1
<1>3. Reported(t, kind) = [turns EXCEPT ![t] = [turns[t] EXCEPT !.phase = "reported",
                                                               !.kind = kind]]
  BY <1>1 DEF Reported
<1> QED
  BY <1>1, <1>2, <1>3 DEF TurnSet

LEMMA ReportedDispatch ==
  ASSUME TypeOK, NEW t \in Turns, NEW kind, NEW n \in Turns,
         NEW trigger, NEW m, NEW g,
         turns' = [Reported(t, kind) EXCEPT ![n] = RunTurn(trigger, m, g)]
  PROVE  Dispatches(n, trigger, g)
BY ReportedFields, RunTurnFields DEF Dispatches

LEMMA PlainDispatch ==
  ASSUME TypeOK, NEW n \in Turns, NEW trigger, NEW m, NEW g,
         turns' = [turns EXCEPT ![n] = RunTurn(trigger, m, g)]
  PROVE  Dispatches(n, trigger, g)
BY RunTurnFields DEF Dispatches, TypeOK

LEMMA UpdatedTurns ==
  ASSUME TypeOK, NEW t, NEW p,
         \/ turns' = turns
         \/ turns' = [turns EXCEPT ![t].phase = p]
         \/ turns' = [turns EXCEPT ![t].cancel = p]
         \/ turns' = [turns EXCEPT ![t].run = p]
  PROVE  SameTurns
<1>1. turns \in [Turns -> TurnSet]
  BY DEF TypeOK
<1>2. CASE t \in Turns
  <2>1. turns[t] \in TurnSet
    BY <1>1, <1>2
  <2> QED
    BY <1>1, <1>2, <2>1 DEF SameTurns, TurnSet
<1>3. CASE t \notin Turns
  BY <1>1, <1>3 DEF SameTurns
<1> QED
  BY <1>2, <1>3

--------------------------------------------------------------------------------
(* Every step belongs to a class.                                             *)

LEMMA SameSchedule ==
  ASSUME schedule' = schedule
  PROVE  ScheduleStep /\ ScheduleShrinks
BY DEF ScheduleStep, ScheduleShrinks

LEMMA ShrinkingSchedule ==
  ASSUME ScheduleShrinks
  PROVE  ScheduleStep
BY DEF ScheduleStep, ScheduleShrinks

LEMMA StartTurnClass ==
  ASSUME TypeOK, NEW m \in Messages,
         \/ StartTurnIdle(m) \/ StartTurnQueued(m)
         \/ \E input \in inputs : StartTurnReply(m, input)
  PROVE  LedgerStep
<1>1. CASE StartTurnIdle(m)
  <2>1. NewTurn \in Turns
    BY <1>1, NewTurnType DEF StartTurnIdle
  <2>2. Dispatches(NewTurn, "user", generation + 1)
    BY <1>1, <2>1, PlainDispatch DEF StartTurnIdle
  <2>3. StartsNow
    BY <1>1, <2>2 DEF StartTurnIdle, AdvanceGeneration, StartsNow
  <2> QED
    BY <2>3 DEF LedgerStep
<1>2. CASE StartTurnQueued(m)
  <2>1. SameTurns
    BY <1>2, UpdatedTurns DEF StartTurnQueued
  <2>2. Queues
    BY <1>2, <2>1 DEF StartTurnQueued, AdvanceGeneration, Queues, stateVars
  <2> QED
    BY <2>2 DEF LedgerStep
<1>3. ASSUME NEW input \in inputs, StartTurnReply(m, input)
      PROVE  LedgerStep
  <2>1. SameTurns
    BY <1>3, UpdatedTurns DEF StartTurnReply
  <2>2. ScheduleStep
    BY <1>3, SameSchedule DEF StartTurnReply
  <2>3. Continues
    BY <1>3, <2>1, <2>2 DEF StartTurnReply, Continues, KeepsLedger
  <2> QED
    BY <2>3 DEF LedgerStep
<1> QED
  BY <1>1, <1>2, <1>3

LEMMA ReviewsAfterShrinks ==
  ASSUME TypeOK, NEW kind, schedule' = ReviewsAfter(kind)
  PROVE  ScheduleShrinks
BY DEF TypeOK, ScheduleSet, ReviewsAfter, DiscardAll, ScheduleShrinks

LEMMA DequeueShrinks ==
  ASSUME NEW s \in ScheduleSet, NEW e
  PROVE  /\ Dequeue(s, e).registered = s.registered
         /\ Dequeue(s, e).queued \subseteq s.queued
BY DEF ScheduleSet, Dequeue

LEMMA OutcomeClass ==
  ASSUME TypeOK, NEW t \in Turns,
         RecordTurnOutcome(t) \/ \E elapsed \in BOOLEAN : OutcomeResumesParent(t, elapsed)
  PROVE  LedgerStep
<1>1. ASSUME NEW kind, OutcomeStale(t, kind)
      PROVE  LedgerStep
  <2>1. SameTurns
    BY <1>1, ReportedFields DEF OutcomeStale, SameTurns
  <2>2. ScheduleStep
    BY <1>1, SameSchedule DEF OutcomeStale
  <2>3. Continues
    BY <1>1, <2>1, <2>2 DEF OutcomeStale, Continues, KeepsLedger, stateVars
  <2> QED
    BY <2>3 DEF LedgerStep
<1>2. ASSUME NEW kind, NEW entry \in schedule.queued, OutcomeContinues(t, kind, entry)
      PROVE  LedgerStep
  <2>1. entry.turn \in Turns /\ entry.generation = generation
    BY <1>2, EligibleIsQueued DEF TypeOK, ScheduleSet, ReviewEntry, OutcomeContinues
  <2>2. Dispatches(entry.turn, "review", generation)
    BY <1>2, <2>1, ReportedDispatch DEF OutcomeContinues
  <2>3. ScheduleShrinks
    BY <1>2, DequeueShrinks DEF OutcomeContinues, TypeOK, ScheduleShrinks
  <2>4. minted' = minted
    BY <1>2 DEF OutcomeContinues
  <2>5. DispatchesOther
    BY <2>1, <2>2, <2>4 DEF DispatchesOther
  <2>6. KeepsLedger
    BY <1>2 DEF OutcomeContinues, SettleActive, KeepsLedger
  <2>7. Continues
    BY <2>3, <2>5, <2>6, ShrinkingSchedule DEF Continues
  <2> QED
    BY <2>7 DEF LedgerStep
<1>3. ASSUME NEW kind, OutcomeDispatchesNext(t, kind)
      PROVE  LedgerStep
  <2>1. NewTurn \in Turns
    BY <1>3, NewTurnType DEF OutcomeDispatchesNext
  <2>2. Dispatches(NewTurn, "user", OldestQueued.generation)
    BY <1>3, <2>1, ReportedDispatch DEF OutcomeDispatchesNext
  <2>3. ScheduleShrinks
    BY <1>3, ReviewsAfterShrinks DEF OutcomeDispatchesNext
  <2>4. DispatchesOldest
    BY <1>3, <2>2, <2>3 DEF OutcomeDispatchesNext, SettleActive, DispatchesOldest
  <2> QED
    BY <2>4 DEF LedgerStep
<1>4. ASSUME NEW elapsed, OutcomeResumesParent(t, elapsed)
      PROVE  LedgerStep
  <2>1. NewTurn \in Turns
    BY <1>4, NewTurnType DEF OutcomeResumesParent
  <2>2. Dispatches(NewTurn, "child", generation)
    BY <1>4, <2>1, ReportedDispatch DEF OutcomeResumesParent
  <2>3. DispatchesOther
    BY <1>4, <2>1, <2>2 DEF OutcomeResumesParent, DispatchesOther
  <2>4. ScheduleStep
    BY <1>4, SameSchedule DEF OutcomeResumesParent
  <2>5. Continues
    BY <1>4, <2>3, <2>4 DEF OutcomeResumesParent, SettleActive, Continues, KeepsLedger
  <2> QED
    BY <2>5 DEF LedgerStep
<1>5. ASSUME NEW kind, NEW elapsed, OutcomeIdles(t, kind, elapsed)
      PROVE  LedgerStep
  <2>1. SameTurns
    BY <1>5, ReportedFields DEF OutcomeIdles, SameTurns
  <2>2. ScheduleStep
    BY <1>5, ReviewsAfterShrinks, ShrinkingSchedule DEF OutcomeIdles
  <2>3. Continues
    BY <1>5, <2>1, <2>2 DEF OutcomeIdles, SettleActive, Continues, KeepsLedger
  <2> QED
    BY <2>3 DEF LedgerStep
<1> QED
  BY <1>1, <1>2, <1>3, <1>4, <1>5 DEF RecordTurnOutcome

LEMMA CancelClass ==
  ASSUME TypeOK, RequestCancel \/ Destroy \/ \E scope \in CancelKinds : Cancel(scope)
  PROVE  LedgerStep
<1>1. CASE RequestCancel
  <2>1. SameTurns
    BY <1>1, UpdatedTurns DEF RequestCancel
  <2>2. ScheduleStep
    BY <1>1, SameSchedule DEF RequestCancel, pendingVars
  <2>3. Continues
    BY <1>1, <2>1, <2>2 DEF RequestCancel, Continues, KeepsLedger, pendingVars, stateVars
  <2> QED
    BY <2>3 DEF LedgerStep
<1>2. CASE Destroy
  <2>1. SameTurns
    BY <1>2, UpdatedTurns DEF Destroy
  <2>2. Ends
    BY <1>2, <2>1 DEF Destroy, Ends
  <2> QED
    BY <2>2 DEF LedgerStep
<1>3. ASSUME NEW scope, Cancel(scope)
      PROVE  LedgerStep
  <2>1. SameTurns
    BY <1>3, UpdatedTurns DEF Cancel
  <2>2. CASE scope = "TaskTree"
    <3>1. Rejects
      BY <1>3, <2>1, <2>2 DEF Cancel, Rejects
    <3> QED
      BY <3>1 DEF LedgerStep
  <2>3. CASE scope # "TaskTree"
    <3>1. ScheduleStep
      BY <1>3, SameSchedule DEF Cancel
    <3>2. Continues
      BY <1>3, <2>1, <2>3, <3>1 DEF Cancel, Continues, KeepsLedger
    <3> QED
      BY <3>2 DEF LedgerStep
  <2> QED
    BY <2>2, <2>3
<1> QED
  BY <1>1, <1>2, <1>3

LEMMA ResolveShrinks ==
  ASSUME NEW s \in ScheduleSet, NEW review
  PROVE  /\ Resolve(s, review).registered \subseteq s.registered
         /\ Resolve(s, review).queued = s.queued
BY DEF ScheduleSet, Resolve

LEMMA InputClass ==
  ASSUME TypeOK, NEW t \in Turns,
         RegisterCoordinatorInput(t) \/ ClearCoordinatorInput(t)
  PROVE  LedgerStep
<1>1. SameTurns
  BY UpdatedTurns DEF RegisterCoordinatorInput, ClearCoordinatorInput
<1>2. ScheduleStep
  BY SameSchedule DEF RegisterCoordinatorInput, ClearCoordinatorInput, pendingVars
<1>3. Continues
  BY <1>1, <1>2 DEF RegisterCoordinatorInput, ClearCoordinatorInput, Continues,
                    KeepsLedger, pendingVars
<1> QED
  BY <1>3 DEF LedgerStep

LEMMA RegisterReviewClass ==
  ASSUME TypeOK, NEW t \in Turns, NEW review \in Reviews,
         RegisterActionReview(t, review)
  PROVE  LedgerStep
<1>1. SameTurns
  BY UpdatedTurns DEF RegisterActionReview
<1>2. ReviewGeneration(t) = turns[t].generation /\ turns[t].generation \in Nat
  BY DEF ReviewGeneration, TypeOK, TurnSet
<1>3. CASE ReviewGeneration(t) < generation
  BY <1>1, <1>3, SameSchedule
  DEF RegisterActionReview, LedgerStep, Continues, KeepsLedger, stateVars
<1>4. CASE ~(ReviewGeneration(t) < generation)
  <2>1. turns[t].generation >= generation
    BY <1>2, <1>4 DEF TypeOK
  <2> DEFINE e == [review |-> review, turn |-> t, generation |-> turns[t].generation,
                   ordinal |-> schedule.nextOrdinal]
  <2>2. schedule' = Register(schedule, review, t, turns[t].generation)
    BY <1>2, <1>4 DEF RegisterActionReview
  <2>3. /\ schedule'.queued = schedule.queued
        /\ schedule'.registered \subseteq schedule.registered \cup {e}
    BY <2>2 DEF Register
  <2>4. e.generation = turns[t].generation
    OBVIOUS
  <2> HIDE DEF e
  <2>5. ScheduleStep
    BY <2>1, <2>3, <2>4 DEF ScheduleStep
  <2> QED
    BY <1>1, <2>5 DEF RegisterActionReview, LedgerStep, Continues, KeepsLedger, stateVars
<1> QED
  BY <1>3, <1>4

(* A review that ends leaves schedule s, out of which a continuation may be
   dispatched. *)
LEMMA ReviewClass ==
  ASSUME TypeOK, NEW s \in ScheduleSet, KeptByReview,
         s.registered \subseteq schedule.registered,
         \A e \in s.queued :
           \/ e \in schedule.queued
           \/ e.turn = NewTurn /\ minted' = NewTurn /\ e.generation = generation,
         minted' \in {minted, NewTurn},
         \/ OnlySchedules(s)
         \/ \E e \in Eligible(s, generation) : DispatchContinuation(s, e)
  PROVE  LedgerStep
<1>1. KeepsLedger
  BY DEF KeptByReview, KeepsLedger
<1>2. CASE OnlySchedules(s)
  <2>1. SameTurns
    BY <1>2, UpdatedTurns DEF OnlySchedules
  <2>2. ScheduleStep
    BY <1>2 DEF OnlySchedules, ScheduleStep
  <2> QED
    BY <1>1, <2>1, <2>2 DEF Continues, LedgerStep
<1>3. ASSUME NEW e \in Eligible(s, generation), DispatchContinuation(s, e)
      PROVE  LedgerStep
  <2>1. e \in s.queued /\ e.generation = generation
    BY EligibleIsQueued
  <2>2. e.turn \in Turns
    BY <2>1 DEF ScheduleSet, ReviewEntry
  <2>3. Dispatches(e.turn, "review", generation)
    BY <1>3, <2>1, <2>2, PlainDispatch DEF DispatchContinuation
  <2>4. DispatchesOther
    BY <2>1, <2>2, <2>3 DEF DispatchesOther
  <2>5. ScheduleStep
    BY <1>3, DequeueShrinks DEF DispatchContinuation, ScheduleStep
  <2> QED
    BY <1>1, <2>4, <2>5 DEF Continues, LedgerStep
<1> QED
  BY <1>2, <1>3

LEMMA ReviewEndClass ==
  ASSUME TypeOK, NEW review \in Reviews, NEW resumeQueued \in BOOLEAN,
         ReviewDropped(review) \/ ReleaseActionReview(review, resumeQueued)
  PROVE  LedgerStep
<1>1. Resolve(schedule, review) \in ScheduleSet
  BY ResolveType DEF TypeOK
<1>2. /\ Resolve(schedule, review).registered \subseteq schedule.registered
      /\ Resolve(schedule, review).queued = schedule.queued
  BY ResolveShrinks DEF TypeOK
<1>3. minted' = minted /\ KeptByReview
  BY DEF ReviewDropped, ReleaseActionReview
<1>4. \/ OnlySchedules(Resolve(schedule, review))
      \/ \E x \in Eligible(Resolve(schedule, review), generation) :
            DispatchContinuation(Resolve(schedule, review), x)
  BY DEF ReviewDropped, ReleaseActionReview
<1> QED
  BY <1>1, <1>2, <1>3, <1>4, ReviewClass

LEMMA ReviewResolvedClass ==
  ASSUME TypeOK, NEW review \in Reviews, ReviewResolved(review)
  PROVE  LedgerStep
<1> DEFINE r == Registration(schedule, review)
           e == [review |-> review, turn |-> NewTurn,
                 generation |-> r.generation, ordinal |-> r.ordinal]
           s == Enqueue(Resolve(schedule, review), e)
<1>1. NewTurn \in Turns /\ minted' = NewTurn /\ KeptByReview
  BY NewTurnType DEF ReviewResolved
<1>2. r \in ReviewEntry /\ r.generation = generation
  BY RegistrationType DEF TypeOK, ReviewResolved
<1>3. e \in ReviewEntry /\ e.turn = NewTurn /\ e.generation = generation
  BY <1>1, <1>2 DEF ReviewEntry
<1>4. \/ OnlySchedules(s)
      \/ \E x \in Eligible(s, generation) : DispatchContinuation(s, x)
  BY DEF ReviewResolved
<1>5. Resolve(schedule, review) \in ScheduleSet
  BY ResolveType DEF TypeOK
<1>6. /\ Resolve(schedule, review).registered \subseteq schedule.registered
      /\ Resolve(schedule, review).queued = schedule.queued
  BY ResolveShrinks DEF TypeOK
<1> HIDE DEF e, r
<1>7. s \in ScheduleSet
  BY <1>3, <1>5, EnqueueType
<1>8. /\ s.registered \subseteq schedule.registered
      /\ s.queued \subseteq schedule.queued \cup {e}
  BY <1>5, <1>6 DEF Enqueue, ScheduleSet
<1> HIDE DEF s
<1>9. \A x \in s.queued :
        \/ x \in schedule.queued
        \/ x.turn = NewTurn /\ minted' = NewTurn /\ x.generation = generation
  BY <1>1, <1>3, <1>8
<1> QED
  BY <1>1, <1>4, <1>7, <1>8, <1>9, ReviewClass

LEMMA ExecutionClass ==
  ASSUME TypeOK, NEW run \in Runs,
         ExecutionTerminal(run) \/ \E t \in Turns : ExecutionRunStarted(t, run)
  PROVE  LedgerStep
<1>1. CASE ExecutionTerminal(run)
  <2>1. NewTurn \in Turns
    BY <1>1, NewTurnType DEF ExecutionTerminal
  <2>2. Dispatches(NewTurn, "synthesis", generation)
    BY <1>1, <2>1, PlainDispatch DEF ExecutionTerminal
  <2>3. DispatchesOther
    BY <1>1, <2>1, <2>2 DEF ExecutionTerminal, DispatchesOther
  <2> QED
    BY <1>1, <2>3, SameSchedule DEF ExecutionTerminal, Continues, LedgerStep, KeepsLedger
<1>2. ASSUME NEW t \in Turns, ExecutionRunStarted(t, run)
      PROVE  LedgerStep
  <2>1. SameTurns
    BY <1>2, UpdatedTurns DEF ExecutionRunStarted
  <2> QED
    BY <1>2, <2>1, SameSchedule
    DEF ExecutionRunStarted, Continues, LedgerStep, KeepsLedger, pendingVars
<1> QED
  BY <1>1, <1>2

LEMMA SignalClass ==
  ASSUME TypeOK, NEW s \in Signals, NEW elapsed \in BOOLEAN,
         RecordChildSignal(s, elapsed)
  PROVE  LedgerStep
<1>1. ScheduleStep /\ KeepsLedger
  BY SameSchedule DEF RecordChildSignal, KeepsLedger
<1>2. CASE Wakes(s, elapsed)
  <2>1. NewTurn \in Turns /\ minted' = NewTurn
    BY <1>2, NewTurnType DEF RecordChildSignal
  <2>2. Dispatches(NewTurn, "child", generation)
    BY <1>2, <2>1, PlainDispatch DEF RecordChildSignal
  <2> QED
    BY <1>1, <2>1, <2>2 DEF DispatchesOther, Continues, LedgerStep
<1>3. CASE ~Wakes(s, elapsed)
  <2>1. SameTurns /\ minted' = minted
    BY <1>3, UpdatedTurns DEF RecordChildSignal
  <2> QED
    BY <1>1, <2>1 DEF Continues, LedgerStep
<1> QED
  BY <1>2, <1>3

LEMMA OtherClass ==
  ASSUME TypeOK,
         \/ \E w \in Waiters : \E t \in Turns : AttachTurnWaiter(w, t)
         \/ \E w \in Waiters : RemoveTurnWaiter(w)
         \/ TurnAdmissionHeartbeat \/ LeaseExpires \/ Tick \/ UNCHANGED vars
  PROVE  LedgerStep
<1>1. UNCHANGED <<turns, schedule, queue, generation, rejected, initialized, minted>>
  BY DEF AttachTurnWaiter, RemoveTurnWaiter, TurnAdmissionHeartbeat, LeaseExpires,
         Tick, vars, pendingVars, stateVars, otherVars
<1>2. SameTurns
  BY <1>1, UpdatedTurns
<1> QED
  BY <1>1, <1>2, SameSchedule DEF Continues, LedgerStep, KeepsLedger

(* The classes cover every step of the session. *)
LEMMA EveryStepHasAClass ==
  ASSUME TypeOK, [Next]_vars
  PROVE  LedgerStep
BY StartTurnClass, OutcomeClass, CancelClass, InputClass, RegisterReviewClass,
   ReviewEndClass, ReviewResolvedClass, ExecutionClass, SignalClass, OtherClass
DEF Next

--------------------------------------------------------------------------------
(* Turn ids.                                                                  *)

(* An id above the last one minted has no turn; the id of a queued continuation
   is minted and is not the id of a user turn. *)
FreshTurns ==
  /\ \A t \in Turns : t > minted => turns[t].trigger = "none"
  /\ \A e \in schedule.queued : e.turn <= minted /\ turns[e.turn].trigger # "user"

LEMMA FreshTurnsStep ==
  ASSUME TypeOK, TypeOK', FreshTurns, LedgerStep
  PROVE  FreshTurns'
<1>t. /\ minted \in Nat /\ minted' \in Nat /\ \A t \in Turns : t \in Nat
      /\ NewTurn = minted + 1
  BY BoundsAssumption DEF TypeOK, Turns, NewTurn
<1>q. \A e \in schedule.queued : e.turn \in Turns
  BY DEF TypeOK, ScheduleSet, ReviewEntry
<1>r. \A e \in schedule'.queued : e.turn \in Turns
  BY DEF TypeOK, ScheduleSet, ReviewEntry
<1>m. CanMint => NewTurn \in Turns
  BY NewTurnType
<1>d. ASSUME schedule' = DiscardBelow(schedule, generation + 1)
      PROVE  schedule'.queued \subseteq schedule.queued
  BY Zenon, <1>d DEF DiscardBelow, TypeOK, ScheduleSet
<1>1. CASE StartsNow
  BY <1>1, <1>t, <1>q, <1>m, <1>d DEF StartsNow, Dispatches, FreshTurns
<1>2. CASE Queues
  BY <1>2, <1>t, <1>q, <1>d DEF Queues, SameTurns, FreshTurns
<1>3. CASE DispatchesOldest
  BY <1>3, <1>t, <1>q, <1>m DEF DispatchesOldest, Dispatches, ScheduleShrinks, FreshTurns
<1>4. CASE Rejects
  BY <1>4, <1>t, <1>q DEF Rejects, SameTurns, FreshTurns
<1>5. CASE Ends
  BY <1>5, <1>t, <1>q DEF Ends, SameTurns, FreshTurns, EmptySchedule
<1>6. CASE Continues
  <2>1. \A t \in Turns : turns[t].trigger # "user" => turns'[t].trigger # "user"
    BY <1>6 DEF Continues, SameTurns, DispatchesOther, Dispatches
  <2>2. minted' \in {minted, NewTurn}
    BY <1>6 DEF Continues, DispatchesOther
  <2>3. \A t \in Turns : t > minted' => turns'[t].trigger = "none"
    <3>1. CASE SameTurns
      BY <1>t, <2>2, <3>1 DEF SameTurns, FreshTurns
    <3>2. CASE DispatchesOther
      BY <1>t, <2>2, <3>2 DEF DispatchesOther, Dispatches, FreshTurns
    <3> QED
      BY <1>6, <3>1, <3>2 DEF Continues
  <2>4. ASSUME NEW e \in schedule'.queued
        PROVE  e.turn <= minted' /\ turns'[e.turn].trigger # "user"
    <3>1. CASE e \in schedule.queued
      BY <1>t, <1>q, <2>1, <2>2, <3>1 DEF FreshTurns
    <3>2. CASE e.turn = NewTurn /\ minted' = NewTurn
      <4>1. e.turn \in Turns /\ turns[e.turn].trigger = "none"
        BY <1>t, <1>r, <3>2 DEF FreshTurns
      <4> QED
        BY <1>t, <2>1, <3>2, <4>1
    <3> QED
      BY <1>6, <2>4, <3>1, <3>2 DEF Continues, ScheduleStep
  <2> QED
    BY <2>3, <2>4 DEF FreshTurns
<1> QED
  BY <1>1, <1>2, <1>3, <1>4, <1>5, <1>6 DEF LedgerStep

--------------------------------------------------------------------------------
(* Generations.                                                               *)

(* No turn and no queued message is ahead of the session's generation. *)
GenerationsBounded ==
  initialized =>
    /\ \A t \in Turns : turns[t].generation <= generation
    /\ \A i \in 1..Len(queue) : queue[i].generation <= generation

LEMMA GenerationTypes ==
  ASSUME TypeOK
  PROVE  /\ generation \in Nat
         /\ \A t \in Turns : turns[t].generation \in Nat
         /\ \A i \in 1..Len(queue) : queue[i].generation \in Nat
         /\ \A e \in schedule.registered \cup schedule.queued : e.generation \in Nat
         /\ Len(queue) \in Nat
<1>1. \A i \in 1..Len(queue) : queue[i] \in QueueEntry
  BY DEF TypeOK
<1>2. \A i \in 1..Len(queue) : queue[i].generation \in Nat
  BY <1>1 DEF QueueEntry
<1>3. \A t \in Turns : turns[t].generation \in Nat
  BY DEF TypeOK, TurnSet
<1>4. \A e \in schedule.registered \cup schedule.queued : e.generation \in Nat
  BY DEF TypeOK, ScheduleSet, ReviewEntry
<1>5. Len(queue) \in Nat /\ generation \in Nat
  BY DEF TypeOK
<1> QED
  BY <1>2, <1>3, <1>4, <1>5

(* The queue after a push and after a pop, position by position. *)
LEMMA PushedQueue ==
  ASSUME TypeOK, NEW m \in Messages, queue' = QueueAfterPush(m)
  PROVE  /\ Len(queue') = Len(queue) + 1
         /\ queue'[Len(queue) + 1].generation = generation + 1
         /\ \A i \in 1..Len(queue) : queue'[i] = queue[i]
BY DEF TypeOK, QueueAfterPush

LEMMA PoppedQueue ==
  ASSUME TypeOK, queue # <<>>, queue' = QueueAfterPop
  PROVE  /\ Len(queue) >= 1 /\ Len(queue') = Len(queue) - 1
         /\ OldestQueued = queue[1]
         /\ \A i \in 1..Len(queue') : queue'[i] = queue[i + 1]
BY DEF TypeOK, QueueAfterPop, OldestQueued

LEMMA GenerationsStep ==
  ASSUME TypeOK, GenerationsBounded, LedgerStep
  PROVE  GenerationsBounded'
<1> USE GenerationTypes
<1>m. CanMint => NewTurn \in Turns
  BY NewTurnType
<1>1. CASE StartsNow
  BY <1>1, <1>m DEF StartsNow, Dispatches, GenerationsBounded
<1>2. CASE Queues
  <2>1. PICK m \in Messages : queue' = QueueAfterPush(m)
    BY <1>2 DEF Queues
  <2> QED
    BY <1>2, <2>1, PushedQueue DEF Queues, SameTurns, GenerationsBounded
<1>3. CASE DispatchesOldest
  <2>1. /\ Len(queue) >= 1 /\ Len(queue') = Len(queue) - 1
        /\ OldestQueued = queue[1]
        /\ \A i \in 1..Len(queue') : queue'[i] = queue[i + 1]
    BY <1>3, PoppedQueue DEF DispatchesOldest
  <2> SUFFICES ASSUME initialized
               PROVE  GenerationsBounded'
    BY <1>3 DEF DispatchesOldest, GenerationsBounded
  <2>2. \A i \in 1..Len(queue) : queue[i].generation <= generation
    BY DEF GenerationsBounded
  <2>3. \A i \in 1..Len(queue') : i + 1 \in 1..Len(queue)
    BY <2>1
  <2>4. \A i \in 1..Len(queue') : queue'[i].generation <= generation
    BY <2>1, <2>2, <2>3
  <2>5. OldestQueued.generation <= generation
    BY <2>1, <2>2
  <2>6. \A t \in Turns : turns'[t].generation <= generation
    BY <1>3, <1>m, <2>5 DEF DispatchesOldest, Dispatches, GenerationsBounded
  <2> QED
    BY <1>3, <2>4, <2>6 DEF DispatchesOldest, GenerationsBounded
<1>4. CASE Rejects
  BY <1>4 DEF Rejects, SameTurns, GenerationsBounded
<1>5. CASE Ends
  BY <1>5 DEF Ends, GenerationsBounded
<1>6. CASE Continues
  BY <1>6 DEF Continues, KeepsLedger, SameTurns, DispatchesOther, Dispatches,
              GenerationsBounded
<1> QED
  BY <1>1, <1>2, <1>3, <1>4, <1>5, <1>6 DEF LedgerStep

--------------------------------------------------------------------------------
(* Reviews are of the current generation.                                     *)

LEMMA ReviewsStep ==
  ASSUME TypeOK, GenerationsBounded, ReviewsAreCurrent, LedgerStep
  PROVE  ReviewsAreCurrent'
<1> USE GenerationTypes
<1>d. ASSUME initialized, schedule' = DiscardBelow(schedule, generation + 1)
      PROVE  schedule'.registered = {} /\ schedule'.queued = {}
  BY <1>d DEF DiscardBelow, TypeOK, ScheduleSet, ReviewsAreCurrent
<1>1. CASE StartsNow
  BY <1>1, <1>d DEF StartsNow, ReviewsAreCurrent
<1>2. CASE Queues
  BY <1>2, <1>d DEF Queues, ReviewsAreCurrent
<1>3. CASE DispatchesOldest
  BY <1>3 DEF DispatchesOldest, ScheduleShrinks, ReviewsAreCurrent
<1>4. CASE Rejects
  BY <1>4 DEF Rejects, ReviewsAreCurrent
<1>5. CASE Ends
  BY <1>5 DEF Ends, ReviewsAreCurrent
<1>6. CASE Continues
  BY <1>6 DEF Continues, KeepsLedger, ScheduleStep, ReviewsAreCurrent, GenerationsBounded
<1> QED
  BY <1>1, <1>2, <1>3, <1>4, <1>5, <1>6 DEF LedgerStep

(* Whatever is registered or queued for continuation has the session's current
   generation, for every interleaving of messages, reviews and outcomes: no
   continuation resumes work that a newer start_turn has superseded. *)
THEOREM ReviewsStayCurrent == Spec => []ReviewsAreCurrent
<1> DEFINE Inv == TypeOK /\ GenerationsBounded /\ ReviewsAreCurrent
<1>1. Init => Inv
  <2>1. Init => TypeOK
    BY TypeOKInit
  <2>2. Init => GenerationsBounded
    BY DEF Init, GenerationsBounded, UnusedTurn
  <2>3. Init => ReviewsAreCurrent
    BY DEF Init, ReviewsAreCurrent, EmptySchedule
  <2> QED
    BY <2>1, <2>2, <2>3
<1>2. Inv /\ [Next]_vars => Inv'
  <2> SUFFICES ASSUME TypeOK, GenerationsBounded, ReviewsAreCurrent, [Next]_vars
               PROVE  Inv'
    OBVIOUS
  <2>1. LedgerStep
    BY EveryStepHasAClass
  <2>2. TypeOK'
    BY TypeOKStep
  <2>3. GenerationsBounded' /\ ReviewsAreCurrent'
    BY <2>1, GenerationsStep, ReviewsStep
  <2> QED
    BY <2>2, <2>3
<1> QED
  BY <1>1, <1>2, PTL DEF Spec

--------------------------------------------------------------------------------
(* The ledger of accepted messages.                                           *)

(* The three places a generation may be in. *)
HasTurn(g) == \E t \in Turns : turns[t].trigger = "user" /\ turns[t].generation = g

HasPlace(g) == \E i \in 1..Len(queue) : queue[i].generation = g

(* MessageLedger, generation by generation. *)
Ledger ==
  initialized =>
    /\ \A g \in Nat : (1 <= g /\ g <= generation)
                        <=> HasTurn(g) \/ HasPlace(g) \/ g \in rejected
    /\ \A g \in Nat : HasTurn(g) => ~HasPlace(g) /\ g \notin rejected
    /\ \A g \in Nat : HasPlace(g) => g \notin rejected
    /\ \A t, u \in Turns :
         turns[t].trigger = "user" /\ turns[u].trigger = "user"
           /\ turns[t].generation = turns[u].generation => t = u
    /\ \A i, j \in 1..Len(queue) : queue[i].generation = queue[j].generation => i = j

LEMMA LedgerImpliesMessageLedger ==
  ASSUME TypeOK, Ledger
  PROVE  MessageLedger
<1> SUFFICES ASSUME initialized
             PROVE  MessageLedger
  BY DEF MessageLedger
<1> USE GenerationTypes
<1>1. \A g : g \in QueuedGenerations <=> HasPlace(g)
  BY DEF QueuedGenerations, HasPlace
<1>2. \A g : g \in {turns[t].generation : t \in UserTurns} <=> HasTurn(g)
  BY DEF UserTurns, HasTurn
<1>3. \A g : HasTurn(g) \/ HasPlace(g) \/ g \in rejected => g \in Nat
  BY DEF HasTurn, HasPlace, TypeOK
<1>4. 1..generation = {turns[t].generation : t \in UserTurns}
                        \cup QueuedGenerations \cup rejected
  BY <1>1, <1>2, <1>3 DEF Ledger
<1>5. \A t \in UserTurns : turns[t].generation \notin QueuedGenerations \cup rejected
  BY <1>1, <1>2, <1>3 DEF Ledger
<1>6. \A t, u \in UserTurns : turns[t].generation = turns[u].generation => t = u
  BY DEF Ledger, UserTurns
<1>7. QueuedGenerations \cap rejected = {}
  BY <1>1, <1>3 DEF Ledger
<1>8. \A i, j \in 1..Len(queue) : queue[i].generation = queue[j].generation => i = j
  BY DEF Ledger
<1> QED
  BY <1>4, <1>5, <1>6, <1>7, <1>8 DEF MessageLedger

(* A step that dispatches no user turn leaves the user turns as they are. *)
LEMMA UserTurnsKept ==
  ASSUME TypeOK, FreshTurns, Continues
  PROVE  \A x \in Turns :
           \/ turns'[x].trigger = "user" /\ turns[x].trigger = "user"
                /\ turns'[x].generation = turns[x].generation
           \/ turns'[x].trigger # "user" /\ turns[x].trigger # "user"
<1>1. CASE SameTurns
  BY <1>1 DEF SameTurns
<1>2. CASE DispatchesOther
  <2>1. PICK n \in Turns, trigger \in {"review", "child", "synthesis"} :
          /\ Dispatches(n, trigger, generation)
          /\ n = NewTurn \/ \E e \in schedule.queued : e.turn = n
    BY <1>2 DEF DispatchesOther
  <2>2. NewTurn > minted
    BY DEF NewTurn, TypeOK
  <2>3. turns[n].trigger # "user"
    BY <2>1, <2>2 DEF FreshTurns
  <2> QED
    BY <2>1, <2>3 DEF Dispatches
<1> QED
  BY <1>1, <1>2 DEF Continues

(* A step that dispatches the user turn n under generation g adds g to the
   generations that have a turn. *)
LEMMA UserTurnAdded ==
  ASSUME TypeOK, FreshTurns, CanMint, NEW g, Dispatches(NewTurn, "user", g)
  PROVE  /\ \A x \in Turns : x # NewTurn =>
              /\ turns'[x].trigger = turns[x].trigger
              /\ turns'[x].generation = turns[x].generation
         /\ NewTurn \in Turns /\ turns[NewTurn].trigger = "none"
         /\ turns'[NewTurn].trigger = "user" /\ turns'[NewTurn].generation = g
<1>1. NewTurn \in Turns
  BY NewTurnType
<1>2. NewTurn > minted
  BY DEF NewTurn, TypeOK
<1> QED
  BY <1>1, <1>2 DEF Dispatches, FreshTurns

LEMMA LedgerStepKeepsLedger ==
  ASSUME TypeOK, FreshTurns, Ledger, LedgerStep
  PROVE  Ledger'
<1> USE GenerationTypes
<1> SUFFICES ASSUME initialized'
             PROVE  Ledger'
  BY DEF Ledger
<1>1. CASE StartsNow
  <2>1. \A h \in Nat : HasTurn(h)' <=> HasTurn(h) \/ h = generation + 1
    BY <1>1, UserTurnAdded DEF StartsNow, HasTurn
  <2>2. \A h : (HasPlace(h)' <=> HasPlace(h))
    BY <1>1 DEF StartsNow, HasPlace
  <2>3. initialized /\ generation' = generation + 1 /\ rejected' = rejected /\ queue' = queue
    BY <1>1 DEF StartsNow
  <2>4. \A t \in Turns : turns[t].trigger = "user" => turns[t].generation # generation + 1
    BY <2>3 DEF Ledger, HasTurn
  <2>5. \A t, u \in Turns :
          turns'[t].trigger = "user" /\ turns'[u].trigger = "user"
            /\ turns'[t].generation = turns'[u].generation => t = u
    BY <1>1, <2>3, <2>4, UserTurnAdded DEF StartsNow, Ledger
  <2> QED
    BY <2>1, <2>2, <2>3, <2>5 DEF Ledger
<1>2. CASE Queues
  <2>1. PICK m \in Messages : queue' = QueueAfterPush(m)
    BY <1>2 DEF Queues
  <2>2. \A h \in Nat : HasPlace(h)' <=> HasPlace(h) \/ h = generation + 1
    <3>1. /\ Len(queue') = Len(queue) + 1
          /\ queue'[Len(queue) + 1].generation = generation + 1
          /\ \A i \in 1..Len(queue) : queue'[i] = queue[i]
      BY <2>1, PushedQueue
    <3>2. ASSUME NEW h \in Nat, HasPlace(h)'
          PROVE  HasPlace(h) \/ h = generation + 1
      <4>1. PICK i \in 1..Len(queue') : queue'[i].generation = h
        BY <3>2 DEF HasPlace
      <4>2. i \in 1..Len(queue) \/ i = Len(queue) + 1
        BY <3>1, <4>1
      <4> QED
        BY <3>1, <4>1, <4>2 DEF HasPlace
    <3>3. ASSUME NEW h \in Nat, HasPlace(h)
          PROVE  HasPlace(h)'
      BY <3>1, <3>3 DEF HasPlace
    <3>4. ASSUME NEW h \in Nat, h = generation + 1
          PROVE  HasPlace(h)'
      <4>1. Len(queue) + 1 \in 1..Len(queue')
        BY <3>1
      <4> QED
        BY <3>1, <3>4, <4>1 DEF HasPlace
    <3> QED
      BY <3>2, <3>3, <3>4
  <2>3. \A h : (HasTurn(h)' <=> HasTurn(h))
    BY <1>2 DEF Queues, SameTurns, HasTurn
  <2>4. initialized /\ generation' = generation + 1 /\ rejected' = rejected
    BY <1>2 DEF Queues
  <2>5. \A i \in 1..Len(queue) : queue[i].generation # generation + 1
    BY <2>4 DEF Ledger, HasPlace
  <2>6. \A i, j \in 1..Len(queue') : queue'[i].generation = queue'[j].generation => i = j
    <3>1. /\ Len(queue') = Len(queue) + 1
          /\ queue'[Len(queue) + 1].generation = generation + 1
          /\ \A i \in 1..Len(queue) : queue'[i] = queue[i]
      BY <2>1, PushedQueue
    <3>2. \A i \in 1..Len(queue') : i \in 1..Len(queue) \/ i = Len(queue) + 1
      BY <3>1
    <3>3. \A i, j \in 1..Len(queue) : queue[i].generation = queue[j].generation => i = j
      BY <2>4 DEF Ledger
    <3> QED
      BY <2>5, <3>1, <3>2, <3>3
  <2>7. SameTurns
    BY <1>2 DEF Queues
  <2> QED
    BY <2>2, <2>3, <2>4, <2>6, <2>7 DEF Ledger, SameTurns
<1>3. CASE DispatchesOldest
  <2> DEFINE g == OldestQueued.generation
  <2>1. /\ Len(queue) >= 1 /\ Len(queue') = Len(queue) - 1
        /\ OldestQueued = queue[1]
        /\ \A i \in 1..Len(queue') : queue'[i] = queue[i + 1]
    BY <1>3, PoppedQueue DEF DispatchesOldest
  <2>2. initialized /\ generation' = generation /\ rejected' = rejected
    BY <1>3 DEF DispatchesOldest
  <2>3. g \in Nat /\ HasPlace(g)
    BY <2>1 DEF HasPlace
  <2>4. \A h \in Nat : HasTurn(h)' <=> HasTurn(h) \/ h = g
    BY <1>3, <2>3, UserTurnAdded DEF DispatchesOldest, HasTurn
  <2>5. \A i \in 2..Len(queue) : queue[i].generation # g
    BY <2>1, <2>2 DEF Ledger
  <2>6. \A h \in Nat : HasPlace(h)' <=> HasPlace(h) /\ h # g
    <3>1. ASSUME NEW h \in Nat, HasPlace(h)'
          PROVE  HasPlace(h) /\ h # g
      <4>1. PICK i \in 1..Len(queue') : queue'[i].generation = h
        BY <3>1 DEF HasPlace
      <4>2. i + 1 \in 2..Len(queue) /\ queue[i + 1].generation = h
        BY <2>1, <4>1
      <4>3. i + 1 \in 1..Len(queue)
        BY <4>2
      <4> QED
        BY <2>5, <4>2, <4>3 DEF HasPlace
    <3>2. ASSUME NEW h \in Nat, HasPlace(h), h # g
          PROVE  HasPlace(h)'
      <4>1. PICK i \in 1..Len(queue) : queue[i].generation = h
        BY <3>2 DEF HasPlace
      <4>2. i - 1 \in 1..Len(queue') /\ queue'[i - 1] = queue[i]
        BY <2>1, <3>2, <4>1
      <4> QED
        BY <4>1, <4>2 DEF HasPlace
    <3> QED
      BY <3>1, <3>2
  <2>7. \A t \in Turns : turns[t].trigger = "user" => turns[t].generation # g
    BY <2>2, <2>3 DEF Ledger, HasTurn
  <2>8. \A t, u \in Turns :
          turns'[t].trigger = "user" /\ turns'[u].trigger = "user"
            /\ turns'[t].generation = turns'[u].generation => t = u
    BY <1>3, <2>2, <2>7, UserTurnAdded DEF DispatchesOldest, Ledger
  <2>9. ASSUME NEW i \in 1..Len(queue'), NEW j \in 1..Len(queue'),
               queue'[i].generation = queue'[j].generation
        PROVE  i = j
    <3>1. i + 1 \in 1..Len(queue) /\ j + 1 \in 1..Len(queue)
      BY <2>1
    <3>2. queue[i + 1].generation = queue[j + 1].generation
      BY <2>1, <2>9
    <3>3. i + 1 = j + 1
      BY <2>2, <3>1, <3>2 DEF Ledger
    <3> QED
      BY <3>3
  <2> HIDE DEF g
  <2> QED
    BY <2>2, <2>3, <2>4, <2>6, <2>8, <2>9 DEF Ledger
<1>4. CASE Rejects
  <2>1. \A h \in Nat : h \in rejected' <=> h \in rejected \/ HasPlace(h)
    BY <1>4 DEF Rejects, QueuedGenerations, HasPlace
  <2>2. \A h : ~HasPlace(h)'
    BY <1>4 DEF Rejects, HasPlace
  <2>3. \A h : (HasTurn(h)' <=> HasTurn(h))
    BY <1>4 DEF Rejects, SameTurns, HasTurn
  <2>4. initialized /\ generation' = generation /\ queue' = <<>> /\ SameTurns
    BY <1>4 DEF Rejects
  <2> QED
    BY <2>1, <2>2, <2>3, <2>4 DEF Ledger, SameTurns
<1>5. CASE Ends
  BY <1>5 DEF Ends
<1>6. CASE Continues
  <2>1. \A h : (HasTurn(h)' <=> HasTurn(h))
    BY <1>6, UserTurnsKept DEF HasTurn
  <2>2. initialized /\ UNCHANGED <<queue, generation, rejected>>
    BY <1>6 DEF Continues, KeepsLedger
  <2>3. \A h : (HasPlace(h)' <=> HasPlace(h))
    BY <2>2 DEF HasPlace
  <2>4. \A t, u \in Turns :
          turns'[t].trigger = "user" /\ turns'[u].trigger = "user"
            /\ turns'[t].generation = turns'[u].generation => t = u
    BY <1>6, <2>2, UserTurnsKept DEF Ledger
  <2> QED
    BY <2>1, <2>2, <2>3, <2>4 DEF Ledger
<1> QED
  BY <1>1, <1>2, <1>3, <1>4, <1>5, <1>6 DEF LedgerStep

(* No accepted message is lost or run twice, for every number of messages,
   turns, reviews, runs and children and every order of their calls: each
   generation start_turn hands out is in exactly one of a user turn, a queue
   entry and a rejection. *)
THEOREM NoMessageLostOrRepeated == Spec => []MessageLedger
<1> DEFINE Inv == TypeOK /\ FreshTurns /\ Ledger
<1>1. Init => Inv
  <2>1. Init => TypeOK
    BY TypeOKInit
  <2>2. Init => FreshTurns
    BY DEF Init, FreshTurns, UnusedTurn, EmptySchedule
  <2>3. ASSUME Init
        PROVE  Ledger
    <3>1. \A t \in Turns : turns[t].trigger # "user"
      BY <2>3 DEF Init, UnusedTurn
    <3>2. generation = 0 /\ rejected = {} /\ queue = <<>>
      BY <2>3 DEF Init
    <3>3. \A g : ~HasTurn(g)
      BY <3>1 DEF HasTurn
    <3>4. \A g : ~HasPlace(g)
      BY <3>2 DEF HasPlace
    <3> QED
      <4>1. \A g \in Nat : ~(1 <= g /\ g <= generation) /\ g \notin rejected
        BY <3>2
      <4>2. \A i \in 1..Len(queue) : FALSE
        BY <3>2
      <4> QED
        BY <3>1, <3>3, <3>4, <4>1, <4>2 DEF Ledger
  <2> QED
    BY <2>1, <2>2, <2>3
<1>2. Inv /\ [Next]_vars => Inv'
  <2> SUFFICES ASSUME TypeOK, FreshTurns, Ledger, [Next]_vars
               PROVE  Inv'
    OBVIOUS
  <2>1. LedgerStep
    BY EveryStepHasAClass
  <2>2. TypeOK'
    BY TypeOKStep
  <2>3. FreshTurns' /\ Ledger'
    BY <2>1, <2>2, FreshTurnsStep, LedgerStepKeepsLedger
  <2> QED
    BY <2>2, <2>3
<1>3. Inv => MessageLedger
  BY LedgerImpliesMessageLedger
<1> QED
  BY <1>1, <1>2, <1>3, PTL DEF Spec
================================================================================
