--------------------------- MODULE SessionTurnProofs ---------------------------
(***************************************************************************)
(* The turns of a Session, proved for every Session: which turn is active, *)
(* what becomes of its run, its question, its lease and its cancellation,  *)
(* and which message it serves.                                            *)
(*                                                                         *)
(* As in SessionLedgerProofs, every step is first classified: it leaves    *)
(* the active turn alone, makes the session idle, or begins a turn.        *)
(***************************************************************************)
EXTENDS SessionLedgerProofs, FiniteSetTheorems

(* Ids above the last one minted, and the ids of queued continuations, are unused;
   every queued continuation has its own. *)
TurnIds ==
  /\ \A t \in Turns : t > minted => turns[t].phase = "unused"
  /\ \A e \in schedule.queued : e.turn <= minted /\ turns[e.turn].phase = "unused"
  /\ \A e, f \in schedule.queued : e.turn = f.turn => e = f

ActiveIsUnfinished == active # NoTurn => Unfinished(active)

(* Only a cancelled turn retracts its question. *)
ClearedIsCancelled == \A t \in Turns : turns[t].phase = "cleared" => turns[t].cancel

(* A user turn was dispatched for a message. *)
UserHasMessage ==
  \A t \in Turns : turns[t].trigger = "user" =>
    turns[t].message \in Messages /\ turns[t].phase # "unused"

TurnInv ==
  /\ TurnIds
  /\ ActiveIsUnfinished
  /\ ClearedIsCancelled
  /\ UserHasMessage
  /\ AcceptedRunIsMarked

--------------------------------------------------------------------------------
(* The classes.                                                               *)

(* What a step leaves of a turn that it does not dispatch. *)
Carried(x) ==
  /\ turns'[x].trigger = turns[x].trigger /\ turns'[x].message = turns[x].message
  /\ turns'[x].phase = "unused" <=> turns[x].phase = "unused"
  /\ turns[x].phase = "reported" => turns'[x].phase = "reported"
  /\ turns[x].cancel => turns'[x].cancel
  /\ turns'[x].phase = "cleared" => turns[x].phase = "cleared" \/ turns[x].cancel
  /\ turns'[x].run # turns[x].run => turns'[x].run \in runs'

AllCarried == \A x \in Turns : Carried(x)

(* A continuation is queued under a new id, if at all. *)
QueueStep ==
  /\ \A e \in schedule'.queued :
       e \in schedule.queued \/ (e.turn = NewTurn /\ minted' = NewTurn)
  /\ \A e, f \in schedule'.queued : e \in schedule.queued \/ f \in schedule.queued \/ e = f
  /\ minted' \in {minted, NewTurn}

(* The active turn has ended. *)
ActiveEnds == active # NoTurn => turns'[active].phase = "reported"

Stays ==
  /\ AllCarried /\ QueueStep /\ (initialized' => initialized)
  /\ active' = active /\ (active # NoTurn => Unfinished(active)')
  /\ runs \subseteq runs'

Rests ==
  /\ AllCarried /\ QueueStep /\ active' = NoTurn
  /\ initialized' => initialized /\ ActiveEnds

(* The session may begin n: it is minted now, or was for a queued continuation. *)
Available(n) ==
  /\ n \in Turns
  /\ (n = NewTurn /\ minted' = NewTurn) \/ \E e \in schedule.queued : e.turn = n
  /\ QueueStep /\ \A e \in schedule'.queued : e.turn # n

Begun(n, trigger, m) ==
  /\ turns'[n].phase = "running" /\ turns'[n].trigger = trigger /\ turns'[n].message = m
  /\ turns'[n].run = NoRun /\ ~turns'[n].cancel
  /\ \A x \in Turns : x # n => Carried(x)

Begins(n, trigger, m) ==
  /\ Available(n) /\ Begun(n, trigger, m) /\ active' = n
  /\ initialized' => initialized
  /\ IF trigger = "synthesis" THEN Runs # {} ELSE ActiveEnds
  /\ trigger = "user" => m \in Messages

TurnClass == Stays \/ Rests \/ \E n, trigger, m : Begins(n, trigger, m)

--------------------------------------------------------------------------------
(* Updates of turns.                                                          *)

WithPhase(t, p) == [turns EXCEPT ![t].phase = p]

WithCancel(t) == [turns EXCEPT ![t].cancel = TRUE]

WithRun(t, run) == [turns EXCEPT ![t].run = run]

(* Turns that do not change. *)
LEMMA SameCarried ==
  ASSUME turns' = turns
  PROVE  AllCarried /\ \A t \in Turns : Unfinished(t)' <=> Unfinished(t)
  BY DEF AllCarried, Carried, Unfinished

(* An unfinished turn changes its phase. *)
LEMMA PhaseCarried ==
  ASSUME TypeOK, NEW t \in Turns, Unfinished(t), NEW p \in {"waiting", "answered", "cleared"},
         p = "cleared" => turns[t].cancel, turns' = WithPhase(t, p)
  PROVE  /\ AllCarried /\ \A x \in Turns : Unfinished(x)' <=> Unfinished(x)
         /\ turns'[t].phase = p /\ turns'[t].generation = turns[t].generation
         /\ turns'[t].cancel = turns[t].cancel
         /\ \A x \in Turns : x # t => turns'[x] = turns[x]
<1>1. turns \in [Turns -> TurnSet] /\ turns[t] \in TurnSet
  BY DEF TypeOK
<1> DEFINE rec == [turns[t] EXCEPT !.phase = p]
<1>2. /\ rec.phase = p /\ rec.trigger = turns[t].trigger /\ rec.message = turns[t].message
      /\ rec.cancel = turns[t].cancel /\ rec.run = turns[t].run
      /\ rec.generation = turns[t].generation
  BY <1>1 DEF TurnSet
<1>3. turns' = [turns EXCEPT ![t] = rec]
  BY DEF WithPhase
<1> HIDE DEF rec
<1>4. turns'[t] = rec /\ \A x \in Turns : x # t => turns'[x] = turns[x]
  BY <1>1, <1>3
<1> QED
  BY <1>2, <1>4 DEF AllCarried, Carried, Unfinished

(* A turn is told of its cancellation. *)
LEMMA CancelCarried ==
  ASSUME TypeOK, NEW t \in Turns, turns' = WithCancel(t)
  PROVE  /\ AllCarried /\ \A x \in Turns : Unfinished(x)' <=> Unfinished(x)
         /\ \A x \in Turns : /\ turns'[x].phase = turns[x].phase
                             /\ turns'[x].generation = turns[x].generation
         /\ \A x \in Turns : x # t => turns'[x] = turns[x]
<1>1. turns \in [Turns -> TurnSet] /\ turns[t] \in TurnSet
  BY DEF TypeOK
<1> DEFINE rec == [turns[t] EXCEPT !.cancel = TRUE]
<1>2. /\ rec.phase = turns[t].phase /\ rec.trigger = turns[t].trigger
      /\ rec.message = turns[t].message /\ rec.cancel /\ rec.run = turns[t].run
      /\ rec.generation = turns[t].generation
  BY <1>1 DEF TurnSet
<1>3. turns' = [turns EXCEPT ![t] = rec]
  BY DEF WithCancel
<1> HIDE DEF rec
<1>4. turns'[t] = rec /\ \A x \in Turns : x # t => turns'[x] = turns[x]
  BY <1>1, <1>3
<1> QED
  BY <1>2, <1>4 DEF AllCarried, Carried, Unfinished

(* A turn starts a durable run. *)
LEMMA RunCarried ==
  ASSUME TypeOK, NEW t \in Turns, NEW run \in runs', turns' = WithRun(t, run)
  PROVE  /\ AllCarried /\ \A x \in Turns : Unfinished(x)' <=> Unfinished(x)
         /\ \A x \in Turns : /\ turns'[x].phase = turns[x].phase
                             /\ turns'[x].generation = turns[x].generation
                             /\ turns'[x].cancel = turns[x].cancel
<1>1. turns \in [Turns -> TurnSet] /\ turns[t] \in TurnSet
  BY DEF TypeOK
<1> DEFINE rec == [turns[t] EXCEPT !.run = run]
<1>2. /\ rec.phase = turns[t].phase /\ rec.trigger = turns[t].trigger
      /\ rec.message = turns[t].message /\ rec.cancel = turns[t].cancel /\ rec.run = run
      /\ rec.generation = turns[t].generation
  BY <1>1 DEF TurnSet
<1>3. turns' = [turns EXCEPT ![t] = rec]
  BY DEF WithRun
<1> HIDE DEF rec
<1>4. turns'[t] = rec /\ \A x \in Turns : x # t => turns'[x] = turns[x]
  BY <1>1, <1>3
<1> QED
  BY <1>2, <1>4 DEF AllCarried, Carried, Unfinished

(* A turn that was dispatched reports. *)
LEMMA ReportedCarried ==
  ASSUME TypeOK, NEW t \in Turns, NEW kind, turns[t].phase # "unused",
         NEW x \in Turns, turns'[x] = Reported(t, kind)[x]
  PROVE  /\ Carried(x) /\ (x = t => turns'[x].phase = "reported")
         /\ x # t => turns'[x] = turns[x]
<1>1. turns \in [Turns -> TurnSet] /\ turns[t] \in TurnSet
  BY DEF TypeOK
<1> DEFINE rec == [turns[t] EXCEPT !.phase = "reported", !.kind = kind]
<1>2. /\ rec.phase = "reported" /\ rec.trigger = turns[t].trigger
      /\ rec.message = turns[t].message /\ rec.cancel = turns[t].cancel
      /\ rec.run = turns[t].run
  BY <1>1 DEF TurnSet
<1>3. Reported(t, kind) = [turns EXCEPT ![t] = rec]
  BY <1>1 DEF Reported
<1> HIDE DEF rec
<1>4. (x = t => turns'[x] = rec) /\ (x # t => turns'[x] = turns[x])
  BY <1>1, <1>3
<1> QED
  BY <1>2, <1>4 DEF Carried

(* A dispatched turn. *)
LEMMA BegunFields ==
  ASSUME NEW trigger, NEW m, NEW g
  PROVE  /\ RunTurn(trigger, m, g).phase = "running" /\ RunTurn(trigger, m, g).trigger = trigger
         /\ RunTurn(trigger, m, g).message = m /\ RunTurn(trigger, m, g).run = NoRun
         /\ ~RunTurn(trigger, m, g).cancel
  BY DEF RunTurn, UnusedTurn

(* A turn is dispatched to an idle session, or over the active turn. *)
LEMMA PlainBegun ==
  ASSUME TypeOK, NEW n \in Turns, NEW trigger, NEW m, NEW g,
         turns' = [turns EXCEPT ![n] = RunTurn(trigger, m, g)]
  PROVE  Begun(n, trigger, m) /\ \A x \in Turns : x # n => turns'[x] = turns[x]
<1>1. turns \in [Turns -> TurnSet]
  BY DEF TypeOK
<1>2. turns'[n] = RunTurn(trigger, m, g) /\ \A x \in Turns : x # n => turns'[x] = turns[x]
  BY <1>1
<1>3. /\ turns'[n].phase = "running" /\ turns'[n].trigger = trigger /\ turns'[n].message = m
      /\ turns'[n].run = NoRun /\ ~turns'[n].cancel
  BY <1>2, BegunFields
<1>4. \A x \in Turns : x # n => Carried(x)
  BY <1>2 DEF Carried
<1> QED
  BY <1>2, <1>3, <1>4 DEF Begun

(* A turn is dispatched as another one reports. *)
LEMMA ReportedBegun ==
  ASSUME TypeOK, NEW t \in Turns, NEW kind, turns[t].phase # "unused",
         NEW n \in Turns, n # t, NEW trigger, NEW m, NEW g,
         turns' = [Reported(t, kind) EXCEPT ![n] = RunTurn(trigger, m, g)]
  PROVE  /\ Begun(n, trigger, m) /\ turns'[t].phase = "reported"
         /\ \A x \in Turns : x # n /\ x # t => turns'[x] = turns[x]
<1>1. DOMAIN Reported(t, kind) = Turns
  BY ReportedFields
<1>2. /\ turns'[n] = RunTurn(trigger, m, g)
      /\ \A x \in Turns : x # n => turns'[x] = Reported(t, kind)[x]
  BY <1>1
<1>3. \A x \in Turns : x # n => /\ Carried(x) /\ (x = t => turns'[x].phase = "reported")
                                /\ x # t => turns'[x] = turns[x]
  BY <1>2, ReportedCarried
<1>4. /\ turns'[n].phase = "running" /\ turns'[n].trigger = trigger /\ turns'[n].message = m
      /\ turns'[n].run = NoRun /\ ~turns'[n].cancel
  BY <1>2, BegunFields
<1> QED
  BY <1>3, <1>4 DEF Begun

--------------------------------------------------------------------------------
(* Every step belongs to a class.                                             *)

(* The queue of continuations does not grow. *)
LEMMA ShrinkingQueue ==
  ASSUME schedule'.queued \subseteq schedule.queued, minted' \in {minted, NewTurn}
  PROVE  QueueStep
  BY DEF QueueStep

(* A turn id that is minted now is unused. *)
LEMMA NewIsUnused ==
  ASSUME TypeOK, TurnIds, CanMint
  PROVE  /\ NewTurn \in Turns /\ turns[NewTurn].phase = "unused"
         /\ \A e \in schedule.queued : e.turn # NewTurn
<1>1. minted \in Nat /\ NewTurn = minted + 1 /\ NewTurn \in Turns /\ NewTurn > minted
  BY NewTurnType, BoundsAssumption DEF TypeOK, NewTurn
<1>2. \A e \in schedule.queued : e.turn <= minted /\ e.turn \in Nat
  BY DEF TurnIds, TypeOK, ScheduleSet, ReviewEntry, Turns
<1>3. turns[NewTurn].phase = "unused"
  BY <1>1 DEF TurnIds
<1> QED
  BY <1>1, <1>2, <1>3

(* So it may be begun. *)
LEMMA NewAvailable ==
  ASSUME TypeOK, TurnIds, CanMint, minted' = NewTurn,
         schedule'.queued \subseteq schedule.queued
  PROVE  Available(NewTurn)
  BY NewIsUnused, ShrinkingQueue DEF Available

(* A step that keeps the active turn and dispatches none. *)
LEMMA StaysWhenKept ==
  ASSUME TypeOK, TurnInv, AllCarried, \A x \in Turns : Unfinished(x)' <=> Unfinished(x),
         active' = active, runs \subseteq runs', initialized' => initialized,
         schedule'.queued \subseteq schedule.queued, minted' = minted
  PROVE  TurnClass
<1>1. active # NoTurn => active \in Turns /\ Unfinished(active)
  BY DEF TurnInv, ActiveIsUnfinished, TypeOK, TurnOrNone
<1>2. active # NoTurn => Unfinished(active)'
  BY <1>1
<1> QED
  BY <1>2, ShrinkingQueue DEF Stays, TurnClass

(* start_turn *)
LEMMA StartTurnTurns ==
  ASSUME TypeOK, TurnInv, NEW m \in Messages,
         \/ StartTurnIdle(m) \/ StartTurnQueued(m)
         \/ \E input \in inputs : StartTurnReply(m, input)
  PROVE  TurnClass
<1>d. AdvanceGeneration => schedule'.queued \subseteq schedule.queued
  BY Zenon DEF AdvanceGeneration, DiscardBelow, TypeOK, ScheduleSet
<1>1. CASE StartTurnIdle(m)
  <2>1. NewTurn \in Turns /\ active = NoTurn /\ minted' = NewTurn /\ CanMint
    BY <1>1, NewTurnType DEF StartTurnIdle
  <2>2. Available(NewTurn)
    BY <1>1, <1>d, <2>1, NewAvailable DEF TurnInv, StartTurnIdle
  <2>3. Begun(NewTurn, "user", m)
    BY <1>1, <2>1, PlainBegun DEF StartTurnIdle
  <2>4. Begins(NewTurn, "user", m)
    BY <1>1, <2>1, <2>2, <2>3 DEF Begins, ActiveEnds, StartTurnIdle
  <2> QED
    BY <2>4 DEF TurnClass
<1>2. CASE StartTurnQueued(m)
  BY <1>2, <1>d, SameCarried, StaysWhenKept DEF StartTurnQueued, stateVars
<1>3. ASSUME NEW input \in inputs, StartTurnReply(m, input)
      PROVE  TurnClass
  <2>1. /\ active = input.turn /\ turns' = WithPhase(input.turn, "answered")
        /\ UNCHANGED <<active, runs, initialized, schedule, minted>>
    BY <1>3 DEF StartTurnReply, WithPhase
  <2>2. AllCarried /\ \A x \in Turns : Unfinished(x)' <=> Unfinished(x)
    <3>1. CASE active = NoTurn
      <4>1. turns' = turns
        BY <2>1, <3>1 DEF WithPhase, TypeOK, Turns, NoTurn
      <4> QED
        BY <4>1, SameCarried
    <3>2. CASE active # NoTurn
      <4>1. PICK t \in Turns : t = active
        BY <3>2 DEF TypeOK, TurnOrNone
      <4>2. Unfinished(t) /\ turns' = WithPhase(t, "answered")
        BY <2>1, <3>2, <4>1 DEF TurnInv, ActiveIsUnfinished
      <4> QED
        BY <4>2, PhaseCarried
    <3> QED
      BY <3>1, <3>2
  <2> QED
    BY <2>1, <2>2, StaysWhenKept
<1> QED
  BY <1>1, <1>2, <1>3

(* What ends the active turn. *)
LEMMA SettleFacts ==
  ASSUME TypeOK, TurnInv, NEW t \in Turns, NEW kind, Reports(t, kind)
  PROVE  /\ turns[t].phase # "unused" /\ (CanMint => NewTurn # t)
         /\ \A e \in schedule.queued : e.turn # t
<1>1. turns[t].phase # "unused"
  BY DEF Reports
<1> QED
  BY <1>1, NewIsUnused DEF TurnInv, TurnIds

(* record_turn_outcome *)
LEMMA OutcomeTurns ==
  ASSUME TypeOK, TurnInv, NEW t \in Turns,
         RecordTurnOutcome(t) \/ \E elapsed \in BOOLEAN : OutcomeResumesParent(t, elapsed)
  PROVE  TurnClass
<1>1. ASSUME NEW kind, OutcomeStale(t, kind)
      PROVE  TurnClass
  <2>1. turns[t].phase # "unused" /\ turns' = Reported(t, kind) /\ active # t
    BY <1>1, SettleFacts DEF OutcomeStale
  <2>2. AllCarried /\ \A x \in Turns : x # t => turns'[x] = turns[x]
    BY <2>1, ReportedCarried DEF AllCarried
  <2>3. UNCHANGED <<active, runs, initialized, schedule, minted>>
    BY <1>1 DEF OutcomeStale, stateVars
  <2>4. active # NoTurn => Unfinished(active)'
    BY <2>1, <2>2, <2>3 DEF TurnInv, ActiveIsUnfinished, TypeOK, TurnOrNone, Unfinished
  <2> QED
    BY <2>2, <2>3, <2>4, ShrinkingQueue DEF Stays, TurnClass
<1>2. ASSUME NEW kind, NEW entry \in schedule.queued, OutcomeContinues(t, kind, entry)
      PROVE  TurnClass
  <2>1. /\ active = t /\ Reports(t, kind) /\ entry.turn # t /\ turns[t].phase # "unused"
        /\ schedule' = Dequeue(schedule, entry) /\ minted' = minted /\ active' = entry.turn
        /\ initialized' = initialized
    BY <1>2, SettleFacts DEF OutcomeContinues, SettleActive
  <2>2. entry.turn \in Turns
    BY DEF TypeOK, ScheduleSet, ReviewEntry
  <2>3. schedule'.queued = schedule.queued \ {entry}
    BY <2>1 DEF Dequeue, TypeOK, ScheduleSet
  <2>4. Available(entry.turn)
    BY <2>1, <2>2, <2>3, ShrinkingQueue DEF Available, TurnInv, TurnIds
  <2>5. Begun(entry.turn, "review", NoMessage) /\ turns'[t].phase = "reported"
    BY <1>2, <2>1, <2>2, ReportedBegun DEF OutcomeContinues
  <2>6. Begins(entry.turn, "review", NoMessage)
    BY <2>1, <2>4, <2>5 DEF Begins, ActiveEnds
  <2> QED
    BY <2>6 DEF TurnClass
<1>3. ASSUME NEW kind, OutcomeDispatchesNext(t, kind)
      PROVE  TurnClass
  <2>1. /\ active = t /\ Reports(t, kind) /\ CanMint /\ minted' = NewTurn
        /\ active' = NewTurn /\ initialized' = initialized /\ queue # <<>>
    BY <1>3 DEF OutcomeDispatchesNext, SettleActive
  <2>2. NewTurn \in Turns /\ NewTurn # t /\ turns[t].phase # "unused"
    BY <2>1, SettleFacts, NewTurnType
  <2>3. Available(NewTurn)
    BY <1>3, <2>1, ReviewsAfterShrinks, NewAvailable
    DEF OutcomeDispatchesNext, TurnInv, ScheduleShrinks
  <2>4. OldestQueued.message \in Messages
    <3>1. queue \in Seq(QueueEntry) /\ queue # <<>>
      BY <2>1 DEF TypeOK
    <3>2. Head(queue) \in QueueEntry
      BY <3>1
    <3> QED
      BY <3>2 DEF OldestQueued, QueueEntry
  <2>5. Begun(NewTurn, "user", OldestQueued.message) /\ turns'[t].phase = "reported"
    BY <1>3, <2>2, ReportedBegun DEF OutcomeDispatchesNext
  <2>6. Begins(NewTurn, "user", OldestQueued.message)
    BY <2>1, <2>3, <2>4, <2>5 DEF Begins, ActiveEnds
  <2> QED
    BY <2>6 DEF TurnClass
<1>4. ASSUME NEW elapsed, OutcomeResumesParent(t, elapsed)
      PROVE  TurnClass
  <2>1. /\ active = t /\ Reports(t, "Completed") /\ CanMint /\ minted' = NewTurn
        /\ active' = NewTurn /\ UNCHANGED <<initialized, schedule>>
    BY <1>4 DEF OutcomeResumesParent, SettleActive
  <2>2. NewTurn \in Turns /\ NewTurn # t /\ turns[t].phase # "unused"
    BY <2>1, SettleFacts, NewTurnType
  <2>3. Available(NewTurn)
    BY <2>1, NewAvailable DEF TurnInv
  <2>4. Begun(NewTurn, "child", NoMessage) /\ turns'[t].phase = "reported"
    BY <1>4, <2>2, ReportedBegun DEF OutcomeResumesParent
  <2>5. Begins(NewTurn, "child", NoMessage)
    BY <2>1, <2>3, <2>4 DEF Begins, ActiveEnds
  <2> QED
    BY <2>5 DEF TurnClass
<1>5. ASSUME NEW kind, NEW elapsed, OutcomeIdles(t, kind, elapsed)
      PROVE  TurnClass
  <2>1. /\ active = t /\ Reports(t, kind) /\ minted' = minted /\ active' = NoTurn
        /\ initialized' = initialized /\ turns' = Reported(t, kind)
    BY <1>5 DEF OutcomeIdles, SettleActive
  <2>2. turns[t].phase # "unused"
    BY <2>1, SettleFacts
  <2>3. AllCarried /\ turns'[t].phase = "reported"
    BY <2>1, <2>2, ReportedCarried DEF AllCarried
  <2>4. QueueStep
    BY <1>5, <2>1, ReviewsAfterShrinks, ShrinkingQueue DEF OutcomeIdles, ScheduleShrinks
  <2> QED
    BY <2>1, <2>3, <2>4 DEF Rests, ActiveEnds, TurnClass
<1> QED
  BY <1>1, <1>2, <1>3, <1>4, <1>5 DEF RecordTurnOutcome

(* cancel, request_cancel and destroy *)
LEMMA CancelTurns ==
  ASSUME TypeOK, TurnInv,
         RequestCancel \/ Destroy \/ \E scope \in CancelKinds : Cancel(scope)
  PROVE  TurnClass
<1>1. ASSUME turns' = turns \/ (active # NoTurn /\ turns' = WithCancel(active))
      PROVE  AllCarried /\ \A x \in Turns : Unfinished(x)' <=> Unfinished(x)
  <2>1. CASE active # NoTurn /\ turns' = WithCancel(active)
    <3>1. PICK t \in Turns : t = active
      BY <2>1 DEF TypeOK, TurnOrNone
    <3> QED
      BY <2>1, <3>1, CancelCarried
  <2> QED
    BY <1>1, <2>1, SameCarried
<1>2. CASE RequestCancel
  BY <1>1, <1>2, StaysWhenKept DEF RequestCancel, WithCancel, pendingVars, stateVars
<1>3. ASSUME NEW scope, Cancel(scope)
      PROVE  TurnClass
  <2>1. turns' = turns \/ (active # NoTurn /\ turns' = WithCancel(active))
    BY <1>3 DEF Cancel, WithCancel
  <2>2. UNCHANGED <<active, runs, initialized, schedule, minted>>
    BY <1>3 DEF Cancel
  <2> QED
    BY <1>1, <2>1, <2>2, StaysWhenKept
<1>4. CASE Destroy
  <2>1. AllCarried /\ active' = NoTurn /\ ~initialized'
    BY <1>4, SameCarried DEF Destroy
  <2>2. QueueStep
    BY <1>4, ShrinkingQueue DEF Destroy, EmptySchedule
  <2> QED
    BY <2>1, <2>2 DEF Rests, TurnClass
<1> QED
  BY <1>2, <1>3, <1>4

(* register_coordinator_input and clear_coordinator_input *)
LEMMA InputTurnsClass ==
  ASSUME TypeOK, TurnInv, NEW t \in Turns,
         RegisterCoordinatorInput(t) \/ ClearCoordinatorInput(t)
  PROVE  TurnClass
<1>1. CASE RegisterCoordinatorInput(t)
  <2>1. Unfinished(t) /\ turns' = WithPhase(t, "waiting")
    BY <1>1 DEF RegisterCoordinatorInput, Asks, Unfinished, WithPhase
  <2> QED
    BY <1>1, <2>1, PhaseCarried, StaysWhenKept DEF RegisterCoordinatorInput
<1>2. CASE ClearCoordinatorInput(t)
  <2>1. Unfinished(t) /\ turns[t].cancel /\ turns' = WithPhase(t, "cleared")
    BY <1>2 DEF ClearCoordinatorInput, Unfinished, WithPhase
  <2> QED
    BY <1>2, <2>1, PhaseCarried, StaysWhenKept DEF ClearCoordinatorInput, pendingVars
<1> QED
  BY <1>1, <1>2

(* A continuation is dispatched to an idle session, or only the schedule changes. *)
LEMMA ReviewTurns ==
  ASSUME TypeOK, TurnInv, NEW s \in ScheduleSet, KeptByReview, minted' \in {minted, NewTurn},
         \A e \in s.queued :
           e \in schedule.queued \/ (e.turn = NewTurn /\ minted' = NewTurn /\ CanMint),
         \A e, f \in s.queued : e \in schedule.queued \/ f \in schedule.queued \/ e = f,
         \/ OnlySchedules(s)
         \/ \E e \in Eligible(s, generation) : active = NoTurn /\ DispatchContinuation(s, e)
  PROVE  TurnClass
<1>1. initialized' = initialized /\ runs' = runs
  BY DEF KeptByReview
<1>2. CASE OnlySchedules(s)
  <2>1. AllCarried /\ \A t \in Turns : Unfinished(t)' <=> Unfinished(t)
    BY <1>2, SameCarried DEF OnlySchedules
  <2>2. active' = active /\ schedule' = s
    BY <1>2 DEF OnlySchedules
  <2>3. QueueStep
    BY <2>2 DEF QueueStep
  <2>4. active # NoTurn => active \in Turns /\ Unfinished(active)
    BY DEF TurnInv, ActiveIsUnfinished, TypeOK, TurnOrNone
  <2>5. active # NoTurn => Unfinished(active)'
    BY <2>1, <2>2, <2>4
  <2> QED
    BY <1>1, <2>1, <2>2, <2>3, <2>5 DEF Stays, TurnClass
<1>3. ASSUME NEW e \in Eligible(s, generation), active = NoTurn, DispatchContinuation(s, e)
      PROVE  TurnClass
  <2>1. e \in s.queued /\ e.turn \in Turns /\ active' = e.turn
    BY <1>3, EligibleIsQueued DEF ScheduleSet, ReviewEntry, DispatchContinuation
  <2>2. schedule'.queued = s.queued \ {e}
    BY <1>3 DEF DispatchContinuation, Dequeue, ScheduleSet
  <2>3. QueueStep
    BY <2>2 DEF QueueStep
  <2>4. \A f \in s.queued : f.turn = e.turn => f = e
    BY <2>1, NewIsUnused DEF TurnInv, TurnIds
  <2>5. Available(e.turn)
    BY <2>1, <2>2, <2>3, <2>4 DEF Available
  <2>6. Begun(e.turn, "review", NoMessage)
    BY <1>3, <2>1, PlainBegun DEF DispatchContinuation
  <2>7. Begins(e.turn, "review", NoMessage)
    BY <1>1, <1>3, <2>1, <2>5, <2>6 DEF Begins, ActiveEnds
  <2> QED
    BY <2>7 DEF TurnClass
<1> QED
  BY <1>2, <1>3

(* A review is registered, dropped or released. *)
LEMMA ReviewEndTurns ==
  ASSUME TypeOK, TurnInv, NEW review \in Reviews,
         \/ \E t \in Turns : RegisterActionReview(t, review)
         \/ ReviewDropped(review)
         \/ \E resumeQueued \in BOOLEAN : ReleaseActionReview(review, resumeQueued)
  PROVE  TurnClass
<1>1. ASSUME NEW t \in Turns, RegisterActionReview(t, review)
      PROVE  TurnClass
  <2>1. schedule'.queued = schedule.queued
    <3>1. \/ schedule' = schedule
          \/ schedule' = Register(schedule, review, t, ReviewGeneration(t))
      BY <1>1 DEF RegisterActionReview
    <3> QED
      BY <3>1 DEF Register
  <2> QED
    BY <1>1, <2>1, SameCarried, StaysWhenKept DEF RegisterActionReview, stateVars
<1>2. ASSUME \/ ReviewDropped(review)
             \/ \E resumeQueued \in BOOLEAN : ReleaseActionReview(review, resumeQueued)
      PROVE  TurnClass
  <2>1. Resolve(schedule, review) \in ScheduleSet
    BY ResolveType DEF TypeOK
  <2>2. Resolve(schedule, review).queued = schedule.queued
    BY ResolveShrinks DEF TypeOK
  <2>3. minted' = minted /\ KeptByReview
    BY <1>2 DEF ReviewDropped, ReleaseActionReview
  <2>4. \/ OnlySchedules(Resolve(schedule, review))
        \/ \E x \in Eligible(Resolve(schedule, review), generation) :
              active = NoTurn /\ DispatchContinuation(Resolve(schedule, review), x)
    BY <1>2 DEF ReviewDropped, ReleaseActionReview
  <2> QED
    BY <2>1, <2>2, <2>3, <2>4, ReviewTurns
<1> QED
  BY <1>1, <1>2

(* action_review_resolved *)
LEMMA ReviewResolvedTurns ==
  ASSUME TypeOK, TurnInv, NEW review \in Reviews, ReviewResolved(review)
  PROVE  TurnClass
<1> DEFINE r == Registration(schedule, review)
           e == [review |-> review, turn |-> NewTurn,
                 generation |-> r.generation, ordinal |-> r.ordinal]
           s == Enqueue(Resolve(schedule, review), e)
<1>1. NewTurn \in Turns /\ minted' = NewTurn /\ KeptByReview /\ CanMint
  BY NewTurnType DEF ReviewResolved
<1>2. r \in ReviewEntry
  BY RegistrationType DEF TypeOK, ReviewResolved
<1>3. e \in ReviewEntry /\ e.turn = NewTurn
  BY <1>1, <1>2 DEF ReviewEntry
<1>4. \/ OnlySchedules(s)
      \/ \E x \in Eligible(s, generation) : active = NoTurn /\ DispatchContinuation(s, x)
  BY DEF ReviewResolved
<1>5. /\ Resolve(schedule, review) \in ScheduleSet
      /\ Resolve(schedule, review).queued = schedule.queued
  BY ResolveType, ResolveShrinks DEF TypeOK
<1> HIDE DEF e, r
<1>6. s \in ScheduleSet
  BY <1>3, <1>5, EnqueueType
<1>7. s.queued \subseteq schedule.queued \cup {e}
  BY <1>5 DEF Enqueue, ScheduleSet
<1> HIDE DEF s
<1>8. /\ \A x \in s.queued :
           x \in schedule.queued \/ (x.turn = NewTurn /\ minted' = NewTurn /\ CanMint)
      /\ \A x, y \in s.queued : x \in schedule.queued \/ y \in schedule.queued \/ x = y
  BY <1>1, <1>3, <1>7
<1> QED
  BY <1>1, <1>4, <1>6, <1>8, ReviewTurns

(* execution_run_started and execution_terminal *)
LEMMA ExecutionTurns ==
  ASSUME TypeOK, TurnInv, NEW run \in Runs,
         ExecutionTerminal(run) \/ \E t \in Turns : ExecutionRunStarted(t, run)
  PROVE  TurnClass
<1>1. CASE ExecutionTerminal(run)
  <2>1. /\ CanMint /\ minted' = NewTurn /\ active' = NewTurn
        /\ UNCHANGED <<schedule, initialized>>
    BY <1>1 DEF ExecutionTerminal, ActiveAfterSynthesis
  <2>2. NewTurn \in Turns /\ Available(NewTurn)
    BY <2>1, NewTurnType, NewAvailable DEF TurnInv
  <2>3. Begun(NewTurn, "synthesis", NoMessage)
    BY <1>1, <2>2, PlainBegun DEF ExecutionTerminal
  <2>4. Begins(NewTurn, "synthesis", NoMessage)
    BY <2>1, <2>2, <2>3 DEF Begins
  <2> QED
    BY <2>4 DEF TurnClass
<1>2. ASSUME NEW t \in Turns, ExecutionRunStarted(t, run)
      PROVE  TurnClass
  <2>1. /\ run \in runs' /\ runs \subseteq runs' /\ turns' = WithRun(t, run)
        /\ UNCHANGED <<active, schedule, minted, initialized>>
    BY <1>2 DEF ExecutionRunStarted, WithRun, pendingVars
  <2>2. AllCarried /\ \A x \in Turns : Unfinished(x)' <=> Unfinished(x)
    BY <2>1, RunCarried
  <2> QED
    BY <2>1, <2>2, StaysWhenKept
<1> QED
  BY <1>1, <1>2

(* record_child_signal *)
LEMMA SignalTurns ==
  ASSUME TypeOK, TurnInv, NEW s \in Signals, NEW elapsed \in BOOLEAN,
         RecordChildSignal(s, elapsed)
  PROVE  TurnClass
<1>1. UNCHANGED <<schedule, initialized, runs>>
  BY DEF RecordChildSignal
<1>2. CASE Wakes(s, elapsed)
  <2>1. /\ CanMint /\ minted' = NewTurn /\ active' = NewTurn /\ active = NoTurn
    BY <1>2 DEF RecordChildSignal, Wakes
  <2>2. NewTurn \in Turns /\ Available(NewTurn)
    BY <1>1, <2>1, NewTurnType, NewAvailable DEF TurnInv
  <2>3. Begun(NewTurn, "child", NoMessage)
    BY <1>2, <2>2, PlainBegun DEF RecordChildSignal
  <2>4. Begins(NewTurn, "child", NoMessage)
    BY <1>1, <2>1, <2>2, <2>3 DEF Begins, ActiveEnds
  <2> QED
    BY <2>4 DEF TurnClass
<1>3. CASE ~Wakes(s, elapsed)
  BY <1>1, <1>3, SameCarried, StaysWhenKept DEF RecordChildSignal
<1> QED
  BY <1>2, <1>3

(* Waiters, heartbeats and the clock. *)
LEMMA OtherTurns ==
  ASSUME TypeOK, TurnInv,
         \/ \E w \in Waiters : \E t \in Turns : AttachTurnWaiter(w, t)
         \/ \E w \in Waiters : RemoveTurnWaiter(w)
         \/ TurnAdmissionHeartbeat \/ LeaseExpires \/ Tick \/ UNCHANGED vars
  PROVE  TurnClass
<1>1. UNCHANGED <<turns, active, schedule, runs, initialized, minted>>
  BY DEF AttachTurnWaiter, RemoveTurnWaiter, TurnAdmissionHeartbeat, LeaseExpires,
         Tick, vars, pendingVars, stateVars, otherVars
<1> QED
  BY <1>1, SameCarried, StaysWhenKept

(* The classes cover every step of the session. *)
LEMMA EveryStepHasATurnClass ==
  ASSUME TypeOK, TurnInv, [Next]_vars
  PROVE  TurnClass
BY StartTurnTurns, OutcomeTurns, CancelTurns, InputTurnsClass, ReviewEndTurns,
   ReviewResolvedTurns, ExecutionTurns, SignalTurns, OtherTurns
DEF Next

--------------------------------------------------------------------------------
(* Turn ids, the active turn and its run.                                     *)

(* The id of a turn that begins was unused. *)
LEMMA BeginsUnused ==
  ASSUME TypeOK, TurnIds, NEW n, Available(n)
  PROVE  n \in Turns /\ turns[n].phase = "unused"
<1>1. n = NewTurn => n > minted
  BY BoundsAssumption DEF TypeOK, NewTurn
<1> QED
  BY <1>1 DEF Available, TurnIds

(* Ids stay fresh. *)
LEMMA TurnIdsStep ==
  ASSUME TypeOK, TypeOK', TurnIds, TurnClass
  PROVE  TurnIds'
<1>1. /\ minted \in Nat /\ minted' \in Nat /\ NewTurn = minted + 1
      /\ \A t \in Turns : t \in Nat
  BY BoundsAssumption DEF TypeOK, Turns, NewTurn
<1>2. /\ \A e \in schedule.queued : e.turn \in Turns
      /\ \A e \in schedule'.queued : e.turn \in Turns
  BY DEF TypeOK, ScheduleSet, ReviewEntry
<1>3. QueueStep
  BY DEF TurnClass, Stays, Rests, Begins, Available
<1>4. minted' >= minted
  BY <1>1, <1>3 DEF QueueStep
<1>5. \A e, f \in schedule'.queued : e.turn = f.turn => e = f
  BY <1>1, <1>2, <1>3 DEF QueueStep, TurnIds
<1>6. ASSUME NEW e \in schedule'.queued
      PROVE  e.turn <= minted' /\ turns[e.turn].phase = "unused"
  <2>1. CASE e \in schedule.queued
    BY <1>1, <1>2, <1>4, <2>1 DEF TurnIds
  <2>2. CASE e.turn = NewTurn /\ minted' = NewTurn
    BY <1>1, <1>2, <2>2 DEF TurnIds
  <2> QED
    BY <1>3, <2>1, <2>2 DEF QueueStep
<1>7. CASE Stays \/ Rests
  <2>1. \A t \in Turns : turns[t].phase = "unused" => turns'[t].phase = "unused"
    BY <1>7 DEF Stays, Rests, AllCarried, Carried
  <2>2. \A t \in Turns : t > minted' => t > minted
    BY <1>1, <1>4
  <2> QED
    BY <1>2, <1>5, <1>6, <2>1, <2>2 DEF TurnIds
<1>8. ASSUME NEW n, NEW trigger, NEW m, Begins(n, trigger, m)
      PROVE  TurnIds'
  <2>1. \A t \in Turns : t # n /\ turns[t].phase = "unused" => turns'[t].phase = "unused"
    BY <1>8 DEF Begins, Begun, Carried
  <2>2. n \in Turns /\ \A e \in schedule'.queued : e.turn # n
    BY <1>8 DEF Begins, Available
  <2>3. n <= minted'
    <3>1. CASE n = NewTurn /\ minted' = NewTurn
      BY <1>1, <3>1
    <3>2. CASE \E e \in schedule.queued : e.turn = n
      BY <1>1, <1>2, <1>4, <3>2 DEF TurnIds
    <3> QED
      BY <1>8, <3>1, <3>2 DEF Begins, Available
  <2>4. \A t \in Turns : t > minted' => t > minted /\ t # n
    BY <1>1, <1>4, <2>2, <2>3
  <2> QED
    BY <1>2, <1>5, <1>6, <2>1, <2>2, <2>4 DEF TurnIds
<1> QED
  BY <1>7, <1>8 DEF TurnClass

(* Every class keeps the turns in order. *)
LEMMA TurnInvStep ==
  ASSUME TypeOK, TypeOK', TurnInv, TurnClass
  PROVE  TurnInv'
<1>1. TurnIds'
  BY TurnIdsStep DEF TurnInv
<1>2. CASE Stays
  <2>1. AllCarried /\ active' = active /\ runs \subseteq runs'
    BY <1>2 DEF Stays
  <2>2. ActiveIsUnfinished'
    BY <1>2 DEF Stays, ActiveIsUnfinished
  <2>3. ClearedIsCancelled' /\ UserHasMessage'
    BY <2>1 DEF AllCarried, Carried, TurnInv, ClearedIsCancelled, UserHasMessage
  <2>4. AcceptedRunIsMarked'
    BY <2>1 DEF AllCarried, Carried, TurnInv, AcceptedRunIsMarked, Unfinished
  <2> QED
    BY <1>1, <2>2, <2>3, <2>4 DEF TurnInv
<1>3. CASE Rests
  <2>1. AllCarried /\ active' = NoTurn
    BY <1>3 DEF Rests
  <2>2. ActiveIsUnfinished' /\ AcceptedRunIsMarked'
    BY <2>1 DEF ActiveIsUnfinished, AcceptedRunIsMarked, Turns, NoTurn
  <2>3. ClearedIsCancelled' /\ UserHasMessage'
    BY <2>1 DEF AllCarried, Carried, TurnInv, ClearedIsCancelled, UserHasMessage
  <2> QED
    BY <1>1, <2>2, <2>3 DEF TurnInv
<1>4. ASSUME NEW n, NEW trigger, NEW m, Begins(n, trigger, m)
      PROVE  TurnInv'
  <2>1. /\ active' = n /\ turns'[n].phase = "running" /\ turns'[n].run = NoRun
        /\ turns'[n].trigger = "user" => turns'[n].message \in Messages
        /\ \A x \in Turns : x # n => Carried(x)
    BY <1>4 DEF Begins, Begun
  <2>2. ActiveIsUnfinished' /\ AcceptedRunIsMarked'
    BY <2>1 DEF ActiveIsUnfinished, AcceptedRunIsMarked, Unfinished
  <2>3. ClearedIsCancelled' /\ UserHasMessage'
    BY <2>1 DEF Carried, TurnInv, ClearedIsCancelled, UserHasMessage
  <2> QED
    BY <1>1, <2>2, <2>3 DEF TurnInv
<1> QED
  BY <1>2, <1>3, <1>4 DEF TurnClass

(* A session starts without a turn. *)
LEMMA TurnInvInit == Init => TurnInv
<1> SUFFICES ASSUME Init PROVE TurnInv
  OBVIOUS
<1>1. \A t \in Turns : turns[t].phase = "unused" /\ turns[t].trigger = "none"
  BY DEF Init, UnusedTurn
<1>2. schedule.queued = {} /\ active = NoTurn
  BY DEF Init, EmptySchedule
<1> QED
  BY <1>1, <1>2 DEF TurnInv, TurnIds, ActiveIsUnfinished, ClearedIsCancelled, UserHasMessage,
     AcceptedRunIsMarked, Unfinished

(* A turn id is dispatched at most once, also by a continuation whose id was minted
   long before; and the active turn of a session has yet to report. *)
THEOREM TurnsInOrder == Spec => []TurnInv
<1>1. TypeOK /\ TypeOK' /\ TurnInv /\ [Next]_vars => TurnInv'
  BY EveryStepHasATurnClass, TurnInvStep
<1> QED
  BY <1>1, TurnInvInit, SessionTypeCorrect, PTL DEF Spec

(* execution_run_started and execution_terminal: the run that the active turn
   started is marked until the turn reports, so record_turn_outcome never refuses
   its accepted outcome. *)
THEOREM AcceptedRunsAreMarked == Spec => []AcceptedRunIsMarked
<1>1. TurnInv => AcceptedRunIsMarked
  BY DEF TurnInv
<1> QED
  BY <1>1, TurnsInOrder, PTL

--------------------------------------------------------------------------------
(* One coordinator, as long as no durable run wakes the session.              *)

(* The active turn alone is unfinished. *)
LEMMA CoordinatorStep ==
  ASSUME Runs = {}, TypeOK, TurnClass, SingleCoordinator
  PROVE  SingleCoordinator'
<1> SUFFICES ASSUME initialized', NEW t \in Turns, Unfinished(t)'
             PROVE  active' = t
  BY DEF SingleCoordinator
<1>1. t # NoTurn
  BY DEF Turns, NoTurn
<1>2. ASSUME Carried(t), initialized
      PROVE  active = t /\ turns'[t].phase # "reported"
  <2>1. Unfinished(t)
    BY <1>2 DEF Carried, Unfinished
  <2> QED
    BY <1>2, <2>1 DEF SingleCoordinator, Unfinished
<1>3. CASE Stays
  BY <1>2, <1>3 DEF Stays, AllCarried
<1>4. CASE Rests
  BY <1>1, <1>2, <1>4 DEF Rests, AllCarried, ActiveEnds
<1>5. ASSUME NEW n, NEW trigger, NEW m, Begins(n, trigger, m)
      PROVE  active' = t
  BY <1>1, <1>2, <1>5 DEF Begins, Begun, ActiveEnds
<1> QED
  BY <1>3, <1>4, <1>5 DEF TurnClass

(* Without durable runs a session has one coordinator at a time: whatever the order
   of messages, outcomes, reviews and child signals, no handler dispatches a turn
   while another is unfinished.  execution_terminal is the exception: with it the
   property does not hold. *)
THEOREM OneCoordinator ==
  ASSUME Runs = {}
  PROVE  Spec => []SingleCoordinator
<1>1. Init => SingleCoordinator
  BY DEF Init, SingleCoordinator, Unfinished, UnusedTurn
<1>2. TypeOK /\ TurnInv /\ SingleCoordinator /\ [Next]_vars => SingleCoordinator'
  BY EveryStepHasATurnClass, CoordinatorStep
<1> QED
  BY <1>1, <1>2, SessionTypeCorrect, TurnsInOrder, PTL DEF Spec

--------------------------------------------------------------------------------
(* The question the user sees.                                                *)

(* An advertised question is the parked one, and its turn is active and waits. *)
AskedIsParked ==
  \A input \in inputs :
    /\ active = input.turn /\ parked = input /\ input.turn # NoTurn
    /\ turns[input.turn].phase = "waiting"
    /\ turns[input.turn].generation = input.generation

(* A step that keeps the active turn, its question and its park. *)
LEMMA QuestionKept ==
  ASSUME TypeOK, AskedIsParked, inputs' \subseteq inputs, active' = active, parked' = parked,
         \A t \in Turns : active = t =>
           /\ turns'[t].generation = turns[t].generation
           /\ turns'[t].phase = turns[t].phase
  PROVE  AskedIsParked'
<1> SUFFICES ASSUME NEW input \in inputs'
             PROVE  /\ active' = input.turn /\ parked' = input /\ input.turn # NoTurn
                    /\ turns'[input.turn].phase = "waiting"
                    /\ turns'[input.turn].generation = input.generation
  BY DEF AskedIsParked
<1>1. input \in inputs
  OBVIOUS
<1>2. input.turn \in Turns
  BY <1>1 DEF AskedIsParked, TypeOK, OwnerSet, TurnOrNone
<1> QED
  BY <1>1, <1>2 DEF AskedIsParked

(* A session that is idle, or whose active turn may report, shows no question. *)
LEMMA NoQuestion ==
  ASSUME TypeOK, AskedIsParked,
         active = NoTurn \/ \E t \in Turns : \E kind : active = t /\ Reports(t, kind)
  PROVE  inputs = {}
BY DEF AskedIsParked, Reports

(* start_turn and record_turn_outcome *)
LEMMA QuestionTurn ==
  ASSUME TypeOK, AskedIsParked,
         \/ \E m \in Messages : StartTurnIdle(m) \/ StartTurnQueued(m)
         \/ \E m \in Messages : \E input \in inputs : StartTurnReply(m, input)
         \/ \E t \in Turns : \/ RecordTurnOutcome(t)
                             \/ \E elapsed \in BOOLEAN : OutcomeResumesParent(t, elapsed)
  PROVE  AskedIsParked'
<1>1. ASSUME NEW m, StartTurnIdle(m)
      PROVE  AskedIsParked'
  BY <1>1, NoQuestion DEF StartTurnIdle, AskedIsParked
<1>2. ASSUME NEW m, StartTurnQueued(m)
      PROVE  AskedIsParked'
  BY <1>2, QuestionKept DEF StartTurnQueued, stateVars
<1>3. ASSUME NEW m, NEW input \in inputs, StartTurnReply(m, input)
      PROVE  AskedIsParked'
  <2>1. inputs' = {}
    BY <1>3 DEF StartTurnReply, AskedIsParked
  <2> QED
    BY <2>1 DEF AskedIsParked
<1>4. ASSUME NEW t \in Turns, NEW kind, OutcomeStale(t, kind)
      PROVE  AskedIsParked'
  <2>1. turns' = Reported(t, kind) /\ active # t /\ UNCHANGED <<inputs, active, parked>>
    BY <1>4 DEF OutcomeStale, stateVars
  <2>2. \A x \in Turns : x # t => turns'[x] = turns[x]
    BY <2>1 DEF Reported, TypeOK
  <2> QED
    BY <2>1, <2>2, QuestionKept
<1>5. ASSUME NEW t \in Turns, NEW kind, SettleActive(t, kind)
      PROVE  AskedIsParked'
  <2>1. inputs = {} /\ inputs' = inputs
    BY <1>5, NoQuestion DEF SettleActive
  <2> QED
    BY <2>1 DEF AskedIsParked
<1> QED
  BY <1>1, <1>2, <1>3, <1>4, <1>5
  DEF RecordTurnOutcome, OutcomeContinues, OutcomeDispatchesNext, OutcomeIdles,
      OutcomeResumesParent

(* cancel, request_cancel, destroy and the coordinator's input *)
LEMMA QuestionCancel ==
  ASSUME TypeOK, AskedIsParked,
         \/ RequestCancel \/ Destroy \/ \E scope \in CancelKinds : Cancel(scope)
         \/ \E t \in Turns : RegisterCoordinatorInput(t) \/ ClearCoordinatorInput(t)
  PROVE  AskedIsParked'
<1>1. ASSUME RequestCancel \/ \E scope \in CancelKinds : Cancel(scope)
      PROVE  AskedIsParked'
  <2>1. UNCHANGED <<inputs, active, parked>>
    BY <1>1 DEF RequestCancel, Cancel, pendingVars, stateVars
  <2>2. turns' = turns \/ (active # NoTurn /\ turns' = WithCancel(active))
    BY <1>1 DEF RequestCancel, Cancel, WithCancel
  <2>3. ASSUME NEW t \in Turns, active = t
        PROVE  turns'[t].generation = turns[t].generation /\ turns'[t].phase = turns[t].phase
    BY <2>2, <2>3, CancelCarried
  <2> QED
    BY <2>1, <2>3, QuestionKept
<1>2. CASE Destroy
  BY <1>2 DEF Destroy, AskedIsParked
<1>3. ASSUME NEW t \in Turns, RegisterCoordinatorInput(t)
      PROVE  AskedIsParked'
  <2>1. inputs = {}
    BY <1>3 DEF RegisterCoordinatorInput, Parked, AskedIsParked
  <2>2. Unfinished(t) /\ turns' = WithPhase(t, "waiting")
    BY <1>3 DEF RegisterCoordinatorInput, Asks, Unfinished, WithPhase
  <2>3. turns'[t].phase = "waiting" /\ turns'[t].generation = turns[t].generation
    BY <2>2, PhaseCarried
  <2>4. InputOf(t).turn = t /\ InputOf(t).generation = turns[t].generation /\ t # NoTurn
    BY DEF InputOf, OwnerOf, Turns, NoTurn
  <2>5. inputs' = {InputOf(t)} /\ parked' = InputOf(t) /\ active' = t
    BY <1>3, <2>1 DEF RegisterCoordinatorInput
  <2> QED
    BY <2>3, <2>4, <2>5 DEF AskedIsParked
<1>4. ASSUME NEW t \in Turns, ClearCoordinatorInput(t)
      PROVE  AskedIsParked'
  <2>1. Unfinished(t) /\ turns[t].cancel /\ turns' = WithPhase(t, "cleared")
    BY <1>4 DEF ClearCoordinatorInput, Unfinished, WithPhase
  <2>2. \A x \in Turns : x # t => turns'[x] = turns[x]
    BY <2>1, PhaseCarried
  <2>3. inputs' = inputs \ {InputOf(t)} /\ UNCHANGED <<active, parked>>
    BY <1>4 DEF ClearCoordinatorInput, InputsAfterClear, pendingVars
  <2>4. CASE active = t
    <3>1. ASSUME NEW input \in inputs PROVE input = InputOf(t)
      BY <2>4 DEF AskedIsParked, InputOf, OwnerOf, TypeOK, OwnerSet
    <3>2. inputs' = {}
      BY <2>3, <3>1
    <3> QED
      BY <3>2 DEF AskedIsParked
  <2>5. CASE active # t
    BY <2>2, <2>3, <2>5, QuestionKept
  <2> QED
    BY <2>4, <2>5
<1> QED
  BY <1>1, <1>2, <1>3, <1>4

(* Reviews, child signals, waiters, heartbeats and the clock *)
LEMMA QuestionOther ==
  ASSUME TypeOK, AskedIsParked,
         \/ \E t \in Turns : \E review \in Reviews : RegisterActionReview(t, review)
         \/ \E review \in Reviews : ReviewDropped(review) \/ ReviewResolved(review)
         \/ \E review \in Reviews : \E resumeQueued \in BOOLEAN :
              ReleaseActionReview(review, resumeQueued)
         \/ \E s \in Signals : \E elapsed \in BOOLEAN : RecordChildSignal(s, elapsed)
         \/ \E w \in Waiters : \E t \in Turns : AttachTurnWaiter(w, t)
         \/ \E w \in Waiters : RemoveTurnWaiter(w)
         \/ TurnAdmissionHeartbeat \/ LeaseExpires \/ Tick \/ UNCHANGED vars
  PROVE  AskedIsParked'
<1>1. inputs' = inputs /\ parked' = parked
  BY DEF RegisterActionReview, ReviewDropped, ReviewResolved, ReleaseActionReview, KeptByReview,
         RecordChildSignal, AttachTurnWaiter, RemoveTurnWaiter, TurnAdmissionHeartbeat,
         LeaseExpires, Tick, vars, pendingVars, stateVars, otherVars
<1>2. active = NoTurn \/ UNCHANGED <<active, turns>>
  BY DEF RegisterActionReview, ReviewDropped, ReviewResolved, ReleaseActionReview, OnlySchedules,
         RecordChildSignal, Wakes, AttachTurnWaiter, RemoveTurnWaiter, TurnAdmissionHeartbeat,
         LeaseExpires, Tick, vars, pendingVars, stateVars, otherVars
<1>3. CASE active = NoTurn
  BY <1>1, <1>3, NoQuestion DEF AskedIsParked
<1>4. CASE UNCHANGED <<active, turns>>
  BY <1>1, <1>4, QuestionKept
<1> QED
  BY <1>2, <1>3, <1>4

(* The strengthening holds. *)
LEMMA QuestionsAreParked ==
  ASSUME Runs = {}
  PROVE  Spec => []AskedIsParked
<1>1. Init => AskedIsParked
  BY DEF Init, AskedIsParked
<1>2. TypeOK /\ AskedIsParked /\ [Next]_vars => AskedIsParked'
  BY QuestionTurn, QuestionCancel, QuestionOther DEF Next
<1> QED
  BY <1>1, <1>2, SessionTypeCorrect, PTL DEF Spec

(* Without durable runs a question that is shown to the user can be answered: its
   turn is the active one, is parked under the question's generation, and start_turn
   delivers the reply instead of refusing it as stale.  A synthesis turn of
   execution_terminal that overtakes the waiting turn breaks this. *)
THEOREM QuestionsAreAnswerable ==
  ASSUME Runs = {}
  PROVE  Spec => []QuestionIsAnswerable
<1>1. AskedIsParked => QuestionIsAnswerable
  BY DEF AskedIsParked, QuestionIsAnswerable
<1> QED
  BY <1>1, QuestionsAreParked, PTL

--------------------------------------------------------------------------------
(* The lease.                                                                 *)

(* What a step may do to the admission of the active turn. *)
CoverStep ==
  AdmissionIsLive' =>
    \/ Covered'
    \/ AdmissionIsLive /\ ~Covered
    \/ active = NoTurn /\ turns'[active'].trigger = "review"

(* What the admission depends on does not change. *)
LEMMA CoverKept ==
  ASSUME UNCHANGED <<active, parked, lease, beating>>
  PROVE  CoverStep
BY DEF CoverStep, Covered, AdmissionIsLive, Parked

(* start_turn acquires for an idle session and for the turn it resumes. *)
LEMMA CoverStart ==
  ASSUME \/ \E m \in Messages : StartTurnIdle(m) \/ StartTurnQueued(m)
         \/ \E m \in Messages : \E input \in inputs : StartTurnReply(m, input)
  PROVE  CoverStep
<1>1. ASSUME NEW m, StartTurnIdle(m)
      PROVE  CoverStep
  BY <1>1 DEF StartTurnIdle, ArmHeartbeat, CoverStep, Covered
<1>2. ASSUME NEW m, StartTurnQueued(m)
      PROVE  CoverStep
  BY <1>2, CoverKept DEF StartTurnQueued
<1>3. ASSUME NEW m, NEW input \in inputs, StartTurnReply(m, input)
      PROVE  CoverStep
  BY <1>3 DEF StartTurnReply, ArmHeartbeat, CoverStep, Covered
<1> QED
  BY <1>1, <1>2, <1>3

(* reacquire_parked_turn_admission_for_dispatch: the next turn takes the lease over
   from a turn that was running, or acquires after one that was parked. *)
LEMMA CoverHandedOver ==
  ASSUME active # NoTurn, ReacquireIfParked
  PROVE  CoverStep
<1>1. CASE Parked
  BY <1>1 DEF ReacquireIfParked, ArmHeartbeat, CoverStep, Covered
<1>2. CASE ~Parked
  BY <1>2 DEF ReacquireIfParked, CoverStep, Covered, AdmissionIsLive
<1> QED
  BY <1>1, <1>2

(* record_turn_outcome hands over or goes idle. *)
LEMMA CoverOutcome ==
  ASSUME NEW t \in Turns,
         RecordTurnOutcome(t) \/ \E elapsed \in BOOLEAN : OutcomeResumesParent(t, elapsed)
  PROVE  CoverStep
<1>1. t # NoTurn
  BY DEF Turns, NoTurn
<1>2. ASSUME NEW kind, OutcomeStale(t, kind)
      PROVE  CoverStep
  BY <1>2, CoverKept DEF OutcomeStale
<1>3. ASSUME NEW kind, NEW entry, OutcomeContinues(t, kind, entry)
      PROVE  CoverStep
  BY <1>1, <1>3, CoverHandedOver DEF OutcomeContinues, SettleActive
<1>4. ASSUME NEW kind, OutcomeDispatchesNext(t, kind)
      PROVE  CoverStep
  BY <1>1, <1>4, CoverHandedOver DEF OutcomeDispatchesNext, SettleActive
<1>5. ASSUME NEW elapsed, OutcomeResumesParent(t, elapsed)
      PROVE  CoverStep
  BY <1>1, <1>5, CoverHandedOver DEF OutcomeResumesParent, SettleActive
<1>6. ASSUME NEW kind, NEW elapsed, OutcomeIdles(t, kind, elapsed)
      PROVE  CoverStep
  BY <1>6 DEF OutcomeIdles, CoverStep, AdmissionIsLive
<1> QED
  BY <1>2, <1>3, <1>4, <1>5, <1>6 DEF RecordTurnOutcome

(* Action reviews dispatch on an idle session and nowhere else. *)
LEMMA CoverReview ==
  ASSUME TypeOK, TypeOK', NEW review \in Reviews,
         \/ ReviewDropped(review) \/ ReviewResolved(review)
         \/ \E resumeQueued \in BOOLEAN : ReleaseActionReview(review, resumeQueued)
  PROVE  CoverStep
<1>1. UNCHANGED <<parked, lease, beating>>
  BY DEF ReviewDropped, ReviewResolved, ReleaseActionReview, KeptByReview
<1>2. ASSUME NEW s, NEW entry, active = NoTurn, DispatchContinuation(s, entry)
      PROVE  CoverStep
  <2>1. /\ active' = entry.turn
        /\ turns' = [turns EXCEPT ![entry.turn] =
                       RunTurn("review", NoMessage, entry.generation)]
    BY <1>2 DEF DispatchContinuation
  <2>2. RunTurn("review", NoMessage, entry.generation).trigger = "review"
    BY DEF RunTurn, UnusedTurn
  <2>3. CASE entry.turn \in Turns
    BY <1>2, <2>1, <2>2, <2>3 DEF CoverStep, TypeOK
  <2>4. CASE entry.turn \notin Turns
    <3>1. active' \in TurnOrNone
      BY DEF TypeOK
    <3> QED
      BY <2>1, <2>4, <3>1 DEF TurnOrNone, CoverStep, AdmissionIsLive
  <2> QED
    BY <2>3, <2>4
<1>3. ASSUME NEW s, OnlySchedules(s)
      PROVE  CoverStep
  BY <1>1, <1>3, CoverKept DEF OnlySchedules
<1> QED
  BY <1>2, <1>3 DEF ReviewDropped, ReviewResolved, ReleaseActionReview

(* The other handlers, the heartbeat, expiry and the clock. *)
LEMMA CoverOther ==
  ASSUME \/ RequestCancel \/ Destroy \/ \E scope \in CancelKinds : Cancel(scope)
         \/ \E t \in Turns : RegisterCoordinatorInput(t) \/ ClearCoordinatorInput(t)
         \/ \E t \in Turns : \E review \in Reviews : RegisterActionReview(t, review)
         \/ \E t \in Turns : \E run \in Runs : ExecutionRunStarted(t, run)
         \/ \E run \in Runs : ExecutionTerminal(run)
         \/ \E s \in Signals : \E elapsed \in BOOLEAN : RecordChildSignal(s, elapsed)
         \/ \E w \in Waiters : \E t \in Turns : AttachTurnWaiter(w, t)
         \/ \E w \in Waiters : RemoveTurnWaiter(w)
         \/ TurnAdmissionHeartbeat \/ LeaseExpires \/ Tick \/ UNCHANGED vars
  PROVE  CoverStep
<1>1. ASSUME \/ RequestCancel \/ \E scope \in CancelKinds : Cancel(scope)
             \/ \E t \in Turns : ClearCoordinatorInput(t)
             \/ \E t \in Turns : \E review \in Reviews : RegisterActionReview(t, review)
             \/ \E t \in Turns : \E run \in Runs : ExecutionRunStarted(t, run)
             \/ \E w \in Waiters : \E t \in Turns : AttachTurnWaiter(w, t)
             \/ \E w \in Waiters : RemoveTurnWaiter(w)
             \/ Tick \/ UNCHANGED vars
      PROVE  CoverStep
  <2>1. UNCHANGED <<active, parked, lease, beating>>
    BY <1>1 DEF RequestCancel, Cancel, ClearCoordinatorInput, RegisterActionReview,
       ExecutionRunStarted, AttachTurnWaiter, RemoveTurnWaiter, Tick, vars, pendingVars,
       stateVars, otherVars
  <2> QED
    BY <2>1, CoverKept
<1>2. CASE Destroy
  BY <1>2 DEF Destroy, CoverStep, AdmissionIsLive
<1>3. ASSUME NEW t \in Turns, RegisterCoordinatorInput(t)
      PROVE  CoverStep
  BY <1>3 DEF RegisterCoordinatorInput, InputOf, OwnerOf, Turns, NoTurn, CoverStep,
     AdmissionIsLive, Parked
<1>4. ASSUME NEW run, ExecutionTerminal(run)
      PROVE  CoverStep
  BY <1>4 DEF ExecutionTerminal, ArmHeartbeat, CoverStep, Covered
<1>5. ASSUME NEW s, NEW elapsed, RecordChildSignal(s, elapsed)
      PROVE  CoverStep
  <2>1. CASE Wakes(s, elapsed)
    BY <1>5, <2>1 DEF RecordChildSignal, ArmHeartbeat, CoverStep, Covered
  <2>2. CASE ~Wakes(s, elapsed)
    BY <1>5, <2>2, CoverKept DEF RecordChildSignal
  <2> QED
    BY <2>1, <2>2
<1>6. CASE TurnAdmissionHeartbeat
  BY <1>6 DEF TurnAdmissionHeartbeat, pendingVars, CoverStep, Covered, AdmissionIsLive, Parked
<1>7. CASE LeaseExpires
  BY <1>7 DEF LeaseExpires, Renewed, pendingVars, CoverStep, Covered, AdmissionIsLive, Parked
<1> QED
  BY <1>1, <1>2, <1>3, <1>4, <1>5, <1>6, <1>7

(* Only a review continuation that was dispatched on an idle session makes a turn run
   without a renewed lease, with durable runs, reviews, signals, parking and
   cancellation in any order. *)
THEOREM LeasesCoverTurns == Spec => OnlyContinuationsGoUncovered
<1>1. TypeOK /\ TypeOK' /\ [Next]_vars => CoverStep
  BY CoverStart, CoverOutcome, CoverReview, CoverOther DEF Next
<1> QED
  BY <1>1, SessionTypeCorrect, PTL DEF Spec, OnlyContinuationsGoUncovered, CoverStep

--------------------------------------------------------------------------------
(* The scope of a cancellation.                                               *)

(* The active turn's cancellation is what it was. *)
ScopeKept ==
  /\ cancellation' = cancellation
  /\ "request" \in CancelKinds \/ turns'[active].cancel = turns[active].cancel

(* An outcome of the active turn makes another turn active, or none. *)
LEMMA SettleMovesOn ==
  ASSUME TypeOK, TurnInv, NEW t \in Turns, active = t,
         \/ \E kind : \E entry \in schedule.queued : OutcomeContinues(t, kind, entry)
         \/ \E kind : OutcomeDispatchesNext(t, kind)
         \/ \E kind : \E elapsed \in BOOLEAN : OutcomeIdles(t, kind, elapsed)
         \/ \E elapsed \in BOOLEAN : OutcomeResumesParent(t, elapsed)
  PROVE  active' # active
<1>1. t # NoTurn
  BY DEF Turns, NoTurn
<1>2. ASSUME NEW kind, NEW entry \in schedule.queued, OutcomeContinues(t, kind, entry)
      PROVE  active' # active
  BY <1>2, SettleFacts DEF OutcomeContinues, SettleActive
<1>3. ASSUME NEW kind, OutcomeDispatchesNext(t, kind)
      PROVE  active' # active
  BY <1>3, SettleFacts DEF OutcomeDispatchesNext, SettleActive
<1>4. ASSUME NEW kind, NEW elapsed, OutcomeIdles(t, kind, elapsed)
      PROVE  active' # active
  BY <1>1, <1>4 DEF OutcomeIdles
<1>5. ASSUME NEW elapsed, OutcomeResumesParent(t, elapsed)
      PROVE  active' # active
  BY <1>5, SettleFacts DEF OutcomeResumesParent, SettleActive
<1> QED
  BY <1>2, <1>3, <1>4, <1>5

(* As long as a turn stays active, only cancel and request_cancel touch its
   cancellation. *)
LEMMA ScopeStep ==
  ASSUME TypeOK, TurnInv, [Next]_vars, active # NoTurn, active' = active
  PROVE  ScopeKept \/ \E scope \in CancelKinds : Cancel(scope)
<1>1. PICK a \in Turns : a = active
  BY DEF TypeOK, TurnOrNone
<1>2. Unfinished(a)
  BY <1>1 DEF TurnInv, ActiveIsUnfinished
<1>3. ASSUME NEW m \in Messages, \/ StartTurnIdle(m) \/ StartTurnQueued(m)
                                 \/ \E input \in inputs : StartTurnReply(m, input)
      PROVE  ScopeKept
  <2>1. ASSUME NEW input \in inputs, StartTurnReply(m, input)
        PROVE  ScopeKept
    <3>1. turns' = WithPhase(a, "answered") /\ cancellation' = cancellation
      BY <1>1, <2>1 DEF StartTurnReply, WithPhase
    <3> QED
      BY <1>1, <1>2, <3>1, PhaseCarried DEF ScopeKept
  <2> QED
    BY <1>3, <2>1 DEF ScopeKept, StartTurnIdle, StartTurnQueued
<1>4. ASSUME NEW t \in Turns, NEW kind, OutcomeStale(t, kind)
      PROVE  ScopeKept
  <2>1. turns' = Reported(t, kind) /\ active # t /\ cancellation' = cancellation
    BY <1>4 DEF OutcomeStale
  <2>2. turns'[a] = turns[a]
    BY <1>1, <2>1 DEF Reported, TypeOK
  <2> QED
    BY <1>1, <2>1, <2>2 DEF ScopeKept
<1>5. ASSUME NEW t \in Turns,
             RecordTurnOutcome(t) \/ \E elapsed \in BOOLEAN : OutcomeResumesParent(t, elapsed)
      PROVE  ScopeKept
  BY <1>4, <1>5, SettleMovesOn
  DEF RecordTurnOutcome, OutcomeContinues, OutcomeDispatchesNext, OutcomeIdles,
      OutcomeResumesParent, SettleActive
<1>6. CASE RequestCancel
  BY <1>6 DEF RequestCancel, ScopeKept, pendingVars
<1>7. CASE Destroy
  BY <1>7 DEF Destroy
<1>8. ASSUME NEW t \in Turns, RegisterCoordinatorInput(t) \/ ClearCoordinatorInput(t)
      PROVE  ScopeKept
  <2>1. PICK p \in {"waiting", "cleared"} :
          Unfinished(t) /\ (p = "cleared" => turns[t].cancel) /\ turns' = WithPhase(t, p)
    BY <1>8 DEF RegisterCoordinatorInput, ClearCoordinatorInput, Asks, Unfinished, WithPhase
  <2>2. turns'[a].cancel = turns[a].cancel
    BY <1>1, <2>1, PhaseCarried
  <2>3. cancellation' = cancellation
    BY <1>8 DEF RegisterCoordinatorInput, ClearCoordinatorInput, pendingVars
  <2> QED
    BY <1>1, <2>2, <2>3 DEF ScopeKept
<1>9. ASSUME NEW review \in Reviews,
             \/ \E t \in Turns : RegisterActionReview(t, review)
             \/ ReviewDropped(review) \/ ReviewResolved(review)
             \/ \E resumeQueued \in BOOLEAN : ReleaseActionReview(review, resumeQueued)
      PROVE  ScopeKept
  BY <1>9 DEF ScopeKept, RegisterActionReview, ReviewDropped, ReviewResolved,
              ReleaseActionReview, KeptByReview, OnlySchedules
<1>10. ASSUME NEW run \in Runs,
              ExecutionTerminal(run) \/ \E t \in Turns : ExecutionRunStarted(t, run)
       PROVE  ScopeKept
  <2>1. CASE ExecutionTerminal(run)
    BY <1>1, <1>2, <2>1, NewIsUnused DEF ExecutionTerminal, ActiveAfterSynthesis, TurnInv,
       Unfinished
  <2>2. ASSUME NEW t \in Turns, ExecutionRunStarted(t, run)
        PROVE  ScopeKept
    <3>1. run \in runs' /\ turns' = WithRun(t, run) /\ cancellation' = cancellation
      BY <2>2 DEF ExecutionRunStarted, WithRun, pendingVars
    <3> QED
      BY <1>1, <3>1, RunCarried DEF ScopeKept
  <2> QED
    BY <1>10, <2>1, <2>2
<1>11. ASSUME \/ \E s \in Signals : \E elapsed \in BOOLEAN : RecordChildSignal(s, elapsed)
              \/ \E w \in Waiters : \E t \in Turns : AttachTurnWaiter(w, t)
              \/ \E w \in Waiters : RemoveTurnWaiter(w)
              \/ TurnAdmissionHeartbeat \/ LeaseExpires \/ Tick \/ UNCHANGED vars
       PROVE  ScopeKept
  BY <1>11 DEF ScopeKept, RecordChildSignal, Wakes, AttachTurnWaiter, RemoveTurnWaiter,
               TurnAdmissionHeartbeat, LeaseExpires, Tick, vars, pendingVars, otherVars
<1> QED
  BY <1>3, <1>5, <1>6, <1>7, <1>8, <1>9, <1>10, <1>11 DEF Next

(* A turn that becomes active was never dispatched before and is not cancelled. *)
LEMMA ActivatedIsNew ==
  ASSUME TypeOK, TurnInv, TurnClass, active' # active, active' # NoTurn
  PROVE  active' \in Turns /\ turns[active'].phase = "unused" /\ ~turns'[active'].cancel
<1>1. PICK n, trigger, m : Begins(n, trigger, m)
  BY DEF TurnClass, Stays, Rests
<1> QED
  BY <1>1, BeginsUnused DEF Begins, Begun, TurnInv

--------------------------------------------------------------------------------
(* The end of the fence.                                                      *)

(* What changes the recorded cancellation. *)
LEMMA CancellationSteps ==
  ASSUME [Next]_vars
  PROVE  \/ \E scope \in CancelKinds : Cancel(scope)
         \/ Destroy
         \/ \E t \in Turns : \/ RecordTurnOutcome(t)
                            \/ \E elapsed \in BOOLEAN : OutcomeResumesParent(t, elapsed)
         \/ UNCHANGED cancellation
<1>1. ASSUME \/ \E m \in Messages : StartTurnIdle(m) \/ StartTurnQueued(m)
             \/ \E m \in Messages : \E input \in inputs : StartTurnReply(m, input)
             \/ RequestCancel
             \/ \E t \in Turns : RegisterCoordinatorInput(t) \/ ClearCoordinatorInput(t)
      PROVE  UNCHANGED cancellation
  BY <1>1 DEF StartTurnIdle, StartTurnQueued, StartTurnReply, RequestCancel,
              RegisterCoordinatorInput, ClearCoordinatorInput, pendingVars
<1>2. ASSUME \/ \E t \in Turns : \E review \in Reviews : RegisterActionReview(t, review)
             \/ \E review \in Reviews : ReviewDropped(review) \/ ReviewResolved(review)
             \/ \E review \in Reviews : \E resumeQueued \in BOOLEAN :
                  ReleaseActionReview(review, resumeQueued)
      PROVE  UNCHANGED cancellation
  BY <1>2 DEF RegisterActionReview, ReviewDropped, ReviewResolved, ReleaseActionReview,
              KeptByReview, pendingVars
<1>3. ASSUME \/ \E t \in Turns : \E run \in Runs : ExecutionRunStarted(t, run)
             \/ \E run \in Runs : ExecutionTerminal(run)
             \/ \E s \in Signals : \E elapsed \in BOOLEAN : RecordChildSignal(s, elapsed)
             \/ \E w \in Waiters : \E t \in Turns : AttachTurnWaiter(w, t)
             \/ \E w \in Waiters : RemoveTurnWaiter(w)
             \/ TurnAdmissionHeartbeat \/ LeaseExpires \/ Tick \/ UNCHANGED vars
      PROVE  UNCHANGED cancellation
  BY <1>3 DEF ExecutionRunStarted, ExecutionTerminal, RecordChildSignal, AttachTurnWaiter,
              RemoveTurnWaiter, TurnAdmissionHeartbeat, LeaseExpires, Tick, vars, pendingVars
<1> QED
  BY <1>1, <1>2, <1>3 DEF Next

(* An outcome gives up the cancellation of the turn it reports, and no other. *)
LEMMA OutcomeLifts ==
  ASSUME TypeOK, TurnInv, NEW t \in Turns,
         RecordTurnOutcome(t) \/ \E elapsed \in BOOLEAN : OutcomeResumesParent(t, elapsed)
  PROVE  \/ UNCHANGED cancellation
         \/ cancellation.turn = t /\ turns'[t].phase = "reported"
<1>1. ASSUME NEW kind, SettleActive(t, kind), turns'[t].phase = "reported"
      PROVE  \/ UNCHANGED cancellation
             \/ cancellation.turn = t /\ turns'[t].phase = "reported"
  BY <1>1 DEF SettleActive, CancellationAfter
<1>2. ASSUME NEW kind, NEW entry \in schedule.queued, OutcomeContinues(t, kind, entry)
      PROVE  SettleActive(t, kind) /\ turns'[t].phase = "reported"
  <2>1. entry.turn \in Turns
    BY DEF TypeOK, ScheduleSet, ReviewEntry
  <2>2. SettleActive(t, kind) /\ entry.turn # t /\ turns[t].phase # "unused"
    BY <1>2, SettleFacts DEF OutcomeContinues, SettleActive
  <2> QED
    BY <1>2, <2>1, <2>2, ReportedBegun DEF OutcomeContinues
<1>3. ASSUME NEW kind, OutcomeDispatchesNext(t, kind)
      PROVE  SettleActive(t, kind) /\ turns'[t].phase = "reported"
  <2>1. SettleActive(t, kind) /\ Reports(t, kind) /\ CanMint
    BY <1>3 DEF OutcomeDispatchesNext, SettleActive
  <2>2. NewTurn \in Turns /\ NewTurn # t /\ turns[t].phase # "unused"
    BY <2>1, SettleFacts, NewTurnType
  <2> QED
    BY <1>3, <2>1, <2>2, ReportedBegun DEF OutcomeDispatchesNext
<1>4. ASSUME NEW elapsed, OutcomeResumesParent(t, elapsed)
      PROVE  SettleActive(t, "Completed") /\ turns'[t].phase = "reported"
  <2>1. SettleActive(t, "Completed") /\ Reports(t, "Completed") /\ CanMint
    BY <1>4 DEF OutcomeResumesParent, SettleActive
  <2>2. NewTurn \in Turns /\ NewTurn # t /\ turns[t].phase # "unused"
    BY <2>1, SettleFacts, NewTurnType
  <2> QED
    BY <1>4, <2>1, <2>2, ReportedBegun DEF OutcomeResumesParent
<1>5. ASSUME NEW kind, NEW elapsed, OutcomeIdles(t, kind, elapsed)
      PROVE  SettleActive(t, kind) /\ turns'[t].phase = "reported"
  <2>1. SettleActive(t, kind) /\ Reports(t, kind) /\ turns' = Reported(t, kind)
    BY <1>5 DEF OutcomeIdles, SettleActive
  <2> QED
    BY <2>1, SettleFacts, ReportedCarried
<1>6. ASSUME NEW kind, OutcomeStale(t, kind)
      PROVE  UNCHANGED cancellation
  BY <1>6 DEF OutcomeStale
<1> QED
  BY <1>1, <1>2, <1>3, <1>4, <1>5, <1>6 DEF RecordTurnOutcome

(* The fence of a task-tree cancellation outlives every outcome but that of its own
   turn, also when a synthesis turn, a continuation or a resumed signal has taken the
   place of that turn. *)
THEOREM FenceOutlivesOthers == Spec => OnlyCancelLiftsFence
<1> DEFINE Lift == Fenced /\ ~Fenced' =>
                     \/ turns'[cancellation.turn].phase = "reported"
                     \/ cancellation'.turn # NoTurn
                     \/ ~initialized'
<1>1. ASSUME TypeOK, TurnInv, [Next]_vars
      PROVE  Lift
  <2>1. ASSUME NEW scope \in CancelKinds, Cancel(scope)
        PROVE  Lift
    BY <1>1, <2>1 DEF Cancel, Fenced
  <2>2. CASE Destroy
    BY <2>2 DEF Destroy
  <2>3. ASSUME NEW t \in Turns,
               \/ RecordTurnOutcome(t)
               \/ \E elapsed \in BOOLEAN : OutcomeResumesParent(t, elapsed)
        PROVE  Lift
    BY <1>1, <2>3, OutcomeLifts DEF Fenced
  <2>4. CASE UNCHANGED cancellation
    BY <2>4 DEF Fenced
  <2> QED
    BY <1>1, <2>1, <2>2, <2>3, <2>4, CancellationSteps
<1> QED
  BY <1>1, SessionTypeCorrect, TurnsInOrder, PTL DEF Spec, OnlyCancelLiftsFence

--------------------------------------------------------------------------------
(* Oldest first, as long as every cancellation has a scope.                   *)

CancelIsScoped == active # NoTurn /\ turns[active].cancel => cancellation.turn = active

(* Nothing waits in a session without an active turn, nor in a destroyed one. *)
IdleIsDrained == active = NoTurn \/ ~initialized => queue = <<>>

QueueIsSorted ==
  \A i, j \in 1..Len(queue) : i < j => queue[i].generation < queue[j].generation

OrderInv == CancelIsScoped /\ IdleIsDrained /\ QueueIsSorted /\ OldestFirst

(* What changes the queue. *)
LEMMA QueueSteps ==
  ASSUME [Next]_vars
  PROVE  \/ \E m \in Messages : StartTurnIdle(m) \/ StartTurnQueued(m)
         \/ Destroy
         \/ \E t \in Turns : \E kind : OutcomeDispatchesNext(t, kind)
         \/ \E scope \in CancelKinds : Cancel(scope)
         \/ UNCHANGED <<generation, initialized, queue>>
<1>1. ASSUME NEW t \in Turns,
             \/ RecordTurnOutcome(t) /\ ~\E kind : OutcomeDispatchesNext(t, kind)
             \/ \E elapsed \in BOOLEAN : OutcomeResumesParent(t, elapsed)
      PROVE  UNCHANGED <<generation, initialized, queue>>
  BY <1>1 DEF RecordTurnOutcome, OutcomeStale, OutcomeContinues, OutcomeIdles,
              OutcomeResumesParent, SettleActive, stateVars
<1>2. ASSUME \/ RequestCancel
             \/ \E m \in Messages : \E input \in inputs : StartTurnReply(m, input)
             \/ \E t \in Turns : RegisterCoordinatorInput(t) \/ ClearCoordinatorInput(t)
             \/ \E t \in Turns : \E review \in Reviews : RegisterActionReview(t, review)
             \/ \E review \in Reviews : ReviewDropped(review) \/ ReviewResolved(review)
             \/ \E review \in Reviews : \E resumeQueued \in BOOLEAN :
                  ReleaseActionReview(review, resumeQueued)
      PROVE  UNCHANGED <<generation, initialized, queue>>
  BY <1>2 DEF RequestCancel, StartTurnReply, RegisterCoordinatorInput, ClearCoordinatorInput,
              RegisterActionReview, ReviewDropped, ReviewResolved, ReleaseActionReview,
              KeptByReview, pendingVars, stateVars
<1>3. ASSUME \/ \E t \in Turns : \E run \in Runs : ExecutionRunStarted(t, run)
             \/ \E run \in Runs : ExecutionTerminal(run)
             \/ \E s \in Signals : \E elapsed \in BOOLEAN : RecordChildSignal(s, elapsed)
             \/ \E w \in Waiters : \E t \in Turns : AttachTurnWaiter(w, t)
             \/ \E w \in Waiters : RemoveTurnWaiter(w)
             \/ TurnAdmissionHeartbeat \/ LeaseExpires \/ Tick \/ UNCHANGED vars
      PROVE  UNCHANGED <<generation, initialized, queue>>
  BY <1>3 DEF ExecutionRunStarted, ExecutionTerminal, RecordChildSignal, AttachTurnWaiter,
              RemoveTurnWaiter, TurnAdmissionHeartbeat, LeaseExpires, Tick, vars, pendingVars,
              stateVars
<1> QED
  BY <1>1, <1>2, <1>3 DEF Next

(* Only start_turn gives out a generation, and only StartTurnQueued fills a queue. *)
LEMMA AcceptingSteps ==
  ASSUME [Next]_vars
  PROVE  \/ \E m \in Messages : StartTurnIdle(m) \/ StartTurnQueued(m)
         \/ Destroy
         \/ /\ UNCHANGED <<generation, initialized>>
            /\ queue' = queue \/ queue # <<>> \/ queue' = <<>>
BY QueueSteps DEF OutcomeDispatchesNext, SettleActive, Cancel

(* Every cancellation of the active turn has recorded its scope. *)
LEMMA ScopedStep ==
  ASSUME "request" \notin CancelKinds, TypeOK, TurnInv, CancelIsScoped, [Next]_vars
  PROVE  CancelIsScoped'
<1>1. CASE active' = NoTurn
  BY <1>1 DEF CancelIsScoped
<1>2. CASE active' # active /\ active' # NoTurn
  BY <1>2, EveryStepHasATurnClass, ActivatedIsNew DEF CancelIsScoped
<1>3. CASE active' = active /\ active # NoTurn
  <2>1. CASE ScopeKept
    BY <1>3, <2>1 DEF ScopeKept, CancelIsScoped
  <2>2. ASSUME NEW scope \in CancelKinds, Cancel(scope)
        PROVE  CancelIsScoped'
    BY <1>3, <2>2 DEF Cancel, CancelIsScoped
  <2> QED
    BY <1>3, <2>1, <2>2, ScopeStep
<1> QED
  BY <1>1, <1>2, <1>3

(* A turn that leaves the session idle leaves no message behind: the only outcome
   that does not dispatch is that of a cancelled task tree. *)
LEMMA IdlesDrained ==
  ASSUME TypeOK, TurnInv, CancelIsScoped, FenceKeepsQueueEmpty, NEW t \in Turns,
         NEW kind, NEW elapsed, OutcomeIdles(t, kind, elapsed)
  PROVE  queue = <<>> /\ queue' = <<>>
<1>1. /\ queue' = queue /\ active = t /\ Reports(t, kind) /\ t # NoTurn
      /\ DispatchesNext(t, kind) => queue = <<>>
  BY DEF OutcomeIdles, SettleActive, NoQueuedWork, Turns, NoTurn
<1>2. CASE ~DispatchesNext(t, kind)
  <2>1. kind = "Cancelled" /\ ~(cancellation.turn = t /\ cancellation.scope = "CoordinatorOnly")
    BY <1>2 DEF DispatchesNext
  <2>2. turns[t].phase # "reported"
    BY <1>1 DEF TurnInv, ActiveIsUnfinished, Unfinished
  <2>3. turns[t].cancel
    BY <1>1, <2>1, <2>2 DEF Reports, TurnInv, ClearedIsCancelled
  <2>4. Fenced
    BY <1>1, <2>1, <2>3 DEF CancelIsScoped, Fenced, TypeOK
  <2> QED
    BY <1>1, <2>4 DEF FenceKeepsQueueEmpty
<1> QED
  BY <1>1, <1>2

(* The session goes idle or ends with an empty queue. *)
LEMMA DrainedStep ==
  ASSUME TypeOK, TurnInv, CancelIsScoped, FenceKeepsQueueEmpty, IdleIsDrained, [Next]_vars
  PROVE  IdleIsDrained'
<1>1. ASSUME NEW m, StartTurnIdle(m)
      PROVE  IdleIsDrained'
  BY <1>1 DEF StartTurnIdle, IdleIsDrained
<1>2. ASSUME NEW m, StartTurnQueued(m)
      PROVE  IdleIsDrained'
  BY <1>2 DEF StartTurnQueued, Admissible, IdleIsDrained, stateVars
<1>3. CASE Destroy
  BY <1>3 DEF Destroy, IdleIsDrained
<1>4. ASSUME initialized' = initialized, queue' = queue \/ queue # <<>> \/ queue' = <<>>
      PROVE  IdleIsDrained'
  <2>1. CASE active = NoTurn \/ ~initialized
    BY <1>4, <2>1 DEF IdleIsDrained
  <2>2. CASE active # NoTurn /\ initialized /\ active' = NoTurn
    <3>1. PICK t \in Turns : t = active
      BY <2>2 DEF TypeOK, TurnOrNone
    <3>2. \E kind : \E elapsed \in BOOLEAN : OutcomeIdles(t, kind, elapsed)
      <4>1. NewTurn # NoTurn
        BY BoundsAssumption DEF TypeOK, NewTurn, NoTurn
      <4>2. \A e \in schedule.queued : e.turn # NoTurn
        BY DEF TypeOK, ScheduleSet, ReviewEntry, Turns, NoTurn
      <4>3. ASSUME NEW x \in Turns, \/ RecordTurnOutcome(x)
                                    \/ \E elapsed \in BOOLEAN : OutcomeResumesParent(x, elapsed)
            PROVE  \E kind : \E elapsed \in BOOLEAN : OutcomeIdles(t, kind, elapsed)
        BY <2>2, <3>1, <4>1, <4>2, <4>3
        DEF RecordTurnOutcome, OutcomeStale, OutcomeContinues, OutcomeDispatchesNext,
            OutcomeIdles, OutcomeResumesParent, SettleActive
      <4>4. ASSUME \/ \E m \in Messages : StartTurnIdle(m) \/ StartTurnQueued(m)
                   \/ \E m \in Messages : \E input \in inputs : StartTurnReply(m, input)
                   \/ RequestCancel \/ \E scope \in CancelKinds : Cancel(scope)
                   \/ \E x \in Turns : RegisterCoordinatorInput(x) \/ ClearCoordinatorInput(x)
                   \/ \E x \in Turns : \E review \in Reviews : RegisterActionReview(x, review)
                   \/ \E review \in Reviews : ReviewDropped(review) \/ ReviewResolved(review)
                   \/ \E review \in Reviews : \E resumeQueued \in BOOLEAN :
                        ReleaseActionReview(review, resumeQueued)
            PROVE  FALSE
        BY <2>2, <4>1, <4>4
        DEF StartTurnIdle, StartTurnQueued, StartTurnReply, RequestCancel, Cancel,
            RegisterCoordinatorInput, ClearCoordinatorInput, RegisterActionReview,
            ReviewDropped, ReviewResolved, ReleaseActionReview, OnlySchedules, pendingVars
      <4>5. ASSUME \/ \E x \in Turns : \E run \in Runs : ExecutionRunStarted(x, run)
                   \/ \E run \in Runs : ExecutionTerminal(run)
                   \/ \E s \in Signals : \E elapsed \in BOOLEAN : RecordChildSignal(s, elapsed)
                   \/ \E w \in Waiters : \E x \in Turns : AttachTurnWaiter(w, x)
                   \/ \E w \in Waiters : RemoveTurnWaiter(w)
                   \/ TurnAdmissionHeartbeat \/ LeaseExpires \/ Tick \/ UNCHANGED vars
            PROVE  FALSE
        BY <2>2, <4>1, <4>5
        DEF ExecutionRunStarted, ExecutionTerminal, ActiveAfterSynthesis, RecordChildSignal,
            Wakes, AttachTurnWaiter, RemoveTurnWaiter, TurnAdmissionHeartbeat, LeaseExpires,
            Tick, vars, pendingVars
      <4>6. ~Destroy
        BY <1>4, <2>2 DEF Destroy
      <4> QED
        BY <4>3, <4>4, <4>5, <4>6 DEF Next
    <3> QED
      BY <3>2, IdlesDrained DEF IdleIsDrained
  <2>3. CASE active' # NoTurn /\ initialized
    BY <1>4, <2>3 DEF IdleIsDrained
  <2> QED
    BY <2>1, <2>2, <2>3
<1> QED
  BY <1>1, <1>2, <1>3, <1>4, AcceptingSteps

(* A message that starts at once overtakes none; a message that waits is the
   youngest; and the one that leaves the queue is the oldest. *)
LEMMA OrderStep ==
  ASSUME TypeOK, GenerationsBounded, IdleIsDrained, QueueIsSorted, OldestFirst, [Next]_vars
  PROVE  QueueIsSorted' /\ OldestFirst'
<1> USE GenerationTypes
<1>m. CanMint => NewTurn \in Turns
  BY NewTurnType
<1>q. /\ \A t \in Turns, i \in 1..Len(queue) :
           turns[t].trigger = "user" => turns[t].generation < queue[i].generation
  BY DEF OldestFirst, UserTurns, QueuedGenerations
<1>e. ASSUME queue' = <<>>
      PROVE  QueueIsSorted' /\ OldestFirst'
  BY <1>e DEF QueueIsSorted, OldestFirst, QueuedGenerations
<1>p. ASSUME \A t \in Turns, i \in 1..Len(queue') :
               turns'[t].trigger = "user" => turns'[t].generation < queue'[i].generation
      PROVE  OldestFirst'
  BY <1>p DEF OldestFirst, UserTurns, QueuedGenerations
<1>1. CASE StartsNow
  <2>1. active = NoTurn
    <3>1. generation' = generation + 1 /\ queue' = queue /\ initialized' = initialized
      BY <1>1 DEF StartsNow
    <3>2. generation' # generation
      BY <3>1
    <3>3. ASSUME NEW m, StartTurnQueued(m)
          PROVE  FALSE
      <4>1. Append(queue, [message |-> m, generation |-> generation + 1]) = queue
        BY <3>1, <3>3 DEF StartTurnQueued, QueueAfterPush
      <4>2. Len(Append(queue, [message |-> m, generation |-> generation + 1]))
              = Len(queue) + 1
        BY DEF TypeOK
      <4> QED
        BY <4>1, <4>2
    <3>4. ~Destroy
      BY <3>1 DEF Destroy
    <3> QED
      BY <3>2, <3>3, <3>4, AcceptingSteps DEF StartTurnIdle
  <2> QED
    BY <1>1, <1>e, <2>1 DEF StartsNow, IdleIsDrained
<1>2. CASE Queues
  <2>1. PICK m \in Messages : queue' = QueueAfterPush(m)
    BY <1>2 DEF Queues
  <2>2. /\ Len(queue') = Len(queue) + 1
        /\ queue'[Len(queue) + 1].generation = generation + 1
        /\ \A i \in 1..Len(queue) : queue'[i] = queue[i]
    BY <2>1, PushedQueue
  <2>3. initialized
    <3>1. initialized' = initialized /\ queue' # <<>> /\ (~initialized => queue = <<>>)
      BY <1>2, <2>2 DEF Queues, IdleIsDrained
    <3> QED
      BY <3>1, <2>2, AcceptingSteps DEF StartTurnIdle, StartTurnQueued, Admissible, Destroy
  <2>4. /\ \A t \in Turns : turns[t].generation <= generation
        /\ \A i \in 1..Len(queue) : queue[i].generation <= generation
    BY <2>3 DEF GenerationsBounded
  <2>5. \A i \in 1..Len(queue') : i \in 1..Len(queue) \/ i = Len(queue) + 1
    BY <2>2
  <2>6. QueueIsSorted'
    BY <2>2, <2>4, <2>5 DEF QueueIsSorted
  <2>7. OldestFirst'
    BY <1>2, <1>p, <1>q, <2>2, <2>4, <2>5 DEF Queues, SameTurns
  <2> QED
    BY <2>6, <2>7
<1>3. CASE DispatchesOldest
  <2>1. /\ Len(queue) >= 1 /\ Len(queue') = Len(queue) - 1
        /\ OldestQueued = queue[1]
        /\ \A i \in 1..Len(queue') : queue'[i] = queue[i + 1]
    BY <1>3, PoppedQueue DEF DispatchesOldest
  <2>2. \A i \in 1..Len(queue') : i + 1 \in 1..Len(queue) /\ 1 \in 1..Len(queue) /\ 1 < i + 1
    BY <2>1
  <2>3. QueueIsSorted'
    <3>1. ASSUME NEW i \in 1..Len(queue'), NEW j \in 1..Len(queue'), i < j
          PROVE  queue'[i].generation < queue'[j].generation
      <4>1. i + 1 \in 1..Len(queue) /\ j + 1 \in 1..Len(queue) /\ i + 1 < j + 1
        BY <2>2, <3>1
      <4>2. queue[i + 1].generation < queue[j + 1].generation
        BY <4>1 DEF QueueIsSorted
      <4> QED
        BY <2>1, <4>2
    <3> QED
      BY <3>1 DEF QueueIsSorted
  <2>4. OldestFirst'
    BY <1>3, <1>m, <1>p, <1>q, <2>1, <2>2 DEF DispatchesOldest, Dispatches, QueueIsSorted
  <2> QED
    BY <2>3, <2>4
<1>4. CASE Rejects \/ Ends
  BY <1>4, <1>e DEF Rejects, Ends
<1>5. CASE Continues
  <2>1. queue' = queue
    BY <1>5 DEF Continues, KeepsLedger
  <2>2. QueueIsSorted'
    BY <2>1 DEF QueueIsSorted
  <2>3. OldestFirst'
    BY <1>5, <1>p, <1>q, <2>1 DEF Continues, SameTurns, DispatchesOther, Dispatches
  <2> QED
    BY <2>2, <2>3
<1> QED
  BY <1>1, <1>2, <1>3, <1>4, <1>5, EveryStepHasAClass DEF LedgerStep

(* No generation is ahead of the session's own. *)
LEMMA GenerationsStayBounded == Spec => []GenerationsBounded
<1>1. Init => GenerationsBounded
  BY DEF Init, GenerationsBounded, UnusedTurn
<1>2. TypeOK /\ GenerationsBounded /\ [Next]_vars => GenerationsBounded'
  BY EveryStepHasAClass, GenerationsStep
<1> QED
  BY <1>1, <1>2, SessionTypeCorrect, PTL DEF Spec

(* Messages are dispatched in the order they were accepted, for every queue length
   and however outcomes, cancellations, reviews and runs interleave, as long as every
   cancellation goes through cancel, which records its scope.  request_cancel records
   none: its turn leaves the session idle with messages queued, and the next start_turn
   overtakes them. *)
THEOREM DispatchedOldestFirst ==
  ASSUME "request" \notin CancelKinds
  PROVE  Spec => []OldestFirst
<1>1. Init => OrderInv
  BY DEF Init, OrderInv, CancelIsScoped, IdleIsDrained, QueueIsSorted, OldestFirst,
         QueuedGenerations
<1>2. ASSUME TypeOK, TurnInv, GenerationsBounded, FenceKeepsQueueEmpty, OrderInv, [Next]_vars
      PROVE  OrderInv'
  BY <1>2, ScopedStep, DrainedStep, OrderStep DEF OrderInv
<1>3. OrderInv => OldestFirst
  BY DEF OrderInv
<1> QED
  BY <1>1, <1>2, <1>3, SessionTypeCorrect, TurnsInOrder, GenerationsStayBounded,
     FenceHoldsQueueEmpty, PTL DEF Spec

--------------------------------------------------------------------------------
(* Rejections.                                                                *)

(* Only cancel rejects messages and records them. *)
LEMMA OnlyCancelRejects ==
  ASSUME [Next]_vars
  PROVE  (\E scope \in CancelKinds : Cancel(scope)) \/ UNCHANGED <<rejected, facts>>
<1>1. ASSUME \/ \E m \in Messages : StartTurnIdle(m) \/ StartTurnQueued(m)
             \/ \E m \in Messages : \E input \in inputs : StartTurnReply(m, input)
             \/ RequestCancel \/ Destroy
      PROVE  UNCHANGED <<rejected, facts>>
  BY <1>1 DEF StartTurnIdle, StartTurnQueued, StartTurnReply, RequestCancel, Destroy
<1>4. ASSUME NEW t \in Turns,
             RecordTurnOutcome(t) \/ \E elapsed \in BOOLEAN : OutcomeResumesParent(t, elapsed)
      PROVE  UNCHANGED <<rejected, facts>>
  BY <1>4 DEF RecordTurnOutcome, OutcomeStale, OutcomeContinues, OutcomeDispatchesNext,
              OutcomeIdles, OutcomeResumesParent, SettleActive
<1>2. ASSUME \/ \E t \in Turns : RegisterCoordinatorInput(t) \/ ClearCoordinatorInput(t)
             \/ \E t \in Turns : \E review \in Reviews : RegisterActionReview(t, review)
             \/ \E review \in Reviews : ReviewDropped(review) \/ ReviewResolved(review)
             \/ \E review \in Reviews : \E resumeQueued \in BOOLEAN :
                  ReleaseActionReview(review, resumeQueued)
      PROVE  UNCHANGED <<rejected, facts>>
  BY <1>2 DEF RegisterCoordinatorInput, ClearCoordinatorInput, RegisterActionReview,
              ReviewDropped, ReviewResolved, ReleaseActionReview, KeptByReview
<1>3. ASSUME \/ \E t \in Turns : \E run \in Runs : ExecutionRunStarted(t, run)
             \/ \E run \in Runs : ExecutionTerminal(run)
             \/ \E s \in Signals : \E elapsed \in BOOLEAN : RecordChildSignal(s, elapsed)
             \/ \E w \in Waiters : \E t \in Turns : AttachTurnWaiter(w, t)
             \/ \E w \in Waiters : RemoveTurnWaiter(w)
             \/ TurnAdmissionHeartbeat \/ LeaseExpires \/ Tick \/ UNCHANGED vars
      PROVE  UNCHANGED <<rejected, facts>>
  BY <1>3 DEF ExecutionRunStarted, ExecutionTerminal, RecordChildSignal, AttachTurnWaiter,
              RemoveTurnWaiter, TurnAdmissionHeartbeat, LeaseExpires, Tick, vars, otherVars
<1> QED
  BY <1>1, <1>2, <1>3, <1>4 DEF Next

(* A fact is of a message that was accepted before all that are queued. *)
FactsAreOlder ==
  initialized =>
    \A f \in facts : /\ f.generation \in Nat /\ f.generation <= generation
                     /\ \A i \in 1..Len(queue) : f.generation < queue[i].generation

(* A later message gets a later generation, and what is recorded leaves the queue. *)
LEMMA FactsAreOlderStep ==
  ASSUME TypeOK, GenerationsBounded, FactsAreOlder, [Next]_vars
  PROVE  FactsAreOlder'
<1> USE GenerationTypes
<1>1. ASSUME NEW scope \in CancelKinds, Cancel(scope)
      PROVE  FactsAreOlder'
  <2>1. initialized /\ generation' = generation
    BY <1>1 DEF Cancel
  <2>2. CASE scope = "TaskTree"
    <3>1. queue' = <<>> /\ facts' = facts \cup NewFacts
      BY <1>1, <2>2 DEF Cancel
    <3>2. \A f \in NewFacts : f.generation \in Nat /\ f.generation <= generation
      BY <2>1 DEF NewFacts, GenerationsBounded
    <3> QED
      BY <2>1, <3>1, <3>2 DEF FactsAreOlder
  <2>3. CASE scope # "TaskTree"
    BY <1>1, <2>1, <2>3 DEF Cancel, FactsAreOlder
  <2> QED
    BY <2>2, <2>3
<1> SUFFICES ASSUME UNCHANGED facts PROVE FactsAreOlder'
  BY <1>1, OnlyCancelRejects
<1>2. ASSUME NEW m \in Messages, StartTurnIdle(m)
      PROVE  FactsAreOlder'
  <2>1. /\ generation \in Nat /\ generation' = generation + 1
        /\ UNCHANGED <<queue, initialized>>
    BY <1>2 DEF StartTurnIdle, AdvanceGeneration
  <2> QED
    BY <2>1 DEF FactsAreOlder
<1>3. ASSUME NEW m \in Messages, StartTurnQueued(m)
      PROVE  FactsAreOlder'
  <2>1. /\ generation' = generation + 1 /\ queue' = QueueAfterPush(m) /\ initialized
    BY <1>3 DEF StartTurnQueued, AdvanceGeneration, Admissible
  <2>2. /\ Len(queue') = Len(queue) + 1
        /\ queue'[Len(queue) + 1].generation = generation + 1
        /\ \A i \in 1..Len(queue) : queue'[i] = queue[i]
    BY <2>1, PushedQueue
  <2>3. \A i \in 1..Len(queue') : i \in 1..Len(queue) \/ i = Len(queue) + 1
    BY <2>2
  <2> QED
    BY <2>1, <2>2, <2>3 DEF FactsAreOlder
<1>4. CASE Destroy
  BY <1>4 DEF Destroy, FactsAreOlder
<1>5. ASSUME NEW t, NEW kind, OutcomeDispatchesNext(t, kind)
      PROVE  FactsAreOlder'
  <2>1. queue # <<>> /\ queue' = QueueAfterPop /\ UNCHANGED <<generation, initialized>>
    BY <1>5 DEF OutcomeDispatchesNext, SettleActive
  <2>2. /\ Len(queue) >= 1 /\ Len(queue') = Len(queue) - 1
        /\ \A i \in 1..Len(queue') : queue'[i] = queue[i + 1]
    BY <2>1, PoppedQueue
  <2>3. \A i \in 1..Len(queue') : i + 1 \in 1..Len(queue)
    BY <2>2
  <2> QED
    BY <2>1, <2>2, <2>3 DEF FactsAreOlder
<1>6. ASSUME UNCHANGED <<generation, initialized, queue>>
      PROVE  FactsAreOlder'
  BY <1>6 DEF FactsAreOlder
<1> QED
  BY <1>1, <1>2, <1>3, <1>4, <1>5, <1>6, QueueSteps

(* A step discards a message without a fact of its own only when the active turn has
   facts of older messages. *)
LEMMA RejectionStep ==
  ASSUME TypeOK, FactsAreOlder, [Next]_vars, NEW g \in rejected' \ rejected
  PROVE  \/ \E f \in facts' : f.generation = g
         \/ \E f \in facts : active # NoTurn /\ f.turn = active /\ f.generation < g
<1>1. PICK scope \in CancelKinds : Cancel(scope)
  BY OnlyCancelRejects
<1>2. /\ initialized /\ rejected' = rejected \cup QueuedGenerations
      /\ facts' = facts \cup NewFacts
  BY <1>1 DEF Cancel
<1>3. PICK i \in 1..Len(queue) : g = queue[i].generation
  BY <1>2 DEF QueuedGenerations
<1>4. CASE FactIsTaken(i)
  BY <1>2, <1>3, <1>4 DEF FactIsTaken, FactsAreOlder
<1>5. CASE ~FactIsTaken(i)
  <2>1. [turn |-> active, index |-> i, generation |-> g] \in NewFacts
    BY <1>3, <1>5 DEF NewFacts
  <2> QED
    BY <1>2, <2>1
<1> QED
  BY <1>4, <1>5

(* A discarded message has its own QueuedMessageRejected fact, for every queue length,
   every mix of scopes and however often the user cancels, unless an earlier
   cancellation of the same turn left facts whose dedupe keys it repeats. *)
THEOREM OnlyRepeatsLoseFacts == Spec => OnlyRepeatsGoUnrecorded
<1>1. Init => FactsAreOlder
  BY DEF Init, FactsAreOlder
<1>2. TypeOK /\ GenerationsBounded /\ FactsAreOlder /\ [Next]_vars => FactsAreOlder'
  BY FactsAreOlderStep
<1> DEFINE Step == \A g \in rejected' \ rejected :
                     \/ \E f \in facts' : f.generation = g
                     \/ \E f \in facts : active # NoTurn /\ f.turn = active /\ f.generation < g
<1>3. TypeOK /\ FactsAreOlder /\ [Next]_vars => Step
  BY RejectionStep
<1> QED
  BY <1>1, <1>2, <1>3, SessionTypeCorrect, GenerationsStayBounded, PTL
  DEF Spec, OnlyRepeatsGoUnrecorded

--------------------------------------------------------------------------------
(* A message is admitted once.                                                *)

LiveUser(t) == turns[t].trigger = "user" /\ Unfinished(t)

(* A message has at most one unfinished turn and one place in the queue, never both. *)
AtMostOnce ==
  /\ \A t, u \in Turns :
       LiveUser(t) /\ LiveUser(u) /\ turns[t].message = turns[u].message => t = u
  /\ \A i, j \in 1..Len(queue) : queue[i].message = queue[j].message => i = j
  /\ \A t \in Turns, i \in 1..Len(queue) : LiveUser(t) => turns[t].message # queue[i].message

(* The admission fence holds what is running and what is queued. *)
AdmittedIsHeld ==
  initialized =>
    /\ \A t \in Turns : LiveUser(t) => admissions.entries[turns[t].message] = RunningEntry(t)
    /\ \A i \in 1..Len(queue) : admissions.entries[queue[i].message] = QueuedEntry

AdmissionInv == AtMostOnce /\ AdmittedIsHeld

Held(m) == admissions.entries[m].state \in {"queued", "running"}

UserKept(t) == LiveUser(t)' => LiveUser(t) /\ turns'[t].message = turns[t].message

(* The entry of m is given up together with its turn. *)
Dropped(m) == \E t \in Turns : admissions.entries[m] = RunningEntry(t) /\ ~LiveUser(t)'

HeldOrDropped(m) == Held(m) => admissions'.entries[m] = admissions.entries[m] \/ Dropped(m)

(* Nothing is admitted; the queue may be rejected. *)
AdmitsNone ==
  /\ \A t \in Turns : UserKept(t)
  /\ queue' \in {queue, <<>>}
  /\ initialized' =>
       /\ initialized
       /\ \A m \in Messages :
            \/ HeldOrDropped(m)
            \/ queue' = <<>> /\ \E i \in 1..Len(queue) : queue[i].message = m

(* The fence's entries are distinct. *)
LEMMA EntriesDiffer ==
  /\ \A t, u : RunningEntry(t) = RunningEntry(u) => t = u
  /\ \A t : RunningEntry(t) # QueuedEntry /\ RunningEntry(t).state = "running"
  /\ QueuedEntry.state = "queued"
<1>1. \A t : RunningEntry(t).turn = t /\ RunningEntry(t).state = "running"
  BY DEF RunningEntry, Absent
<1>2. QueuedEntry.state = "queued"
  BY DEF QueuedEntry, Absent
<1> QED
  BY <1>1, <1>2

(* What is held is not admitted anew. *)
LEMMA FreshIsNotHeld ==
  ASSUME TypeOK, TurnInv, AdmittedIsHeld, initialized, NEW m \in Messages, Fresh(admissions, m)
  PROVE  /\ \A t \in Turns : LiveUser(t) => turns[t].message # m
         /\ \A i \in 1..Len(queue) : queue[i].message # m
<1>1. admissions.entries[m].state = "absent"
  BY DEF Fresh
<1> QED
  BY <1>1, EntriesDiffer DEF AdmittedIsHeld

(* evict_expired keeps whatever is not terminal. *)
LEMMA EvictKeeps ==
  ASSUME NEW a, NEW now, a = [entries |-> a.entries, nextOrdinal |-> a.nextOrdinal],
         NEW m \in Messages, a.entries[m].state # "terminal"
  PROVE  EvictExpired(a, now).entries[m] = a.entries[m]
<1>1. ~Expired(a, m, now)
  BY DEF Expired
<1> QED
  BY <1>1 DEF EvictExpired

(* A queue entry has a message. *)
LEMMA QueueMessages ==
  ASSUME TypeOK
  PROVE  /\ \A i \in 1..Len(queue) : queue[i].message \in Messages
         /\ Len(queue) \in Nat
<1>1. \A i \in 1..Len(queue) : queue[i] \in QueueEntry
  BY DEF TypeOK
<1> QED
  BY <1>1 DEF QueueEntry, TypeOK

(* Steps that admit nothing. *)
LEMMA AdmitsNoneStep ==
  ASSUME TypeOK, TurnInv, AdmissionInv, AdmitsNone
  PROVE  AdmissionInv'
<1>1. AtMostOnce'
  <2>1. Len(<<>>) = 0
    OBVIOUS
  <2> QED
    BY <2>1 DEF AdmissionInv, AdmitsNone, UserKept, AtMostOnce
<1>2. ASSUME initialized', NEW t \in Turns, LiveUser(t)'
      PROVE  admissions'.entries[turns'[t].message] = RunningEntry(t)
  <2>1. LiveUser(t) /\ turns'[t].message = turns[t].message /\ initialized
    BY <1>2 DEF AdmitsNone, UserKept
  <2>2. turns[t].message \in Messages
    BY <2>1 DEF LiveUser, TurnInv, UserHasMessage
  <2>3. admissions.entries[turns[t].message] = RunningEntry(t)
    BY <2>1 DEF AdmissionInv, AdmittedIsHeld
  <2>4. HeldOrDropped(turns[t].message)
    BY <1>2, <2>1, <2>2 DEF AdmitsNone, AdmissionInv, AtMostOnce
  <2>5. ~Dropped(turns[t].message)
    BY <1>2, <2>3, EntriesDiffer DEF Dropped
  <2> QED
    BY <2>1, <2>3, <2>4, <2>5, EntriesDiffer DEF HeldOrDropped, Held
<1>3. ASSUME initialized', NEW i \in 1..Len(queue')
      PROVE  admissions'.entries[queue'[i].message] = QueuedEntry
  <2>1. queue' = queue /\ initialized /\ queue' # <<>>
    <3>1. queue' # <<>>
      BY <1>3
    <3> QED
      BY <1>3, <3>1 DEF AdmitsNone
  <2>2. queue[i].message \in Messages /\ i \in 1..Len(queue)
    BY <1>3, <2>1, QueueMessages
  <2>3. admissions.entries[queue[i].message] = QueuedEntry
    BY <2>1, <2>2 DEF AdmissionInv, AdmittedIsHeld
  <2>4. HeldOrDropped(queue[i].message)
    BY <1>3, <2>1, <2>2 DEF AdmitsNone
  <2>5. ~Dropped(queue[i].message)
    BY <2>3, EntriesDiffer DEF Dropped
  <2> QED
    BY <2>1, <2>3, <2>4, <2>5, EntriesDiffer DEF HeldOrDropped, Held
<1> QED
  BY <1>1, <1>2, <1>3 DEF AdmissionInv, AdmittedIsHeld

(* The fence after an admission: the message's entry, and what was held besides. *)
LEMMA RecordFields ==
  ASSUME TypeOK, NEW m \in Messages, NEW t, NEW now
  PROVE  /\ RecordRunning(admissions, m, t, now).entries[m] = RunningEntry(t)
         /\ RecordQueued(admissions, m, now).entries[m] = QueuedEntry
         /\ \A x \in Messages : x # m /\ Held(x) =>
              /\ RecordRunning(admissions, m, t, now).entries[x] = admissions.entries[x]
              /\ RecordQueued(admissions, m, now).entries[x] = admissions.entries[x]
              /\ RecordTerminal(admissions, m, now).entries[x] = admissions.entries[x]
<1>1. /\ admissions.entries \in [Messages -> EntrySet]
      /\ admissions = [entries |-> admissions.entries, nextOrdinal |-> admissions.nextOrdinal]
  BY DEF TypeOK, AdmissionSet
<1> DEFINE r == [admissions EXCEPT !.entries[m] = RunningEntry(t)]
           q == [admissions EXCEPT !.entries[m] = QueuedEntry]
           e == [entries     |-> [admissions.entries EXCEPT ![m] =
                                    TerminalEntry(now, admissions.nextOrdinal)],
                 nextOrdinal |-> admissions.nextOrdinal + 1]
<1>2. /\ r = [entries |-> r.entries, nextOrdinal |-> r.nextOrdinal]
      /\ q = [entries |-> q.entries, nextOrdinal |-> q.nextOrdinal]
      /\ e = [entries |-> e.entries, nextOrdinal |-> e.nextOrdinal]
  BY <1>1
<1>3. /\ r.entries[m] = RunningEntry(t) /\ q.entries[m] = QueuedEntry
      /\ \A x \in Messages : x # m => /\ r.entries[x] = admissions.entries[x]
                                      /\ q.entries[x] = admissions.entries[x]
                                      /\ e.entries[x] = admissions.entries[x]
  BY <1>1
<1>4. /\ RecordRunning(admissions, m, t, now) = EvictExpired(r, now)
      /\ RecordQueued(admissions, m, now) = EvictExpired(q, now)
      /\ RecordTerminal(admissions, m, now) = EvictExpired(e, now)
  BY DEF RecordRunning, RecordQueued, RecordTerminal
<1> HIDE DEF r, q, e
<1>5. r.entries[m].state # "terminal" /\ q.entries[m].state # "terminal"
  BY <1>3, EntriesDiffer
<1>6. /\ EvictExpired(r, now).entries[m] = r.entries[m]
      /\ EvictExpired(q, now).entries[m] = q.entries[m]
  BY <1>2, <1>5, EvictKeeps
<1>7. ASSUME NEW x \in Messages, x # m, Held(x)
      PROVE  /\ EvictExpired(r, now).entries[x] = admissions.entries[x]
             /\ EvictExpired(q, now).entries[x] = admissions.entries[x]
             /\ EvictExpired(e, now).entries[x] = admissions.entries[x]
  <2>1. admissions.entries[x].state # "terminal"
    BY <1>7 DEF Held
  <2>2. /\ r.entries[x].state # "terminal" /\ q.entries[x].state # "terminal"
        /\ e.entries[x].state # "terminal"
    BY <1>3, <1>7, <2>1
  <2> QED
    BY <1>2, <1>3, <1>7, <2>2, EvictKeeps
<1> QED
  BY <1>3, <1>4, <1>6, <1>7

(* mark_terminal_for_turn gives up only the entry of its turn. *)
LEMMA MarkTerminalKeeps ==
  ASSUME TypeOK, NEW t, NEW m \in Messages, Held(m), admissions.entries[m] # RunningEntry(t)
  PROVE  AdmissionsAfter(t).entries[m] = admissions.entries[m]
<1> DEFINE f == [x \in Messages |-> IF OwnsTurn(admissions, x, t)
                                    THEN TerminalEntry(clock, admissions.nextOrdinal)
                                    ELSE admissions.entries[x]]
           a == [entries |-> f, nextOrdinal |-> admissions.nextOrdinal + 1]
<1>1. f[m] = admissions.entries[m]
  BY DEF OwnsTurn
<1>2. a.entries = f /\ a = [entries |-> a.entries, nextOrdinal |-> a.nextOrdinal]
  OBVIOUS
<1>3. AdmissionsAfter(t) = EvictExpired(a, clock) \/ AdmissionsAfter(t) = admissions
  BY DEF AdmissionsAfter, MarkTerminalForTurn
<1> HIDE DEF f, a
<1>4. a.entries[m].state # "terminal"
  BY <1>1, <1>2 DEF Held
<1>5. EvictExpired(a, clock).entries[m] = admissions.entries[m]
  BY <1>1, <1>2, <1>4, EvictKeeps
<1> QED
  BY <1>3, <1>5

(* reject_queued_messages gives up only the entries of the queue. *)
LEMMA MarkRejectedKeeps ==
  ASSUME NEW m \in Messages, \A i \in 1..Len(queue) : queue[i].message # m
  PROVE  MarkRejected(admissions, queue, clock).entries[m] = admissions.entries[m]
BY DEF MarkRejected

(* start_turn admits a message. *)
LEMMA StartAdmits ==
  ASSUME TypeOK, TurnInv, AdmissionInv, NEW m \in Messages, StartTurnIdle(m)
  PROVE  AdmissionInv'
<1>1. /\ initialized /\ Fresh(admissions, m) /\ NewTurn \in Turns /\ queue' = queue
      /\ admissions' = RecordRunning(admissions, m, NewTurn, clock)
  BY NewTurnType DEF StartTurnIdle, Admissible
<1>2. Begun(NewTurn, "user", m) /\ \A x \in Turns : x # NewTurn => turns'[x] = turns[x]
  BY <1>1, PlainBegun DEF StartTurnIdle
<1>3. turns'[NewTurn].message = m /\ \A x \in Turns : x # NewTurn => UserKept(x)
  BY <1>2 DEF Begun, UserKept, LiveUser, Unfinished
<1>4. /\ \A x \in Turns : LiveUser(x) => turns[x].message # m
      /\ \A i \in 1..Len(queue) : queue[i].message # m
  BY <1>1, FreshIsNotHeld DEF AdmissionInv
<1>5. AtMostOnce'
  BY <1>1, <1>3, <1>4 DEF AdmissionInv, AtMostOnce, UserKept
<1>6. /\ admissions'.entries[m] = RunningEntry(NewTurn)
      /\ \A x \in Messages : x # m /\ Held(x) => admissions'.entries[x] = admissions.entries[x]
  BY <1>1, RecordFields
<1>7. ASSUME NEW t \in Turns, LiveUser(t)'
      PROVE  admissions'.entries[turns'[t].message] = RunningEntry(t)
  <2>1. CASE t # NewTurn
    <3>1. LiveUser(t) /\ turns'[t].message = turns[t].message
      BY <1>3, <1>7, <2>1 DEF UserKept
    <3>2. turns[t].message \in Messages /\ turns[t].message # m
      BY <1>4, <3>1 DEF LiveUser, TurnInv, UserHasMessage
    <3>3. admissions.entries[turns[t].message] = RunningEntry(t)
      BY <1>1, <3>1 DEF AdmissionInv, AdmittedIsHeld
    <3> QED
      BY <1>6, <3>1, <3>2, <3>3, EntriesDiffer DEF Held
  <2> QED
    BY <1>3, <1>6, <2>1
<1>8. ASSUME NEW i \in 1..Len(queue)
      PROVE  admissions'.entries[queue[i].message] = QueuedEntry
  BY <1>1, <1>4, <1>6, QueueMessages, EntriesDiffer DEF AdmissionInv, AdmittedIsHeld, Held
<1> QED
  BY <1>1, <1>5, <1>7, <1>8 DEF AdmissionInv, AdmittedIsHeld

(* start_turn queues a message. *)
LEMMA QueueAdmits ==
  ASSUME TypeOK, TurnInv, AdmissionInv, NEW m \in Messages, StartTurnQueued(m)
  PROVE  AdmissionInv'
<1>1. /\ initialized /\ Fresh(admissions, m) /\ queue' = QueueAfterPush(m) /\ turns' = turns
      /\ admissions' = RecordQueued(admissions, m, clock)
  BY DEF StartTurnQueued, Admissible
<1>2. /\ Len(queue') = Len(queue) + 1 /\ queue'[Len(queue) + 1].message = m
      /\ \A i \in 1..Len(queue) : queue'[i] = queue[i]
  BY <1>1 DEF TypeOK, QueueAfterPush
<1>3. \A i \in 1..Len(queue') : i \in 1..Len(queue) \/ i = Len(queue) + 1
  BY <1>2, QueueMessages
<1>4. /\ \A x \in Turns : LiveUser(x) => turns[x].message # m
      /\ \A i \in 1..Len(queue) : queue[i].message # m
  BY <1>1, FreshIsNotHeld DEF AdmissionInv
<1>5. \A t \in Turns : LiveUser(t)' <=> LiveUser(t)
  BY <1>1 DEF LiveUser, Unfinished
<1>6. AtMostOnce'
  BY <1>1, <1>2, <1>3, <1>4, <1>5 DEF AdmissionInv, AtMostOnce
<1>7. /\ admissions'.entries[m] = QueuedEntry
      /\ \A x \in Messages : x # m /\ Held(x) => admissions'.entries[x] = admissions.entries[x]
  BY <1>1, RecordFields
<1>8. ASSUME NEW t \in Turns, LiveUser(t)
      PROVE  admissions'.entries[turns[t].message] = RunningEntry(t)
  <2>1. turns[t].message \in Messages /\ turns[t].message # m
    BY <1>4, <1>8 DEF LiveUser, TurnInv, UserHasMessage
  <2>2. admissions.entries[turns[t].message] = RunningEntry(t)
    BY <1>1, <1>8 DEF AdmissionInv, AdmittedIsHeld
  <2> QED
    BY <1>7, <2>1, <2>2, EntriesDiffer DEF Held
<1>9. ASSUME NEW i \in 1..Len(queue')
      PROVE  admissions'.entries[queue'[i].message] = QueuedEntry
  BY <1>1, <1>2, <1>3, <1>4, <1>7, QueueMessages, EntriesDiffer
  DEF AdmissionInv, AdmittedIsHeld, Held
<1> QED
  BY <1>1, <1>5, <1>6, <1>8, <1>9 DEF AdmissionInv, AdmittedIsHeld

(* An outcome gives up the entry of its own turn, which has ended. *)
LEMMA OutcomeHolds ==
  ASSUME TypeOK, NEW t \in Turns, ~LiveUser(t)', NEW m \in Messages, Held(m)
  PROVE  AdmissionsAfter(t).entries[m] = admissions.entries[m] \/ Dropped(m)
BY MarkTerminalKeeps DEF Dropped

(* record_turn_outcome runs the oldest queued message. *)
LEMMA PopAdmits ==
  ASSUME TypeOK, TurnInv, AdmissionInv, NEW t \in Turns, NEW kind, OutcomeDispatchesNext(t, kind)
  PROVE  AdmissionInv'
<1>1. /\ queue # <<>> /\ queue' = QueueAfterPop /\ initialized' = initialized /\ CanMint
      /\ admissions' = MarkRunning(AdmissionsAfter(t), OldestQueued.message, NewTurn)
      /\ Reports(t, kind)
  BY DEF OutcomeDispatchesNext, SettleActive
<1>2. NewTurn \in Turns /\ NewTurn # t /\ turns[t].phase # "unused"
  BY <1>1, SettleFacts, NewTurnType
<1>3. PICK m : m = OldestQueued.message
  OBVIOUS
<1>4. /\ Begun(NewTurn, "user", m) /\ turns'[t].phase = "reported"
  BY <1>2, <1>3, ReportedBegun DEF OutcomeDispatchesNext
<1>5. /\ Len(queue) >= 1 /\ Len(queue') = Len(queue) - 1 /\ queue[1].message = m
      /\ \A i \in 1..Len(queue') : queue'[i] = queue[i + 1]
  BY <1>1, <1>3, PoppedQueue
<1>6. /\ 1 \in 1..Len(queue)
      /\ \A i \in 1..Len(queue') : i + 1 \in 1..Len(queue) /\ i + 1 # 1
  BY <1>5, QueueMessages
<1>7. m \in Messages
  BY <1>5, <1>6, QueueMessages
<1>8. turns'[NewTurn].message = m /\ \A x \in Turns : x # NewTurn => UserKept(x)
  BY <1>4 DEF Begun, Carried, UserKept, LiveUser, Unfinished
<1>9. ~LiveUser(t)'
  BY <1>4 DEF LiveUser, Unfinished
<1>10. AtMostOnce'
  <2>1. \A x \in Turns : LiveUser(x) => turns[x].message # m
    BY <1>5, <1>6 DEF AdmissionInv, AtMostOnce
  <2>2. \A x, u \in Turns :
          LiveUser(x)' /\ LiveUser(u)' /\ turns'[x].message = turns'[u].message => x = u
    BY <1>8, <2>1 DEF UserKept, AdmissionInv, AtMostOnce
  <2>3. ASSUME NEW i \in 1..Len(queue'), NEW j \in 1..Len(queue'),
               queue'[i].message = queue'[j].message
        PROVE  i = j
    <3>1. i + 1 = j + 1
      BY <1>5, <1>6, <2>3 DEF AdmissionInv, AtMostOnce
    <3> QED
      BY <3>1
  <2>4. ASSUME NEW x \in Turns, NEW i \in 1..Len(queue'), LiveUser(x)'
        PROVE  turns'[x].message # queue'[i].message
    <3>1. queue'[i] = queue[i + 1] /\ queue[i + 1].message # m
      BY <1>5, <1>6 DEF AdmissionInv, AtMostOnce
    <3> QED
      BY <1>6, <1>8, <2>4, <3>1 DEF UserKept, AdmissionInv, AtMostOnce
  <2> QED
    BY <2>2, <2>3, <2>4 DEF AtMostOnce
<1>11. ASSUME initialized
       PROVE  /\ admissions'.entries[m] = RunningEntry(NewTurn)
              /\ \A x \in Messages : x # m /\ Held(x) =>
                   admissions'.entries[x] = admissions.entries[x] \/ Dropped(x)
  <2>1. admissions.entries[m] = QueuedEntry
    BY <1>5, <1>6, <1>11 DEF AdmissionInv, AdmittedIsHeld
  <2>2. AdmissionsAfter(t).entries[m] = QueuedEntry
    BY <1>7, <2>1, EntriesDiffer, MarkTerminalKeeps DEF Held
  <2>3. ~Fresh(AdmissionsAfter(t), m)
    BY <2>2, EntriesDiffer DEF Fresh
  <2>4. AdmissionsAfter(t) \in AdmissionSet
    BY MarkTerminalType DEF AdmissionsAfter, TypeOK
  <2>5. /\ admissions'.entries[m] = RunningEntry(NewTurn)
        /\ \A x \in Messages : x # m =>
             admissions'.entries[x] = AdmissionsAfter(t).entries[x]
    BY <1>1, <1>3, <1>7, <2>3, <2>4 DEF MarkRunning, AdmissionSet
  <2> QED
    BY <1>9, <2>5, OutcomeHolds
<1>12. ASSUME initialized, NEW x \in Turns, LiveUser(x)'
       PROVE  admissions'.entries[turns'[x].message] = RunningEntry(x)
  <2>1. CASE x # NewTurn
    <3>1. LiveUser(x) /\ turns'[x].message = turns[x].message
      BY <1>8, <1>12, <2>1 DEF UserKept
    <3>2. turns[x].message \in Messages /\ turns[x].message # m
      BY <1>5, <1>6, <3>1 DEF LiveUser, TurnInv, UserHasMessage, AdmissionInv, AtMostOnce
    <3>3. admissions.entries[turns[x].message] = RunningEntry(x)
      BY <1>12, <3>1 DEF AdmissionInv, AdmittedIsHeld
    <3>4. ~Dropped(turns[x].message)
      BY <1>12, <3>3, EntriesDiffer DEF Dropped
    <3> QED
      BY <1>11, <1>12, <3>1, <3>2, <3>3, <3>4, EntriesDiffer DEF Held
  <2> QED
    BY <1>8, <1>11, <1>12, <2>1
<1>13. ASSUME initialized, NEW i \in 1..Len(queue')
       PROVE  admissions'.entries[queue'[i].message] = QueuedEntry
  <2>1. queue'[i] = queue[i + 1] /\ queue[i + 1].message \in Messages /\ queue[i + 1].message # m
    BY <1>5, <1>6, QueueMessages DEF AdmissionInv, AtMostOnce
  <2>2. admissions.entries[queue[i + 1].message] = QueuedEntry
    BY <1>6, <1>13 DEF AdmissionInv, AdmittedIsHeld
  <2>3. ~Dropped(queue[i + 1].message)
    BY <2>2, EntriesDiffer DEF Dropped
  <2> QED
    BY <1>11, <1>13, <2>1, <2>2, <2>3, EntriesDiffer DEF Held
<1> QED
  BY <1>1, <1>10, <1>12, <1>13 DEF AdmissionInv, AdmittedIsHeld

(* Only StartTurnIdle and an outcome that pops the queue dispatch a message. *)
LEMMA UsersKept ==
  ASSUME TypeOK, TurnInv, [Next]_vars, ~\E m \in Messages : StartTurnIdle(m),
         ~\E t \in Turns : \E kind : OutcomeDispatchesNext(t, kind)
  PROVE  \A x \in Turns : UserKept(x)
<1>1. minted # NewTurn /\ generation # generation + 1
  BY BoundsAssumption DEF TypeOK, NewTurn
<1>2. ASSUME NEW m \in Messages, StartTurnQueued(m)
      PROVE  Len(queue') = Len(queue) + 1 /\ Len(queue) \in Nat
  BY <1>2, PushedQueue, QueueMessages DEF StartTurnQueued
<1>q. \/ Len(queue') = Len(queue) + 1
      \/ generation' = generation /\ (queue' = queue \/ minted' = minted)
      \/ minted' = minted /\ initialized /\ ~initialized'
  <2>1. ASSUME NEW scope, Cancel(scope)
        PROVE  generation' = generation /\ minted' = minted
    BY <2>1 DEF Cancel
  <2>2. Destroy => minted' = minted /\ initialized /\ ~initialized'
    BY DEF Destroy
  <2> QED
    BY <1>2, <2>1, <2>2, QueueSteps
<1>3. ~StartsNow
  <2> SUFFICES ASSUME StartsNow PROVE FALSE
    OBVIOUS
  <2>1. generation' = generation + 1 /\ queue' = queue /\ minted' = NewTurn
    BY DEF StartsNow
  <2>2. Len(queue) \in Nat
    BY QueueMessages
  <2> QED
    BY <1>1, <1>q, <2>1, <2>2
<1>4. ~DispatchesOldest
  <2> SUFFICES ASSUME DispatchesOldest PROVE FALSE
    OBVIOUS
  <2>1. Len(queue') = Len(queue) - 1 /\ Len(queue) \in Nat /\ minted' = NewTurn
    BY PoppedQueue, QueueMessages DEF DispatchesOldest
  <2> QED
    BY <1>1, <1>q, <2>1
<1>5. \A x \in Turns : turns'[x].trigger = "user" => turns[x].trigger = "user"
  BY <1>3, <1>4, EveryStepHasAClass
  DEF LedgerStep, Queues, Rejects, Ends, Continues, SameTurns, DispatchesOther, Dispatches
<1>6. \A x \in Turns : Carried(x) => UserKept(x)
  BY DEF Carried, UserKept, LiveUser, Unfinished
<1>7. ASSUME NEW n, NEW trigger, NEW m, Begins(n, trigger, m), NEW x \in Turns
      PROVE  UserKept(x)
  <2>1. n \in Turns /\ turns[n].phase = "unused"
    BY <1>7, BeginsUnused DEF Begins, TurnInv
  <2>2. turns'[n].trigger # "user"
    BY <1>5, <2>1 DEF TurnInv, UserHasMessage
  <2> QED
    BY <1>6, <1>7, <2>2 DEF Begins, Begun, UserKept, LiveUser
<1> QED
  BY <1>6, <1>7, EveryStepHasATurnClass DEF TurnClass, Stays, Rests, AllCarried

(* An outcome ends its turn. *)
LEMMA OutcomeEnds ==
  ASSUME TypeOK, TurnInv, NEW t \in Turns,
         \/ RecordTurnOutcome(t) /\ ~\E kind : OutcomeDispatchesNext(t, kind)
         \/ \E elapsed \in BOOLEAN : OutcomeResumesParent(t, elapsed)
  PROVE  admissions' = AdmissionsAfter(t) /\ turns'[t].phase = "reported"
<1>1. ASSUME NEW kind, turns' = Reported(t, kind), Reports(t, kind)
      PROVE  turns'[t].phase = "reported"
  BY <1>1, SettleFacts, ReportedCarried
<1>2. ASSUME NEW kind, Reports(t, kind), NEW n \in Turns, n # t, NEW trigger, NEW g,
             turns' = [Reported(t, kind) EXCEPT ![n] = RunTurn(trigger, NoMessage, g)]
      PROVE  turns'[t].phase = "reported"
  BY <1>2, SettleFacts, ReportedBegun
<1>3. ASSUME NEW kind, NEW entry \in schedule.queued, OutcomeContinues(t, kind, entry)
      PROVE  admissions' = AdmissionsAfter(t) /\ turns'[t].phase = "reported"
  <2>1. entry.turn \in Turns
    BY DEF TypeOK, ScheduleSet, ReviewEntry
  <2>2. entry.turn # t /\ Reports(t, kind)
    BY <1>3, SettleFacts DEF OutcomeContinues, SettleActive
  <2> QED
    BY <1>2, <1>3, <2>1, <2>2 DEF OutcomeContinues
<1>4. ASSUME NEW elapsed, OutcomeResumesParent(t, elapsed)
      PROVE  admissions' = AdmissionsAfter(t) /\ turns'[t].phase = "reported"
  <2>1. NewTurn \in Turns /\ NewTurn # t /\ Reports(t, "Completed")
    BY <1>4, SettleFacts, NewTurnType DEF OutcomeResumesParent, SettleActive
  <2> QED
    BY <1>2, <1>4, <2>1 DEF OutcomeResumesParent
<1>5. ASSUME NEW kind, OutcomeStale(t, kind) \/ \E elapsed : OutcomeIdles(t, kind, elapsed)
      PROVE  admissions' = AdmissionsAfter(t) /\ turns'[t].phase = "reported"
  BY <1>1, <1>5 DEF OutcomeStale, OutcomeIdles, SettleActive
<1> QED
  BY <1>3, <1>4, <1>5 DEF RecordTurnOutcome

(* The fence during the steps that leave the queue alone. *)
LEMMA FenceHeld ==
  ASSUME TypeOK, TurnInv, [Next]_vars, NEW m \in Messages,
         ~\E x \in Messages : StartTurnIdle(x) \/ StartTurnQueued(x),
         ~\E t \in Turns : \E kind : OutcomeDispatchesNext(t, kind),
         ~Destroy, ~\E scope \in CancelKinds : Cancel(scope)
  PROVE  HeldOrDropped(m)
<1>1. ASSUME NEW t \in Turns,
             \/ RecordTurnOutcome(t) /\ ~\E kind : OutcomeDispatchesNext(t, kind)
             \/ \E elapsed \in BOOLEAN : OutcomeResumesParent(t, elapsed)
      PROVE  HeldOrDropped(m)
  BY <1>1, OutcomeEnds, OutcomeHolds DEF HeldOrDropped, LiveUser, Unfinished
<1>2. ASSUME NEW x \in Messages, NEW input \in inputs, StartTurnReply(x, input)
      PROVE  HeldOrDropped(m)
  <2>1. Fresh(admissions, x) /\ admissions' = RecordTerminal(admissions, x, clock)
    BY <1>2 DEF StartTurnReply, Admissible
  <2>2. Held(m) => m # x
    BY <2>1 DEF Held, Fresh
  <2> QED
    BY <2>1, <2>2, RecordFields DEF HeldOrDropped
<1>3. ASSUME \/ RequestCancel
             \/ \E t \in Turns : RegisterCoordinatorInput(t) \/ ClearCoordinatorInput(t)
             \/ \E t \in Turns : \E review \in Reviews : RegisterActionReview(t, review)
             \/ \E review \in Reviews : ReviewDropped(review) \/ ReviewResolved(review)
             \/ \E review \in Reviews : \E resumeQueued \in BOOLEAN :
                  ReleaseActionReview(review, resumeQueued)
      PROVE  admissions' = admissions
  BY <1>3 DEF RequestCancel, RegisterCoordinatorInput, ClearCoordinatorInput,
              RegisterActionReview, ReviewDropped, ReviewResolved, ReleaseActionReview,
              KeptByReview
<1>4. ASSUME \/ \E t \in Turns : \E run \in Runs : ExecutionRunStarted(t, run)
             \/ \E run \in Runs : ExecutionTerminal(run)
             \/ \E s \in Signals : \E elapsed \in BOOLEAN : RecordChildSignal(s, elapsed)
             \/ \E w \in Waiters : \E t \in Turns : AttachTurnWaiter(w, t)
             \/ \E w \in Waiters : RemoveTurnWaiter(w)
             \/ TurnAdmissionHeartbeat \/ LeaseExpires \/ Tick \/ UNCHANGED vars
      PROVE  admissions' = admissions
  BY <1>4 DEF ExecutionRunStarted, ExecutionTerminal, RecordChildSignal, AttachTurnWaiter,
              RemoveTurnWaiter, TurnAdmissionHeartbeat, LeaseExpires, Tick, vars, otherVars
<1> QED
  BY <1>1, <1>2, <1>3, <1>4 DEF Next, HeldOrDropped

(* Every step keeps messages admitted once. *)
LEMMA AdmissionStep ==
  ASSUME TypeOK, TurnInv, AdmissionInv, [Next]_vars
  PROVE  AdmissionInv'
<1>1. CASE \E m \in Messages : StartTurnIdle(m) \/ StartTurnQueued(m)
  BY <1>1, StartAdmits, QueueAdmits
<1>2. CASE \E t \in Turns : \E kind : OutcomeDispatchesNext(t, kind)
  BY <1>2, PopAdmits
<1>3. ASSUME ~\E m \in Messages : StartTurnIdle(m) \/ StartTurnQueued(m),
             ~\E t \in Turns : \E kind : OutcomeDispatchesNext(t, kind)
      PROVE  AdmissionInv'
  <2>1. \A x \in Turns : UserKept(x)
    BY <1>3, UsersKept
  <2>2. CASE Destroy
    BY <2>1, <2>2, AdmitsNoneStep DEF Destroy, AdmitsNone
  <2>3. ASSUME NEW scope \in CancelKinds, Cancel(scope)
        PROVE  AdmissionInv'
    <3>1. initialized' = initialized /\ queue' \in {queue, <<>>} /\ initialized
      BY <2>3 DEF Cancel
    <3>2. \/ queue' = <<>> /\ admissions' = MarkRejected(admissions, queue, clock)
          \/ admissions' = admissions
      BY <2>3 DEF Cancel
    <3>3. ASSUME NEW m \in Messages
          PROVE  \/ HeldOrDropped(m)
                 \/ queue' = <<>> /\ \E i \in 1..Len(queue) : queue[i].message = m
      BY <3>2, MarkRejectedKeeps DEF HeldOrDropped
    <3> QED
      BY <2>1, <3>1, <3>3, AdmitsNoneStep DEF AdmitsNone
  <2>4. ASSUME ~Destroy, ~\E scope \in CancelKinds : Cancel(scope)
        PROVE  AdmissionInv'
    <3>1. queue' = queue /\ initialized' = initialized
      BY <1>3, <2>4, QueueSteps
    <3>2. \A m \in Messages : HeldOrDropped(m)
      BY <1>3, <2>4, FenceHeld
    <3> QED
      BY <2>1, <3>1, <3>2, AdmitsNoneStep DEF AdmitsNone
  <2> QED
    BY <2>2, <2>3, <2>4
<1> QED
  BY <1>1, <1>2, <1>3

(* The size of a set with at most one element. *)
LEMMA AtMostOneElement ==
  ASSUME NEW S, S = {} \/ \E x : S = {x}
  PROVE  Cardinality(S) = 0 \/ (Cardinality(S) = 1 /\ S # {})
<1>1. CASE S = {}
  <2>1. IsFiniteSet(S)
    BY <1>1, FS_EmptySet, Zenon
  <2>2. Cardinality(S) = 0
    BY <1>1, <2>1, FS_EmptySet, Zenon
  <2> QED
    BY <2>2
<1>2. ASSUME NEW x, S = {x}
      PROVE  Cardinality(S) = 1 /\ S # {}
  BY <1>2, FS_Singleton
<1> QED
  BY <1>1, <1>2

(* A message that is queued or whose turn is unfinished is never admitted again, for
   every number of messages and turns, every retention window and every order of
   retries, outcomes, cancellations and evictions: its entry stays in the admission
   fence until its turn has reported or its rejection is recorded. *)
THEOREM AdmittedOnceAtATime == Spec => []NoSecondAdmission
<1>1. Init => AdmissionInv
  BY DEF Init, AdmissionInv, AtMostOnce, AdmittedIsHeld, LiveUser, Unfinished, UnusedTurn
<1>2. TypeOK /\ TurnInv /\ AdmissionInv /\ [Next]_vars => AdmissionInv'
  BY AdmissionStep
<1>3. AdmissionInv => NoSecondAdmission
  <2> SUFFICES ASSUME AdmissionInv, NEW m \in Messages
               PROVE  Cardinality({t \in UserTurns : turns[t].message = m /\ Unfinished(t)})
                        + Cardinality({i \in 1..Len(queue) : queue[i].message = m}) <= 1
    BY DEF NoSecondAdmission
  <2>1. PICK A : A = {t \in UserTurns : turns[t].message = m /\ Unfinished(t)}
    OBVIOUS
  <2>2. PICK B : B = {i \in 1..Len(queue) : queue[i].message = m}
    OBVIOUS
  <2>3. A = {} \/ \E t : A = {t}
    <3>1. \A t, u \in A : t = u
      BY <2>1 DEF UserTurns, AdmissionInv, AtMostOnce, LiveUser
    <3> QED
      BY <3>1
  <2>4. B = {} \/ \E i : B = {i}
    <3>1. \A i, j \in B : i = j
      BY <2>2 DEF AdmissionInv, AtMostOnce
    <3> QED
      BY <3>1
  <2>5. A = {} \/ B = {}
    BY <2>1, <2>2 DEF UserTurns, AdmissionInv, AtMostOnce, LiveUser
  <2>6. Cardinality(A) + Cardinality(B) <= 1
    <3>1. /\ Cardinality(A) = 0 \/ (Cardinality(A) = 1 /\ A # {})
          /\ Cardinality(B) = 0 \/ (Cardinality(B) = 1 /\ B # {})
      BY <2>3, <2>4, AtMostOneElement
    <3> QED
      BY <2>5, <3>1
  <2> QED
    BY <2>1, <2>2, <2>6
<1> QED
  BY <1>1, <1>2, <1>3, SessionTypeCorrect, TurnsInOrder, PTL DEF Spec
================================================================================
