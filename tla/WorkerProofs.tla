------------------------------ MODULE WorkerProofs ------------------------------
(***************************************************************************)
(* The Worker virtual object, for any number of turns, parent messages,    *)
(* reviews, waiters, questions and liveness deadlines.                     *)
(***************************************************************************)
EXTENDS Worker, TLAPS

TurnRecord == [phase : Phases, generation : 0..MaxGeneration, review : BOOLEAN,
               cancel : BOOLEAN, kind : {"none", "Completed", "Cancelled", "Failed"},
               answer : Replies \cup {NoReply}]

Entry == [review : Reviews, turn : Turns, generation : Nat, ordinal : Nat]

Schedule == [nextOrdinal : Nat, registered : SUBSET Entry, queued : SUBSET Entry]

Ticks == [kind : {"liveness", "cleanup"}, generation : Nat]

Entries(s) == s.registered \cup s.queued

Working == {"model", "tool", "registered", "waiting"}

Reporting == delivered \/ suspended = "deliver"

(* A worker that is not spawned has nothing, and a cleared one only what others
   still hold of it. *)
BlankIsEmpty ==
  /\ ~spawned => /\ ~initialized /\ ticks = {} /\ asleep = {}
                 /\ \A t \in Turns : turns[t].phase = "unused"
  /\ initialized => generation > 0
  /\ ~initialized => /\ generation = 0 /\ active = NoTurn /\ pending = {} /\ ~delivered
                     /\ Entries(schedule) = {} /\ watch = NoWatch /\ suspended = "none"

(* The status a live turn leaves behind: it runs until it is done, and then its
   outcome, unless a message that it did not read made the worker Running. *)
DoneStatus(t) ==
  \/ turns[t].kind = "Completed" /\ status = "Completed"
  \/ turns[t].kind = "Completed" /\ status = "Running" /\ pending # {}
  \/ turns[t].kind = "Cancelled" /\ status \in {"Running", "Cancelled"}
  \/ turns[t].kind = "Failed" /\ status = "Running"

(* A live turn is the active one, or it is done and the worker was cleared. *)
LiveIsActive ==
  \A t \in Turns : Live(t) =>
    \/ ~initialized /\ turns[t].phase = "done"
    \/ /\ initialized /\ active = t /\ turns[t].generation <= generation
       /\ turns[t].phase # "done" => status = "Running"
       /\ turns[t].phase = "done" => DoneStatus(t)

(* A turn that has read its messages: nothing is buffered until the next message
   supersedes it, and it knows of the cancellation. *)
WorkingIsCurrent ==
  \A t \in Turns : turns[t].phase \in Working =>
    /\ cancelled => turns[t].cancel
    /\ turns[t].generation = generation => pending = {}

(* A review is raised once, and leaves the registered ones for the queue. *)
ReviewsAreRaised ==
  /\ \A e \in Entries(schedule) : e.review \in raised
  /\ \A e \in schedule.registered, f \in schedule.queued : e.review # f.review

(* Reviews are open only of a worker that has read its messages. A cancelled worker
   has at most the one that its turn raised after the cancellation, and that turn
   raises no other. *)
ReviewsAreCurrent ==
  /\ RegisteredCanContinue
  /\ ReviewsAreRaised
  /\ Entries(schedule) # {} => initialized /\ pending = {}
  /\ cancelled /\ Entries(schedule) # {} =>
       /\ \A e, f \in Entries(schedule) : e = f
       /\ \A t \in Turns : Live(t) => turns[t].cancel
                                      /\ turns[t].phase \in {"start", "model", "done"}

(* A report is of a terminal worker with nothing open, and wakes everyone. *)
ReportIsFinal ==
  /\ Reporting => /\ initialized /\ Terminal(status)
                  /\ Entries(schedule) = {} /\ asleep = {}
                  /\ status = "Completed" => pending = {}
  /\ suspended = "deliver" => ~delivered
  /\ asleep \subseteq waiters

(* A worker without a turn is terminal, and has reported unless it was cancelled or
   a review is open. *)
IdleHasReported ==
  initialized /\ active = NoTurn =>
    /\ Terminal(status)
    /\ ~Stopped(status) => pending = {}
    /\ /\ suspended # "deliver" /\ Entries(schedule) = {}
       /\ status \in {"Completed", "Failed"}
       => HasReported

(* Deadlines are scheduled once per generation of the slot. *)
WatchIsOrdered ==
  /\ OutstandingIsScheduled
  /\ suspended = "stale" => watch.outstanding /\ LiveTick(watch.generation) \notin ticks
  /\ \A tick \in ticks : tick.kind = "liveness" =>
       tick.generation > 0 /\ (initialized => tick.generation <= watch.generation)

WorkerInv ==
  /\ TypeOK
  /\ BlankIsEmpty
  /\ LiveIsActive
  /\ WorkingIsCurrent
  /\ ReviewsAreCurrent
  /\ ReportIsFinal
  /\ IdleHasReported
  /\ WatchIsOrdered
  /\ ParkedIsAnswerable

--------------------------------------------------------------------------------
(* Types of what the handlers build.                                            *)

(* An unused turn and a dispatched one. *)
LEMMA TurnFacts ==
  /\ UnusedTurn \in TurnRecord /\ UnusedTurn.phase = "unused"
  /\ \A g \in 0..MaxGeneration, b \in BOOLEAN :
       /\ Dispatched(g, b) \in TurnRecord /\ Dispatched(g, b).phase = "start"
       /\ Dispatched(g, b).generation = g /\ ~Dispatched(g, b).cancel
       /\ Dispatched(g, b).answer = NoReply
<1>1. UnusedTurn \in TurnRecord /\ UnusedTurn.phase = "unused"
  BY WorkerAssumption DEF UnusedTurn, TurnRecord, Phases
<1>2. ASSUME NEW g \in 0..MaxGeneration, NEW b \in BOOLEAN
      PROVE  /\ Dispatched(g, b) \in TurnRecord /\ Dispatched(g, b).phase = "start"
             /\ Dispatched(g, b).generation = g /\ ~Dispatched(g, b).cancel
             /\ Dispatched(g, b).answer = NoReply
  BY DEF Dispatched, UnusedTurn, TurnRecord, Phases
<1> QED
  BY <1>1, <1>2

(* The type invariant by its parts. *)
LEMMA TypeParts ==
  TypeOK <=>
    /\ initialized \in BOOLEAN
    /\ status \in {"Uninitialized", "Running", "Completed", "Cancelled", "Failed"}
    /\ active \in Turns \cup {NoTurn} /\ pending \subseteq 1..MaxGeneration
    /\ cancelled \in BOOLEAN /\ delivered \in BOOLEAN
    /\ waiters \subseteq Waiters /\ asleep \subseteq Waiters
    /\ generation \in 0..MaxGeneration
    /\ schedule \in Schedule
    /\ inputs \subseteq Turns /\ history \subseteq InputTurns \X Replies
    /\ watch \in [generation : 0..MaxWatch, outstanding : BOOLEAN]
    /\ cleanup \in [generation : Nat, attempts : 0..(MaxRelease - 1)]
    /\ suspended \in {"none", "deliver", "stale"}
    /\ ticks \subseteq Ticks
    /\ turns \in [Turns -> TurnRecord]
    /\ minted \in 0..MaxTurns /\ spawned \in BOOLEAN
    /\ raised \subseteq Reviews /\ refused \subseteq 1..MaxGeneration
  BY DEF TypeOK, TurnRecord, Entry, Schedule, Ticks

(* A worker starts blank. *)
LEMMA InitInv == Init => WorkerInv
<1> SUFFICES ASSUME Init PROVE WorkerInv
  OBVIOUS
<1> USE DEF Init
<1>1. schedule \in Schedule /\ Entries(schedule) = {}
  BY DEF EmptySchedule, Schedule, Entries
<1>2. /\ watch \in [generation : 0..MaxWatch, outstanding : BOOLEAN] /\ ~watch.outstanding
      /\ cleanup \in [generation : Nat, attempts : 0..(MaxRelease - 1)]
  BY WorkerAssumption DEF NoWatch, NoCleanup
<1>3. turns \in [Turns -> TurnRecord] /\ \A t \in Turns : turns[t].phase = "unused"
  BY TurnFacts
<1>4. TypeOK
  <2>1. 0 \in 0..MaxGeneration /\ 0 \in 0..MaxTurns
    BY WorkerAssumption
  <2> QED
    BY <1>1, <1>2, <1>3, <2>1, TypeParts
<1>5. BlankIsEmpty
  BY <1>1, <1>3 DEF BlankIsEmpty
<1>6. LiveIsActive /\ WorkingIsCurrent /\ ParkedIsAnswerable
  BY <1>3 DEF LiveIsActive, WorkingIsCurrent, ParkedIsAnswerable, Live, Working
<1>7. ReviewsAreCurrent
  BY <1>1 DEF ReviewsAreCurrent, RegisteredCanContinue, ReviewsAreRaised, Entries
<1>8. ReportIsFinal /\ IdleHasReported
  BY DEF ReportIsFinal, Reporting, IdleHasReported
<1>9. WatchIsOrdered
  BY <1>2 DEF WatchIsOrdered, OutstandingIsScheduled
<1> QED
  BY <1>4, <1>5, <1>6, <1>7, <1>8, <1>9 DEF WorkerInv

--------------------------------------------------------------------------------
(* Steps of a turn.                                                             *)

(* A turn moves on and nothing else changes. *)
LEMMA TurnMovesInv ==
  ASSUME WorkerInv, NEW t \in Turns, NEW rec \in TurnRecord,
         turns' = [turns EXCEPT ![t] = rec],
         UNCHANGED <<lifeVars, coordVars, suspended, ticks, minted, spawned, raised,
                     asleep, refused>>,
         rec.generation = turns[t].generation, rec.cancel = turns[t].cancel,
         rec.answer = turns[t].answer, Live(t),
         \/ rec.phase = "reported" /\ ~initialized
         \/ /\ turns[t].phase # "done" /\ rec.phase \notin {"unused", "reported"}
            /\ rec.phase = "done" => rec.kind \in {"Cancelled", "Failed"}
            /\ rec.phase \in Working => turns[t].phase \in Working
            /\ rec.phase \in {"registered", "waiting"} => turns[t].phase = "registered"
            /\ \/ rec.phase \in {"start", "model", "done"} \/ ~turns[t].cancel
               \/ turns[t].phase \notin {"start", "model", "done"}
  PROVE  WorkerInv'
<1> USE DEF WorkerInv, lifeVars, coordVars
<1>1. turns \in [Turns -> TurnRecord]
  BY TypeParts
<1>2. /\ turns' \in [Turns -> TurnRecord] /\ turns'[t] = rec
      /\ \A u \in Turns : u # t => turns'[u] = turns[u]
  BY <1>1
<1>3. TypeOK'
  BY <1>2, TypeParts DEF TypeOK, TurnRecord
<1>4. BlankIsEmpty'
  BY <1>2 DEF BlankIsEmpty, Live
<1>5. LiveIsActive'
  BY <1>2 DEF LiveIsActive, Live, DoneStatus
<1>6. WorkingIsCurrent'
  BY <1>2 DEF WorkingIsCurrent, Working
<1>7. ReviewsAreCurrent'
  BY <1>2 DEF ReviewsAreCurrent, RegisteredCanContinue, ReviewsAreRaised, Live
<1>8. ReportIsFinal' /\ IdleHasReported'
  BY DEF ReportIsFinal, Reporting, IdleHasReported, HasReported
<1>9. WatchIsOrdered'
  BY DEF WatchIsOrdered, OutstandingIsScheduled
<1>10. ParkedIsAnswerable'
  BY <1>2 DEF ParkedIsAnswerable
<1> QED
  BY <1>3, <1>4, <1>5, <1>6, <1>7, <1>8, <1>9, <1>10

Moved(t, p) == [turns EXCEPT ![t].phase = p]

(* A turn changes its phase ... *)
LEMMA MoveFacts ==
  ASSUME turns \in [Turns -> TurnRecord], NEW t \in Turns, NEW p \in Phases
  PROVE  \E rec \in TurnRecord :
           /\ Moved(t, p) = [turns EXCEPT ![t] = rec]
           /\ rec.phase = p /\ rec.kind = turns[t].kind
           /\ rec.generation = turns[t].generation
           /\ rec.cancel = turns[t].cancel /\ rec.answer = turns[t].answer
<1> DEFINE rec == [turns[t] EXCEPT !.phase = p]
<1>1. /\ rec \in TurnRecord /\ rec.phase = p /\ rec.kind = turns[t].kind
      /\ rec.generation = turns[t].generation
      /\ rec.cancel = turns[t].cancel /\ rec.answer = turns[t].answer
  BY DEF TurnRecord
<1>2. Moved(t, p) = [turns EXCEPT ![t] = rec]
  BY DEF Moved
<1> QED
  BY <1>1, <1>2

(* ... and with its end its outcome. *)
LEMMA DoneFacts ==
  ASSUME turns \in [Turns -> TurnRecord], NEW t \in Turns,
         NEW k \in {"Completed", "Cancelled", "Failed"}
  PROVE  \E rec \in TurnRecord :
           /\ Done(t, k) = [turns EXCEPT ![t] = rec]
           /\ rec.phase = "done" /\ rec.kind = k
           /\ rec.generation = turns[t].generation
           /\ rec.cancel = turns[t].cancel /\ rec.answer = turns[t].answer
<1> DEFINE rec == [turns[t] EXCEPT !.phase = "done", !.kind = k]
<1>1. /\ rec \in TurnRecord /\ rec.phase = "done" /\ rec.kind = k
      /\ rec.generation = turns[t].generation
      /\ rec.cancel = turns[t].cancel /\ rec.answer = turns[t].answer
  BY DEF TurnRecord, Phases
<1>2. Done(t, k) = [turns EXCEPT ![t] = rec]
  BY DEF Done
<1> QED
  BY <1>1, <1>2

(* The moves of a turn that touch nothing but the turn. *)
LEMMA MovesInv ==
  ASSUME WorkerInv, NEW t \in Turns,
         \/ BeginIteration(t) \/ ObserveCancel(t) \/ CallTool(t) \/ ToolReturns(t)
         \/ FailTurn(t) \/ Advertise(t) \/ AwaitAnswered(t) \/ OutcomeRejected(t)
  PROVE  WorkerInv'
<1>1. turns \in [Turns -> TurnRecord] /\ turns[t] \in TurnRecord
  BY TypeParts DEF WorkerInv
<1>2. CASE BeginIteration(t)
  <2>1. turns' = Moved(t, "preparing") /\ "preparing" \in Phases
    BY <1>2 DEF BeginIteration, Moved, Phases
  <2>2. PICK rec \in TurnRecord :
          /\ turns' = [turns EXCEPT ![t] = rec] /\ rec.phase = "preparing"
          /\ rec.generation = turns[t].generation
          /\ rec.cancel = turns[t].cancel /\ rec.answer = turns[t].answer
    BY <1>1, <2>1, MoveFacts
  <2> QED
    BY <1>2, <2>2, TurnMovesInv DEF BeginIteration, Live, Working
<1>3. CASE ObserveCancel(t)
  <2>1. PICK rec \in TurnRecord :
          /\ turns' = [turns EXCEPT ![t] = rec] /\ rec.phase = "done" /\ rec.kind = "Cancelled"
          /\ rec.generation = turns[t].generation
          /\ rec.cancel = turns[t].cancel /\ rec.answer = turns[t].answer
    BY <1>1, <1>3, DoneFacts DEF ObserveCancel
  <2> QED
    BY <1>3, <2>1, TurnMovesInv DEF ObserveCancel, Live, Working
<1>4. CASE CallTool(t)
  <2>1. turns' = Moved(t, "tool") /\ "tool" \in Phases
    BY <1>4 DEF CallTool, Moved, Phases
  <2>2. PICK rec \in TurnRecord :
          /\ turns' = [turns EXCEPT ![t] = rec] /\ rec.phase = "tool"
          /\ rec.generation = turns[t].generation
          /\ rec.cancel = turns[t].cancel /\ rec.answer = turns[t].answer
    BY <1>1, <2>1, MoveFacts
  <2> QED
    BY <1>4, <2>2, TurnMovesInv DEF CallTool, Live, Working
<1>5. CASE ToolReturns(t)
  <2>1. turns' = Moved(t, "model") /\ "model" \in Phases
    BY <1>5 DEF ToolReturns, Moved, Phases
  <2>2. PICK rec \in TurnRecord :
          /\ turns' = [turns EXCEPT ![t] = rec] /\ rec.phase = "model"
          /\ rec.generation = turns[t].generation
          /\ rec.cancel = turns[t].cancel /\ rec.answer = turns[t].answer
    BY <1>1, <2>1, MoveFacts
  <2> QED
    BY <1>5, <2>2, TurnMovesInv DEF ToolReturns, Live, Working
<1>6. CASE FailTurn(t)
  <2>1. PICK rec \in TurnRecord :
          /\ turns' = [turns EXCEPT ![t] = rec] /\ rec.phase = "done" /\ rec.kind = "Failed"
          /\ rec.generation = turns[t].generation
          /\ rec.cancel = turns[t].cancel /\ rec.answer = turns[t].answer
    BY <1>1, <1>6, DoneFacts DEF FailTurn
  <2> QED
    BY <1>6, <2>1, TurnMovesInv DEF FailTurn, Live, Working
<1>7. CASE Advertise(t)
  <2>1. turns' = Moved(t, "waiting") /\ "waiting" \in Phases
    BY <1>7 DEF Advertise, Moved, Phases
  <2>2. PICK rec \in TurnRecord :
          /\ turns' = [turns EXCEPT ![t] = rec] /\ rec.phase = "waiting"
          /\ rec.generation = turns[t].generation
          /\ rec.cancel = turns[t].cancel /\ rec.answer = turns[t].answer
    BY <1>1, <2>1, MoveFacts
  <2> QED
    BY <1>7, <2>2, TurnMovesInv DEF Advertise, Live, Working
<1>8. CASE AwaitAnswered(t)
  <2>1. turns' = Moved(t, "model") /\ "model" \in Phases
    BY <1>8 DEF AwaitAnswered, Moved, Phases
  <2>2. PICK rec \in TurnRecord :
          /\ turns' = [turns EXCEPT ![t] = rec] /\ rec.phase = "model"
          /\ rec.generation = turns[t].generation
          /\ rec.cancel = turns[t].cancel /\ rec.answer = turns[t].answer
    BY <1>1, <2>1, MoveFacts
  <2> QED
    BY <1>8, <2>2, TurnMovesInv DEF AwaitAnswered, Live, Working
<1>9. CASE OutcomeRejected(t)
  <2>1. turns' = Moved(t, "reported") /\ "reported" \in Phases
    BY <1>9 DEF OutcomeRejected, Moved, Phases
  <2>2. PICK rec \in TurnRecord :
          /\ turns' = [turns EXCEPT ![t] = rec] /\ rec.phase = "reported"
          /\ rec.generation = turns[t].generation
          /\ rec.cancel = turns[t].cancel /\ rec.answer = turns[t].answer
    BY <1>1, <2>1, MoveFacts
  <2> QED
    BY <1>9, <2>2, TurnMovesInv DEF OutcomeRejected, Live, Working
<1> QED
  BY <1>2, <1>3, <1>4, <1>5, <1>6, <1>7, <1>8, <1>9

(* A turn that is not done yet is the active turn of a Running worker that has
   not reported, and is the only live one. *)
LEMMA RunningTurn ==
  ASSUME WorkerInv, NEW t \in Turns, Live(t), turns[t].phase # "done"
  PROVE  /\ initialized /\ active = t /\ status = "Running" /\ ~Reporting
         /\ t # NoTurn
         /\ \A u \in Turns : Live(u) => u = t
  BY DEF WorkerInv, LiveIsActive, ReportIsFinal, Terminal, NoTurn, Turns

(* prepare_turn ends a cancelled turn or reads the messages. *)
LEMMA PrepareTurnInv ==
  ASSUME WorkerInv, NEW t \in Turns, PrepareTurn(t)
  PROVE  WorkerInv'
<1> USE DEF WorkerInv
<1>1. turns \in [Turns -> TurnRecord] /\ turns[t] \in TurnRecord
  BY TypeParts
<1>2. Live(t) /\ turns[t].phase = "preparing" /\ turns[t].phase # "done"
  BY DEF PrepareTurn, Live
<1>3. /\ initialized /\ active = t /\ status = "Running" /\ ~Reporting /\ t # NoTurn
      /\ \A u \in Turns : Live(u) => u = t
  BY <1>2, RunningTurn
<1>4. /\ UNCHANGED <<initialized, active, cancelled, delivered, waiters, generation,
                     coordVars, suspended, ticks, minted, spawned, raised, asleep,
                     refused>>
  BY DEF PrepareTurn
<1>5. cancelled => Entries(schedule) = {}
  BY <1>2 DEF ReviewsAreCurrent
<1>6. \/ /\ cancelled /\ status' = "Cancelled" /\ pending' = pending
         /\ turns' = Done(t, "Cancelled")
      \/ /\ ~cancelled /\ pending' = {} /\ status' = "Completed"
         /\ turns' = Done(t, "Completed")
      \/ /\ ~cancelled /\ pending' = {} /\ status' = "Running"
         /\ turns' = Moved(t, "model")
  BY <1>3 DEF PrepareTurn, Moved
<1>7. /\ turns' \in [Turns -> TurnRecord]
      /\ \A u \in Turns : u # t => turns'[u] = turns[u]
      /\ turns'[t].cancel = turns[t].cancel /\ turns'[t].generation = turns[t].generation
      /\ \/ /\ cancelled /\ status' = "Cancelled" /\ pending' = pending
            /\ turns'[t].phase = "done" /\ turns'[t].kind = "Cancelled"
         \/ /\ ~cancelled /\ pending' = {} /\ status' = "Completed"
            /\ turns'[t].phase = "done" /\ turns'[t].kind = "Completed"
         \/ /\ ~cancelled /\ pending' = {} /\ status' = "Running"
            /\ turns'[t].phase = "model"
  <2>1. CASE cancelled /\ status' = "Cancelled" /\ pending' = pending /\ turns' = Done(t, "Cancelled")
    <3>1. PICK rec \in TurnRecord :
            /\ turns' = [turns EXCEPT ![t] = rec] /\ rec.phase = "done" /\ rec.kind = "Cancelled"
            /\ rec.cancel = turns[t].cancel /\ rec.generation = turns[t].generation
      BY <1>1, <2>1, DoneFacts
    <3> QED
      BY <1>1, <2>1, <3>1
  <2>2. CASE ~cancelled /\ pending' = {} /\ status' = "Completed" /\ turns' = Done(t, "Completed")
    <3>1. PICK rec \in TurnRecord :
            /\ turns' = [turns EXCEPT ![t] = rec] /\ rec.phase = "done" /\ rec.kind = "Completed"
            /\ rec.cancel = turns[t].cancel /\ rec.generation = turns[t].generation
      BY <1>1, <2>2, DoneFacts
    <3> QED
      BY <1>1, <2>2, <3>1
  <2>3. CASE ~cancelled /\ pending' = {} /\ status' = "Running" /\ turns' = Moved(t, "model")
    <3>1. "model" \in Phases
      BY DEF Phases
    <3>2. PICK rec \in TurnRecord :
            /\ turns' = [turns EXCEPT ![t] = rec] /\ rec.phase = "model"
            /\ rec.cancel = turns[t].cancel /\ rec.generation = turns[t].generation
      BY <1>1, <2>3, <3>1, MoveFacts
    <3> QED
      BY <1>1, <2>3, <3>2
  <2> QED
    BY <1>6, <2>1, <2>2, <2>3
<1>8. TypeOK'
  BY <1>4, <1>7, TypeParts DEF TypeOK, TurnRecord, coordVars
<1>9. BlankIsEmpty'
  BY <1>3, <1>4, <1>2 DEF BlankIsEmpty, coordVars
<1>10. LiveIsActive'
  BY <1>2, <1>3, <1>4, <1>7 DEF LiveIsActive, Live, DoneStatus
<1>11. WorkingIsCurrent'
  BY <1>2, <1>3, <1>4, <1>7 DEF WorkingIsCurrent, Working
<1>12. ReviewsAreCurrent'
  BY <1>3, <1>4, <1>5, <1>7
     DEF ReviewsAreCurrent, RegisteredCanContinue, ReviewsAreRaised, Live, coordVars, Entries, Stopped
<1>13. ReportIsFinal' /\ IdleHasReported'
  BY <1>3, <1>4 DEF ReportIsFinal, Reporting, IdleHasReported
<1>14. WatchIsOrdered'
  BY <1>4 DEF WatchIsOrdered, OutstandingIsScheduled, coordVars
<1>15. ParkedIsAnswerable'
  BY <1>4, <1>7 DEF ParkedIsAnswerable, coordVars
<1> QED
  BY <1>8, <1>9, <1>10, <1>11, <1>12, <1>13, <1>14, <1>15

(* apply_turn_outcome: the turn goes on, or it has answered. *)
LEMMA ApplyOutcomeInv ==
  ASSUME WorkerInv, NEW t \in Turns, ContinueTurn(t) \/ FinishTurn(t)
  PROVE  WorkerInv'
<1> USE DEF WorkerInv
<1>1. turns \in [Turns -> TurnRecord] /\ turns[t] \in TurnRecord
  BY TypeParts
<1>2. Live(t) /\ turns[t].phase = "model" /\ turns[t].phase # "done"
  BY DEF ContinueTurn, FinishTurn, Live
<1>3. /\ initialized /\ active = t /\ status = "Running" /\ ~Reporting /\ t # NoTurn
      /\ \A u \in Turns : Live(u) => u = t
  BY <1>2, RunningTurn
<1>4. /\ UNCHANGED <<initialized, active, pending, cancelled, delivered, waiters,
                     generation, coordVars, suspended, ticks, minted, spawned,
                     raised, asleep, refused>>
  BY DEF ContinueTurn, FinishTurn
<1>5. \/ status' = "Running" /\ turns' = Moved(t, "start")
      \/ status' = "Completed" /\ turns' = Done(t, "Completed")
  BY <1>3 DEF ContinueTurn, FinishTurn, OwnsTurn, Moved
<1>6. /\ turns' \in [Turns -> TurnRecord]
      /\ \A u \in Turns : u # t => turns'[u] = turns[u]
      /\ turns'[t].cancel = turns[t].cancel /\ turns'[t].generation = turns[t].generation
      /\ \/ status' = "Running" /\ turns'[t].phase = "start"
         \/ /\ status' = "Completed"
            /\ turns'[t].phase = "done" /\ turns'[t].kind = "Completed"
  <2>1. CASE status' = "Running" /\ turns' = Moved(t, "start")
    <3>1. "start" \in Phases
      BY DEF Phases
    <3>2. PICK rec \in TurnRecord :
            /\ turns' = [turns EXCEPT ![t] = rec] /\ rec.phase = "start"
            /\ rec.cancel = turns[t].cancel /\ rec.generation = turns[t].generation
      BY <1>1, <2>1, <3>1, MoveFacts
    <3> QED
      BY <1>1, <2>1, <3>2
  <2>2. CASE status' = "Completed" /\ turns' = Done(t, "Completed")
    <3>1. PICK rec \in TurnRecord :
            /\ turns' = [turns EXCEPT ![t] = rec] /\ rec.phase = "done"
            /\ rec.kind = "Completed"
            /\ rec.cancel = turns[t].cancel /\ rec.generation = turns[t].generation
      BY <1>1, <2>2, DoneFacts
    <3> QED
      BY <1>1, <2>2, <3>1
  <2> QED
    BY <1>5, <2>1, <2>2
<1>7. TypeOK'
  BY <1>4, <1>6, TypeParts DEF TypeOK, TurnRecord, coordVars
<1>8. BlankIsEmpty'
  BY <1>2, <1>3, <1>4 DEF BlankIsEmpty, coordVars
<1>9. LiveIsActive'
  BY <1>2, <1>3, <1>4, <1>6 DEF LiveIsActive, Live, DoneStatus
<1>10. WorkingIsCurrent'
  BY <1>2, <1>3, <1>4, <1>6 DEF WorkingIsCurrent, Working
<1>11. ReviewsAreCurrent'
  BY <1>2, <1>3, <1>4, <1>6
     DEF ReviewsAreCurrent, RegisteredCanContinue, ReviewsAreRaised, Live, coordVars, Entries, Stopped
<1>12. ReportIsFinal' /\ IdleHasReported'
  BY <1>3, <1>4 DEF ReportIsFinal, Reporting, IdleHasReported
<1>13. WatchIsOrdered'
  BY <1>4 DEF WatchIsOrdered, OutstandingIsScheduled, coordVars
<1>14. ParkedIsAnswerable'
  BY <1>4, <1>6 DEF ParkedIsAnswerable, coordVars
<1> QED
  BY <1>7, <1>8, <1>9, <1>10, <1>11, <1>12, <1>13, <1>14

--------------------------------------------------------------------------------
(* The liveness slot.                                                           *)

(* Arming takes a fresh generation of the slot. *)
LEMMA ArmFacts ==
  ASSUME TypeOK, WatchIsOrdered, Free, NEW st, NEW ins, ArmWatch(st, ins),
         initialized \/ ticks = {}
  PROVE  /\ watch' \in [generation : 0..MaxWatch, outstanding : BOOLEAN]
         /\ ticks' \subseteq Ticks
         /\ watch'.outstanding <=> LiveTick(watch'.generation) \in ticks'
         /\ \A tick \in ticks' : tick.kind = "liveness" =>
              tick.generation > 0 /\ tick.generation <= watch'.generation
<1>1. /\ watch \in [generation : 0..MaxWatch, outstanding : BOOLEAN] /\ ticks \subseteq Ticks
      /\ suspended = "none"
  BY TypeParts DEF Free
<1>2. watch.generation \in 0..MaxWatch
  BY <1>1
<1>3. \A tick \in ticks : tick.kind = "liveness" =>
         tick.generation > 0 /\ tick.generation <= watch.generation
  BY DEF WatchIsOrdered
<1>4. CASE Arms(st, ins)
  <2> DEFINE g == watch.generation + 1
  <2>1. /\ watch.generation < MaxWatch
        /\ watch' = [generation |-> g, outstanding |-> TRUE]
        /\ ticks' = ticks \cup {LiveTick(g)}
    BY <1>4 DEF ArmWatch
  <2>2. g \in 0..MaxWatch /\ g \in Nat /\ g > 0
    BY <1>2, <2>1, WorkerAssumption
  <2>3. LiveTick(g) \in Ticks /\ LiveTick(g).generation = g
    BY <2>2 DEF LiveTick, Ticks
  <2>4. \A tick \in ticks : tick.generation \in Nat
    BY <1>1 DEF Ticks
  <2>5. \A tick \in ticks' : tick.kind = "liveness" =>
          tick.generation > 0 /\ tick.generation <= g
    BY <1>2, <1>3, <2>1, <2>2, <2>3, <2>4
  <2> HIDE DEF g
  <2> QED
    BY <1>1, <2>1, <2>2, <2>3, <2>5
<1>5. CASE ~Arms(st, ins)
  BY <1>1, <1>3, <1>5 DEF ArmWatch, WatchIsOrdered, OutstandingIsScheduled
<1> QED
  BY <1>4, <1>5

(* A step of the slot alone. *)
LEMMA SlotStepInv ==
  ASSUME WorkerInv,
         UNCHANGED <<lifeVars, schedule, inputs, history, cleanup, turns, minted,
                     spawned, raised, asleep, refused>>,
         watch' \in [generation : 0..MaxWatch, outstanding : BOOLEAN],
         ticks' \subseteq Ticks,
         suspended \in {"none", "stale"}, suspended' \in {"none", "stale"},
         initialized \/ (watch' = watch /\ suspended' = suspended /\ ticks' \subseteq ticks),
         WatchIsOrdered'
  PROVE  WorkerInv'
<1> USE DEF WorkerInv, lifeVars
<1>1. TypeOK'
  BY TypeParts DEF TypeOK, Ticks
<1>2. BlankIsEmpty'
  BY DEF BlankIsEmpty
<1>3. LiveIsActive' /\ WorkingIsCurrent' /\ ParkedIsAnswerable'
  BY DEF LiveIsActive, Live, DoneStatus, WorkingIsCurrent, ParkedIsAnswerable
<1>4. ReviewsAreCurrent'
  BY DEF ReviewsAreCurrent, RegisteredCanContinue, ReviewsAreRaised, Live
<1>5. ReportIsFinal'
  BY DEF ReportIsFinal, Reporting
<1>6. IdleHasReported'
  BY DEF IdleHasReported, HasReported
<1> QED
  BY <1>1, <1>2, <1>3, <1>4, <1>5, <1>6

(* A heartbeat of the turn arms the slot. *)
LEMMA HeartbeatInv ==
  ASSUME WorkerInv, NEW t \in Turns, Heartbeat(t)
  PROVE  WorkerInv'
<1>1. initialized
  <2>1. Live(t) /\ turns[t].phase # "done"
    BY DEF Heartbeat, Live
  <2> QED
    BY <2>1, RunningTurn
<1>2. /\ watch' \in [generation : 0..MaxWatch, outstanding : BOOLEAN]
      /\ ticks' \subseteq Ticks
      /\ watch'.outstanding <=> LiveTick(watch'.generation) \in ticks'
      /\ \A tick \in ticks' : tick.kind = "liveness" =>
           tick.generation > 0 /\ tick.generation <= watch'.generation
  BY <1>1, ArmFacts DEF Heartbeat, WorkerInv
<1>3. suspended = "none" /\ suspended' = "none"
  BY DEF Heartbeat, Free
<1>4. WatchIsOrdered'
  BY <1>2, <1>3 DEF WatchIsOrdered, OutstandingIsScheduled
<1> QED
  BY <1>1, <1>2, <1>3, <1>4, SlotStepInv DEF Heartbeat

(* A deadline fires: it is stale, releases the slot, is armed again or signals. *)
LEMMA LivenessDeadlineInv ==
  ASSUME WorkerInv, NEW tick \in ticks, LivenessDeadline(tick)
  PROVE  WorkerInv'
<1>1. /\ watch \in [generation : 0..MaxWatch, outstanding : BOOLEAN] /\ ticks \subseteq Ticks
      /\ suspended = "none" /\ tick \in Ticks
  BY TypeParts DEF WorkerInv, LivenessDeadline, Free
<1>2. /\ watch.outstanding <=> LiveTick(watch.generation) \in ticks
      /\ \A k \in ticks : k.kind = "liveness" =>
           k.generation > 0 /\ (initialized => k.generation <= watch.generation)
  BY <1>1 DEF WorkerInv, WatchIsOrdered, OutstandingIsScheduled
<1>3. tick = LiveTick(tick.generation)
  BY <1>1 DEF LivenessDeadline, LiveTick, Ticks
<1>4. Matches(tick) => initialized /\ tick = LiveTick(watch.generation)
  <2>1. ~initialized => ~watch.outstanding
    BY DEF WorkerInv, BlankIsEmpty, NoWatch
  <2> QED
    BY <1>3, <2>1 DEF Matches
<1>5. CASE /\ ~Matches(tick)
           /\ ticks' = ticks \ {tick}
           /\ UNCHANGED <<watch, suspended>>
  <2>1. watch.outstanding => LiveTick(watch.generation) # tick
    BY <1>5 DEF Matches, LiveTick
  <2>2. WatchIsOrdered'
    BY <1>1, <1>2, <1>5, <2>1 DEF WatchIsOrdered, OutstandingIsScheduled, LivenessDeadline,
       lifeVars
  <2> QED
    BY <1>1, <1>5, <2>2, SlotStepInv DEF LivenessDeadline
<1>6. CASE /\ Matches(tick) /\ (status # "Running" \/ inputs # {})
           /\ ticks' = ticks \ {tick}
           /\ watch' = StopWatch(watch)
           /\ UNCHANGED suspended
  <2>1. /\ watch' \in [generation : 0..MaxWatch, outstanding : BOOLEAN]
        /\ ~watch'.outstanding /\ watch'.generation = watch.generation
    BY <1>1, <1>6 DEF StopWatch
  <2>2. WatchIsOrdered'
    BY <1>1, <1>2, <1>4, <1>6, <2>1 DEF WatchIsOrdered, OutstandingIsScheduled, LiveTick,
       LivenessDeadline, lifeVars
  <2> QED
    BY <1>1, <1>4, <1>6, <2>1, <2>2, SlotStepInv DEF LivenessDeadline
<1>7. CASE /\ Matches(tick) /\ status = "Running" /\ inputs = {}
           /\ watch.generation < MaxWatch
           /\ watch' = [generation |-> watch.generation + 1, outstanding |-> TRUE]
           /\ ticks' = (ticks \ {tick}) \cup {LiveTick(watch.generation + 1)}
           /\ UNCHANGED suspended
  <2> DEFINE g == watch.generation + 1
  <2>1. watch.generation \in 0..MaxWatch /\ g \in 0..MaxWatch /\ g \in Nat /\ g > 0
    BY <1>1, <1>7, WorkerAssumption
  <2>2. LiveTick(g) \in Ticks /\ LiveTick(g).generation = g
    BY <2>1 DEF LiveTick, Ticks
  <2>3. \A k \in ticks : k.generation \in Nat
    BY <1>1 DEF Ticks
  <2>4. \A k \in ticks' : k.kind = "liveness" => k.generation > 0 /\ k.generation <= g
    BY <1>2, <1>4, <1>7, <2>1, <2>2, <2>3
  <2>5. WatchIsOrdered'
    BY <1>1, <1>7, <2>4 DEF WatchIsOrdered, OutstandingIsScheduled
  <2>6. watch' \in [generation : 0..MaxWatch, outstanding : BOOLEAN] /\ ticks' \subseteq Ticks
    BY <1>1, <1>7, <2>1, <2>2
  <2> HIDE DEF g
  <2> QED
    BY <1>1, <1>4, <1>7, <2>5, <2>6, SlotStepInv DEF LivenessDeadline
<1>8. CASE /\ Matches(tick) /\ status = "Running" /\ inputs = {}
           /\ ticks' = ticks \ {tick}
           /\ suspended' = "stale"
           /\ UNCHANGED watch
  <2>1. WatchIsOrdered'
    BY <1>1, <1>2, <1>4, <1>8 DEF WatchIsOrdered, OutstandingIsScheduled, Matches, LiveTick,
       LivenessDeadline, lifeVars
  <2> QED
    BY <1>1, <1>4, <1>8, <2>1, SlotStepInv DEF LivenessDeadline
<1> QED
  BY <1>5, <1>6, <1>7, <1>8 DEF LivenessDeadline

(* The stale signal is recorded and the slot is free. *)
LEMMA StaleRecordedInv ==
  ASSUME WorkerInv, StaleRecorded
  PROVE  WorkerInv'
<1>1. /\ watch \in [generation : 0..MaxWatch, outstanding : BOOLEAN] /\ ticks \subseteq Ticks
      /\ suspended = "stale"
  BY TypeParts DEF WorkerInv, StaleRecorded
<1>2. /\ watch' \in [generation : 0..MaxWatch, outstanding : BOOLEAN]
      /\ ~watch'.outstanding /\ watch'.generation = watch.generation
  BY <1>1 DEF StaleRecorded, StopWatch
<1>3. initialized
  BY <1>1 DEF WorkerInv, BlankIsEmpty
<1>4. WatchIsOrdered'
  BY <1>1, <1>2 DEF WorkerInv, WatchIsOrdered, OutstandingIsScheduled, StaleRecorded,
     LiveTick, lifeVars
<1> QED
  BY <1>1, <1>2, <1>3, <1>4, SlotStepInv DEF StaleRecorded

--------------------------------------------------------------------------------
(* The reviews.                                                                 *)

(* What the discards leave. *)
LEMMA DiscardFacts ==
  ASSUME NEW s \in Schedule, NEW g \in Nat
  PROVE  /\ DiscardAll(s) \in Schedule /\ Entries(DiscardAll(s)) = {}
         /\ DiscardBelow(s, g) \in Schedule
         /\ Entries(DiscardBelow(s, g)) = {e \in Entries(s) : e.generation >= g}
<1>1. DiscardAll(s) \in Schedule /\ Entries(DiscardAll(s)) = {}
  BY DEF DiscardAll, Schedule, Entries
<1>2. DiscardBelow(s, g) \in Schedule
  BY DEF DiscardBelow, Schedule
<1>3. /\ DiscardBelow(s, g).registered = {e \in s.registered : e.generation >= g}
      /\ DiscardBelow(s, g).queued = {e \in s.queued : e.generation >= g}
  BY DEF DiscardBelow, Schedule
<1>4. Entries(DiscardBelow(s, g)) = {e \in Entries(s) : e.generation >= g}
  BY <1>3 DEF Entries
<1> QED
  BY <1>1, <1>2, <1>4

(* A resolved review leaves the registered ones, a continuation the queue. *)
LEMMA ResolveFacts ==
  ASSUME NEW s \in Schedule, NEW r
  PROVE  /\ Resolve(s, r) \in Schedule
         /\ Resolve(s, r).registered = {e \in s.registered : e.review # r}
         /\ Resolve(s, r).queued = s.queued
         /\ Entries(Resolve(s, r)) \subseteq Entries(s)
         /\ \A e : /\ Dequeue(s, e) \in Schedule
                   /\ Dequeue(s, e).registered = s.registered
                   /\ Dequeue(s, e).queued = s.queued \ {e}
                   /\ Entries(Dequeue(s, e)) \subseteq Entries(s)
<1>1. /\ Resolve(s, r) \in Schedule
      /\ Resolve(s, r).registered = {e \in s.registered : e.review # r}
      /\ Resolve(s, r).queued = s.queued
  BY DEF Resolve, Schedule
<1>2. Entries(Resolve(s, r)) \subseteq Entries(s)
  BY <1>1 DEF Entries
<1>3. ASSUME NEW e
      PROVE  /\ Dequeue(s, e) \in Schedule
             /\ Dequeue(s, e).registered = s.registered
             /\ Dequeue(s, e).queued = s.queued \ {e}
  BY DEF Dequeue, Schedule
<1>4. \A e : Entries(Dequeue(s, e)) \subseteq Entries(s)
  BY <1>3 DEF Entries
<1> QED
  BY <1>1, <1>2, <1>3, <1>4

(* An approved review joins the queue unless it is in it. *)
LEMMA EnqueueFacts ==
  ASSUME NEW s \in Schedule, NEW entry \in Entry
  PROVE  /\ Enqueue(s, entry) \in Schedule
         /\ Enqueue(s, entry).registered = s.registered
         /\ \/ /\ Enqueue(s, entry).queued = s.queued
               /\ \E e \in s.queued : e.review = entry.review
            \/ Enqueue(s, entry).queued = s.queued \cup {entry}
  BY DEF Enqueue, Schedule

(* A registration adds an entry of its own. *)
LEMMA RegisterFacts ==
  ASSUME NEW s \in Schedule, NEW r \in Reviews, NEW t \in Turns, NEW g \in Nat
  PROVE  /\ Register(s, r, t, g) \in Schedule
         /\ Register(s, r, t, g).queued = s.queued
         /\ \/ Register(s, r, t, g).registered = s.registered
            \/ \E e \in Entry :
                 /\ e.generation = g /\ e.review = r
                 /\ Register(s, r, t, g).registered = s.registered \cup {e}
<1> DEFINE e == [review |-> r, turn |-> t, generation |-> g, ordinal |-> s.nextOrdinal]
<1>1. s.nextOrdinal \in Nat /\ e \in Entry /\ e.generation = g /\ e.review = r
  BY DEF Schedule, Entry
<1>2. CASE IsRegistered(s, r)
  BY <1>2 DEF Register
<1>3. CASE ~IsRegistered(s, r)
  <2>1. Register(s, r, t, g) = [nextOrdinal |-> s.nextOrdinal + 1,
                                registered |-> s.registered \cup {e}, queued |-> s.queued]
    BY <1>3 DEF Register
  <2> HIDE DEF e
  <2>2. Register(s, r, t, g) \in Schedule
    BY <1>1, <2>1 DEF Schedule
  <2>3. /\ Register(s, r, t, g).queued = s.queued
        /\ Register(s, r, t, g).registered = s.registered \cup {e}
    BY <2>1
  <2> QED
    BY <1>1, <2>2, <2>3
<1> QED
  BY <1>2, <1>3

(* What is open of a worker is open of its generation. *)
LEMMA HeldFacts ==
  ASSUME RegisteredCanContinue
  PROVE  Holds(schedule, generation) <=> Entries(schedule) # {}
  BY DEF RegisteredCanContinue, Holds, Entries

--------------------------------------------------------------------------------
(* Questions and cancellation.                                                  *)

(* The answer of a question. *)
LEMMA AnswerFacts ==
  ASSUME turns \in [Turns -> TurnRecord], NEW t \in Turns, NEW reply \in Replies
  PROVE  LET f == [turns EXCEPT ![t].answer = reply]
         IN /\ f \in [Turns -> TurnRecord]
            /\ f[t].answer = reply
            /\ f[t].phase = turns[t].phase /\ f[t].kind = turns[t].kind
            /\ f[t].generation = turns[t].generation /\ f[t].cancel = turns[t].cancel
            /\ \A u \in Turns : u # t => f[u] = turns[u]
<1> DEFINE rec == [turns[t] EXCEPT !.answer = reply]
<1>1. /\ rec \in TurnRecord /\ rec.phase = turns[t].phase /\ rec.kind = turns[t].kind
      /\ rec.generation = turns[t].generation
      /\ rec.cancel = turns[t].cancel /\ rec.answer = reply
  BY DEF TurnRecord
<1>2. [turns EXCEPT ![t].answer = reply] = [turns EXCEPT ![t] = rec]
  OBVIOUS
<1> HIDE DEF rec
<1> QED
  BY <1>1, <1>2

(* A reply wakes the turn that asked. *)
LEMMA ProvideInputInv ==
  ASSUME WorkerInv, NEW t \in InputTurns, NEW reply \in Replies, ProvideInput(t, reply)
  PROVE  WorkerInv'
<1> USE DEF WorkerInv, ProvideInput, lifeVars
<1>1. turns \in [Turns -> TurnRecord] /\ inputs \subseteq Turns
      /\ history \subseteq InputTurns \X Replies
  BY TypeParts
<1>2. t \in Turns
  BY <1>1 DEF Acknowledgement
<1>3. /\ turns' \in [Turns -> TurnRecord] /\ turns'[t].answer = reply
      /\ turns'[t].phase = turns[t].phase /\ turns'[t].kind = turns[t].kind
      /\ turns'[t].generation = turns[t].generation /\ turns'[t].cancel = turns[t].cancel
      /\ \A u \in Turns : u # t => turns'[u] = turns[u]
  BY <1>1, <1>2, AnswerFacts
<1>4. \A u \in Turns : /\ turns'[u].phase = turns[u].phase /\ turns'[u].kind = turns[u].kind
                       /\ turns'[u].generation = turns[u].generation
                       /\ turns'[u].cancel = turns[u].cancel
  BY <1>3
<1>5. TypeOK'
  BY <1>1, <1>3, TypeParts DEF TypeOK, TurnRecord
<1>6. BlankIsEmpty'
  BY <1>4 DEF BlankIsEmpty
<1>7. LiveIsActive' /\ WorkingIsCurrent'
  BY <1>4 DEF LiveIsActive, Live, DoneStatus, WorkingIsCurrent
<1>8. ReviewsAreCurrent'
  BY <1>4 DEF ReviewsAreCurrent, RegisteredCanContinue, ReviewsAreRaised, Live
<1>9. ReportIsFinal' /\ IdleHasReported'
  BY DEF ReportIsFinal, Reporting, IdleHasReported, HasReported
<1>10. WatchIsOrdered'
  BY DEF WatchIsOrdered, OutstandingIsScheduled
<1>11. ParkedIsAnswerable'
  <2>1. reply # NoReply
    BY ReplyAssumption
  <2> QED
    BY <1>3, <2>1 DEF ParkedIsAnswerable
<1> QED
  BY <1>5, <1>6, <1>7, <1>8, <1>9, <1>10, <1>11

(* A turn asks, and is parked. *)
LEMMA AskInputInv ==
  ASSUME WorkerInv, NEW t \in Turns, AskInput(t)
  PROVE  WorkerInv'
<1> USE DEF WorkerInv, lifeVars
<1>1. turns \in [Turns -> TurnRecord]
  BY TypeParts
<1>2. Live(t) /\ turns[t].phase = "tool"
  BY DEF AskInput, Live
<1>3. turns' = Moved(t, "registered") /\ "registered" \in Phases
  BY DEF AskInput, Moved, Phases
<1>4. PICK rec \in TurnRecord :
        /\ turns' = [turns EXCEPT ![t] = rec] /\ rec.phase = "registered"
        /\ rec.generation = turns[t].generation
        /\ rec.cancel = turns[t].cancel /\ rec.answer = turns[t].answer
  BY <1>1, <1>3, MoveFacts
<1>5. /\ turns' \in [Turns -> TurnRecord] /\ turns'[t] = rec
      /\ \A u \in Turns : u # t => turns'[u] = turns[u]
  BY <1>1, <1>4
<1>6. UNCHANGED <<lifeVars, schedule, history, watch, cleanup, suspended, ticks,
                 minted, spawned, raised, asleep, refused>> /\ inputs' = inputs \cup {t}
  BY DEF AskInput
<1>7. TypeOK'
  BY <1>5, <1>6, TypeParts DEF TypeOK, TurnRecord
<1>8. BlankIsEmpty'
  BY <1>2, <1>6 DEF BlankIsEmpty
<1>9. LiveIsActive'
  BY <1>2, <1>4, <1>5, <1>6 DEF LiveIsActive, Live, DoneStatus
<1>10. WorkingIsCurrent'
  BY <1>2, <1>4, <1>5, <1>6 DEF WorkingIsCurrent, Working
<1>11. ReviewsAreCurrent'
  BY <1>2, <1>4, <1>5, <1>6 DEF ReviewsAreCurrent, RegisteredCanContinue, ReviewsAreRaised, Live
<1>12. ReportIsFinal' /\ IdleHasReported'
  BY <1>6 DEF ReportIsFinal, Reporting, IdleHasReported, HasReported
<1>13. WatchIsOrdered'
  BY <1>6 DEF WatchIsOrdered, OutstandingIsScheduled
<1>14. ParkedIsAnswerable'
  BY <1>5, <1>6 DEF ParkedIsAnswerable
<1> QED
  BY <1>7, <1>8, <1>9, <1>10, <1>11, <1>12, <1>13, <1>14

(* A parked turn sees the cancellation and takes its question back. *)
LEMMA AwaitCancelledInv ==
  ASSUME WorkerInv, NEW t \in Turns, AwaitCancelled(t)
  PROVE  WorkerInv'
<1> USE DEF WorkerInv, lifeVars
<1>1. turns \in [Turns -> TurnRecord]
  BY TypeParts
<1>2. Live(t) /\ turns[t].phase = "waiting"
  BY DEF AwaitCancelled, WokenByCancel, Live
<1>3. PICK rec \in TurnRecord :
        /\ turns' = [turns EXCEPT ![t] = rec] /\ rec.phase = "done" /\ rec.kind = "Cancelled"
        /\ rec.generation = turns[t].generation
        /\ rec.cancel = turns[t].cancel /\ rec.answer = turns[t].answer
  BY <1>1, DoneFacts DEF AwaitCancelled
<1>4. /\ turns' \in [Turns -> TurnRecord] /\ turns'[t] = rec
      /\ \A u \in Turns : u # t => turns'[u] = turns[u]
  BY <1>1, <1>3
<1>5. UNCHANGED <<lifeVars, schedule, history, watch, cleanup, suspended, ticks,
                 minted, spawned, raised, asleep, refused>> /\ inputs' = inputs \ {t}
  BY DEF AwaitCancelled
<1>6. TypeOK'
  BY <1>4, <1>5, TypeParts DEF TypeOK, TurnRecord
<1>7. BlankIsEmpty'
  BY <1>2, <1>5 DEF BlankIsEmpty
<1>8. LiveIsActive'
  BY <1>2, <1>3, <1>4, <1>5 DEF LiveIsActive, Live, DoneStatus
<1>9. WorkingIsCurrent'
  BY <1>3, <1>4, <1>5 DEF WorkingIsCurrent, Working
<1>10. ReviewsAreCurrent'
  BY <1>2, <1>3, <1>4, <1>5 DEF ReviewsAreCurrent, RegisteredCanContinue, ReviewsAreRaised, Live
<1>11. ReportIsFinal' /\ IdleHasReported'
  BY <1>5 DEF ReportIsFinal, Reporting, IdleHasReported, HasReported
<1>12. WatchIsOrdered'
  BY <1>5 DEF WatchIsOrdered, OutstandingIsScheduled
<1>13. ParkedIsAnswerable'
  BY <1>3, <1>4, <1>5 DEF ParkedIsAnswerable
<1> QED
  BY <1>6, <1>7, <1>8, <1>9, <1>10, <1>11, <1>12, <1>13

(* A cancellation reaches the active turn. *)
LEMMA FlagFacts ==
  ASSUME turns \in [Turns -> TurnRecord], active \in Turns \cup {NoTurn}
  PROVE  /\ FlagActive \in [Turns -> TurnRecord]
         /\ \A u \in Turns :
              /\ FlagActive[u].phase = turns[u].phase /\ FlagActive[u].kind = turns[u].kind
              /\ FlagActive[u].generation = turns[u].generation
              /\ FlagActive[u].answer = turns[u].answer
              /\ turns[u].cancel \/ u = active => FlagActive[u].cancel
<1>1. CASE active = NoTurn
  <2>1. NoTurn \notin Turns
    BY DEF NoTurn, Turns
  <2> QED
    BY <1>1, <2>1 DEF FlagActive
<1>2. CASE active # NoTurn
  <2> DEFINE rec == [turns[active] EXCEPT !.cancel = TRUE]
  <2>1. active \in Turns
    BY <1>2
  <2>2. /\ rec \in TurnRecord /\ rec.phase = turns[active].phase
        /\ rec.kind = turns[active].kind
        /\ rec.generation = turns[active].generation
        /\ rec.cancel /\ rec.answer = turns[active].answer
    BY <2>1 DEF TurnRecord
  <2>3. FlagActive = [turns EXCEPT ![active] = rec]
    BY <1>2 DEF FlagActive
  <2> HIDE DEF rec
  <2> QED
    BY <2>1, <2>2, <2>3
<1> QED
  BY <1>1, <1>2

(* cancel: an idle worker is Cancelled at once, an active turn is told. *)
LEMMA CancelInv ==
  ASSUME WorkerInv, Cancel
  PROVE  WorkerInv'
<1> USE DEF WorkerInv
<1>1. turns \in [Turns -> TurnRecord] /\ active \in Turns \cup {NoTurn}
      /\ schedule \in Schedule
  BY TypeParts
<1>2. /\ turns' \in [Turns -> TurnRecord]
      /\ \A u \in Turns :
           /\ turns'[u].phase = turns[u].phase /\ turns'[u].kind = turns[u].kind
           /\ turns'[u].generation = turns[u].generation
           /\ turns'[u].answer = turns[u].answer
           /\ turns[u].cancel \/ u = active => turns'[u].cancel
  BY <1>1, FlagFacts DEF Cancel
<1>3. schedule' \in Schedule /\ Entries(schedule') = {}
  BY <1>1, DiscardFacts DEF Cancel
<1>4. /\ UNCHANGED <<initialized, active, pending, delivered, waiters, generation,
                     history, watch, cleanup, suspended, ticks, minted, spawned,
                     raised, asleep, refused>>
      /\ cancelled' = TRUE /\ inputs' = {}
      /\ status' = IF active = NoTurn THEN "Cancelled" ELSE status
  BY DEF Cancel
<1>5. TypeOK'
  BY <1>2, <1>3, <1>4, TypeParts DEF TypeOK, TurnRecord, Schedule, Entry
<1>6. BlankIsEmpty'
  BY <1>2, <1>3, <1>4 DEF BlankIsEmpty
<1>7. LiveIsActive'
  <2> SUFFICES ASSUME NEW t \in Turns, Live(t)'
               PROVE  \/ ~initialized /\ turns'[t].phase = "done"
                      \/ /\ initialized /\ active = t
                         /\ turns'[t].generation <= generation
                         /\ turns'[t].phase # "done" => status' = "Running"
                         /\ turns'[t].phase = "done" => DoneStatus(t)'
    BY <1>4 DEF LiveIsActive
  <2>1. Live(t) /\ t # NoTurn
    BY <1>2 DEF Live, NoTurn, Turns
  <2> QED
    BY <1>2, <1>4, <2>1 DEF LiveIsActive, DoneStatus
<1>8. WorkingIsCurrent'
  <2> SUFFICES ASSUME NEW t \in Turns, turns'[t].phase \in Working
               PROVE  turns'[t].cancel /\ (turns'[t].generation = generation => pending = {})
    BY <1>4 DEF WorkingIsCurrent
  <2>1. active = t
    BY <1>2 DEF LiveIsActive, Live, Working
  <2> QED
    BY <1>2, <2>1 DEF WorkingIsCurrent
<1>9. ReviewsAreCurrent'
  BY <1>3 DEF ReviewsAreCurrent, RegisteredCanContinue, ReviewsAreRaised, Entries
<1>10. ReportIsFinal'
  BY <1>3, <1>4 DEF ReportIsFinal, Reporting, Terminal
<1>11. IdleHasReported'
  BY <1>4 DEF IdleHasReported, Terminal, Stopped
<1>12. WatchIsOrdered'
  BY <1>4 DEF WatchIsOrdered, OutstandingIsScheduled
<1>13. ParkedIsAnswerable'
  <2> SUFFICES ASSUME NEW t \in Turns, turns'[t].phase \in {"registered", "waiting"}
               PROVE  turns'[t].cancel
    BY DEF ParkedIsAnswerable
  <2>1. active = t
    BY <1>2 DEF LiveIsActive, Live
  <2> QED
    BY <1>2, <2>1
<1> QED
  BY <1>5, <1>6, <1>7, <1>8, <1>9, <1>10, <1>11, <1>12, <1>13

--------------------------------------------------------------------------------
(* Messages.                                                                    *)

(* A new turn, under a new id. *)
LEMMA StartFacts ==
  ASSUME turns \in [Turns -> TurnRecord], minted \in 0..MaxTurns,
         NEW g \in 0..MaxGeneration, StartNew(g)
  PROVE  /\ active' \in Turns /\ active' # NoTurn /\ minted' \in 0..MaxTurns
         /\ turns' \in [Turns -> TurnRecord]
         /\ turns'[active'].phase = "start" /\ turns'[active'].generation = g
         /\ ~turns'[active'].cancel /\ turns'[active'].answer = NoReply
         /\ \A u \in Turns : u # active' => turns'[u] = turns[u]
<1>1. minted + 1 \in Turns /\ minted + 1 # NoTurn /\ minted' \in 0..MaxTurns
  BY WorkerAssumption DEF StartNew, Turns, NoTurn
<1>2. /\ Dispatched(g, FALSE) \in TurnRecord /\ Dispatched(g, FALSE).phase = "start"
      /\ Dispatched(g, FALSE).generation = g /\ ~Dispatched(g, FALSE).cancel
      /\ Dispatched(g, FALSE).answer = NoReply
  BY TurnFacts
<1> QED
  BY <1>1, <1>2 DEF StartNew

(* The next generation of a worker. *)
LEMMA NextGeneration ==
  ASSUME TypeOK, generation < MaxGeneration
  PROVE  /\ generation \in Nat /\ generation + 1 \in 0..MaxGeneration
         /\ generation + 1 \in 1..MaxGeneration
         /\ generation + 1 > generation /\ generation + 1 > 0
  BY TypeParts, WorkerAssumption

(* A bumped cleanup generation starts counting releases anew. *)
LEMMA BumpFacts ==
  ASSUME cleanup \in [generation : Nat, attempts : 0..(MaxRelease - 1)]
  PROVE  Bump(cleanup) \in [generation : Nat, attempts : 0..(MaxRelease - 1)]
  BY WorkerAssumption DEF Bump

(* The task of a worker begins its first generation. *)
LEMMA PostInitialTaskInv ==
  ASSUME WorkerInv, PostInitialTask
  PROVE  WorkerInv'
<1> USE DEF WorkerInv
<1>1. turns \in [Turns -> TurnRecord] /\ minted \in 0..MaxTurns /\ schedule \in Schedule
  BY TypeParts
<1>2. /\ ~initialized /\ ticks = {} /\ asleep = {} /\ Entries(schedule) = {}
      /\ generation = 0 /\ suspended = "none"
      /\ \A t \in Turns : turns[t].phase = "unused"
  BY DEF PostInitialTask, BlankIsEmpty
<1>3. /\ generation + 1 \in 0..MaxGeneration /\ generation + 1 \in 1..MaxGeneration
      /\ generation + 1 > 0 /\ generation + 1 \in Nat
  BY NextGeneration DEF PostInitialTask
<1>4. /\ active' \in Turns /\ active' # NoTurn /\ minted' \in 0..MaxTurns
      /\ turns' \in [Turns -> TurnRecord]
      /\ turns'[active'].phase = "start" /\ turns'[active'].generation = generation + 1
      /\ \A u \in Turns : u # active' => turns'[u] = turns[u]
  BY <1>1, <1>3, StartFacts DEF PostInitialTask
<1>5. schedule' \in Schedule /\ Entries(schedule') = {}
  BY <1>1, <1>2, <1>3, DiscardFacts DEF PostInitialTask
<1>6. cleanup' \in [generation : Nat, attempts : 0..(MaxRelease - 1)]
  BY BumpFacts, TypeParts DEF PostInitialTask
<1>7. /\ watch' \in [generation : 0..MaxWatch, outstanding : BOOLEAN]
      /\ ticks' \subseteq Ticks
      /\ watch'.outstanding <=> LiveTick(watch'.generation) \in ticks'
      /\ \A tick \in ticks' : tick.kind = "liveness" =>
           tick.generation > 0 /\ tick.generation <= watch'.generation
  BY <1>2, ArmFacts DEF PostInitialTask
<1>8. /\ spawned' = TRUE /\ initialized' = TRUE /\ status' = "Running"
      /\ pending' = {generation + 1} /\ cancelled' = FALSE /\ delivered' = FALSE
      /\ waiters' = {} /\ inputs' = {} /\ history' = {} /\ generation' = generation + 1
      /\ UNCHANGED <<suspended, raised, asleep, refused>>
  BY DEF PostInitialTask
<1>9. TypeOK'
  BY <1>3, <1>4, <1>5, <1>6, <1>7, <1>8, TypeParts
     DEF TypeOK, TurnRecord, Schedule, Entry, Ticks
<1>10. BlankIsEmpty'
  BY <1>3, <1>8 DEF BlankIsEmpty
<1>11. LiveIsActive'
  BY <1>2, <1>3, <1>4, <1>8 DEF LiveIsActive, Live
<1>12. WorkingIsCurrent' /\ ParkedIsAnswerable'
  BY <1>2, <1>4 DEF WorkingIsCurrent, Working, ParkedIsAnswerable
<1>13. ReviewsAreCurrent'
  BY <1>5 DEF ReviewsAreCurrent, RegisteredCanContinue, ReviewsAreRaised, Entries
<1>14. ReportIsFinal' /\ IdleHasReported'
  BY <1>2, <1>4, <1>8 DEF ReportIsFinal, Reporting, IdleHasReported
<1>15. WatchIsOrdered'
  BY <1>2, <1>7, <1>8 DEF WatchIsOrdered, OutstandingIsScheduled
<1> QED
  BY <1>9, <1>10, <1>11, <1>12, <1>13, <1>14, <1>15

(* A follow-up begins the next generation, with a turn unless one is active. *)
LEMMA PostFollowUpInv ==
  ASSUME WorkerInv, PostFollowUp
  PROVE  WorkerInv'
<1> USE DEF WorkerInv
<1>1. /\ turns \in [Turns -> TurnRecord] /\ minted \in 0..MaxTurns /\ schedule \in Schedule
      /\ generation \in 0..MaxGeneration /\ pending \subseteq 1..MaxGeneration
      /\ active \in Turns \cup {NoTurn}
  BY TypeParts
<1>2. initialized /\ suspended = "none" /\ spawned
  BY DEF PostFollowUp, BlankIsEmpty, Free
<1>3. /\ generation + 1 \in 0..MaxGeneration /\ generation + 1 \in 1..MaxGeneration
      /\ generation + 1 > 0 /\ generation + 1 \in Nat /\ generation \in Nat
  BY NextGeneration DEF PostFollowUp
<1>4. schedule' \in Schedule /\ Entries(schedule') = {}
  <2>1. /\ schedule' \in Schedule
        /\ Entries(schedule') = {e \in Entries(schedule) : e.generation >= generation + 1}
    BY <1>1, <1>3, DiscardFacts DEF PostFollowUp
  <2>2. \A e \in Entries(schedule) : e.generation = generation
    BY DEF ReviewsAreCurrent, RegisteredCanContinue, ReviewsAreRaised, Entries
  <2> QED
    BY <1>3, <2>1, <2>2
<1>5. cleanup' \in [generation : Nat, attempts : 0..(MaxRelease - 1)]
  BY BumpFacts, TypeParts DEF PostFollowUp
<1>6. /\ watch' \in [generation : 0..MaxWatch, outstanding : BOOLEAN]
      /\ ticks' \subseteq Ticks
      /\ watch'.outstanding <=> LiveTick(watch'.generation) \in ticks'
      /\ \A tick \in ticks' : tick.kind = "liveness" =>
           tick.generation > 0 /\ tick.generation <= watch'.generation
  BY <1>2, ArmFacts DEF PostFollowUp
<1>7. /\ status' = "Running" /\ pending' = pending \cup {generation + 1}
      /\ delivered' = FALSE /\ generation' = generation + 1
      /\ UNCHANGED <<initialized, cancelled, waiters, inputs, history, suspended,
                     spawned, raised, asleep, refused>>
  BY DEF PostFollowUp
<1>8. /\ active' \in Turns /\ active' # NoTurn /\ minted' \in 0..MaxTurns
      /\ turns' \in [Turns -> TurnRecord]
      /\ \A u \in Turns :
           \/ turns'[u] = turns[u] /\ (active = NoTurn \/ active' = active)
           \/ /\ active = NoTurn /\ u = active' /\ turns'[u].phase = "start"
              /\ turns'[u].generation = generation + 1
  <2>1. CASE Idle /\ StartNew(generation + 1)
    BY <1>1, <1>3, <2>1, StartFacts DEF Idle
  <2>2. CASE ~Idle /\ UNCHANGED <<active, turns, minted>>
    BY <1>1, <2>2 DEF Idle
  <2> QED
    BY <2>1, <2>2 DEF PostFollowUp
<1>9. \A u \in Turns : u # NoTurn /\ (Live(u) => active = u /\ turns[u].generation <= generation)
  BY <1>2 DEF LiveIsActive, Turns, NoTurn
<1>10. \A u \in Turns : turns[u].generation \in Nat
  BY <1>1 DEF TurnRecord
<1>11. TypeOK'
  BY <1>1, <1>3, <1>4, <1>5, <1>6, <1>7, <1>8, TypeParts
     DEF TypeOK, TurnRecord, Schedule, Entry, Ticks
<1>12. BlankIsEmpty'
  BY <1>2, <1>3, <1>7 DEF BlankIsEmpty
<1>13. LiveIsActive'
  <2> SUFFICES ASSUME NEW t \in Turns, Live(t)'
               PROVE  /\ active' = t /\ turns'[t].generation <= generation + 1
                      /\ turns'[t].phase = "done" => DoneStatus(t)'
    BY <1>2, <1>7 DEF LiveIsActive
  <2>1. CASE turns'[t] = turns[t] /\ (active = NoTurn \/ active' = active)
    <3>1. Live(t) /\ active = t /\ active' = t /\ turns[t].generation <= generation
      BY <1>9, <2>1 DEF Live
    <3>2. turns[t].generation <= generation + 1
      BY <3>1, <1>3, <1>10
    <3> QED
      BY <1>2, <1>7, <2>1, <3>1, <3>2 DEF LiveIsActive, DoneStatus
  <2>2. CASE t = active' /\ turns'[t].phase = "start" /\ turns'[t].generation = generation + 1
    BY <1>3, <2>2
  <2> QED
    BY <1>8, <2>1, <2>2
<1>14. WorkingIsCurrent'
  <2> SUFFICES ASSUME NEW t \in Turns, turns'[t].phase \in Working
               PROVE  /\ cancelled => turns'[t].cancel
                      /\ turns'[t].generation # generation + 1
    BY <1>7 DEF WorkingIsCurrent
  <2>1. turns'[t] = turns[t]
    BY <1>8 DEF Working
  <2>2. turns[t].generation <= generation
    BY <1>9, <2>1 DEF Live, Working
  <2> QED
    BY <1>3, <1>10, <2>1, <2>2 DEF WorkingIsCurrent
<1>15. ParkedIsAnswerable'
  BY <1>7, <1>8 DEF ParkedIsAnswerable
<1>16. ReviewsAreCurrent'
  BY <1>4 DEF ReviewsAreCurrent, RegisteredCanContinue, ReviewsAreRaised, Entries
<1>17. ReportIsFinal' /\ IdleHasReported'
  BY <1>2, <1>7, <1>8 DEF ReportIsFinal, Reporting, IdleHasReported
<1>18. WatchIsOrdered'
  BY <1>2, <1>6, <1>7 DEF WatchIsOrdered, OutstandingIsScheduled
<1> QED
  BY <1>11, <1>12, <1>13, <1>14, <1>15, <1>16, <1>17, <1>18

--------------------------------------------------------------------------------
(* Outcomes and continuations.                                                  *)

(* A turn that takes the place of every other. *)
LEMMA StartedInv ==
  ASSUME WorkerInv, initialized, ~Reporting, NEW n \in Turns,
         active' = n, status' = "Running", minted' \in 0..MaxTurns,
         turns' \in [Turns -> TurnRecord],
         turns'[n].phase = "start", turns'[n].generation = generation,
         \A u \in Turns : u # n => turns'[u].phase \in {"unused", "reported"},
         schedule' \in Schedule, \A e \in Entries(schedule') : e.generation = generation,
         Entries(schedule') # {} => pending = {}, ReviewsAreRaised',
         cancelled => Entries(schedule') = {},
         inputs' \subseteq Turns,
         UNCHANGED <<initialized, pending, cancelled, delivered, waiters, generation,
                     history, watch, cleanup, suspended, ticks, spawned, raised, asleep,
                     refused>>
  PROVE  WorkerInv'
<1> USE DEF WorkerInv
<1>1. n # NoTurn /\ generation \in Nat
  BY TypeParts DEF Turns, NoTurn
<1>2. TypeOK'
  BY TypeParts DEF TypeOK, TurnRecord, Schedule, Entry
<1>3. BlankIsEmpty'
  BY DEF BlankIsEmpty
<1>4. LiveIsActive'
  BY <1>1 DEF LiveIsActive, Live
<1>5. WorkingIsCurrent' /\ ParkedIsAnswerable'
  BY DEF WorkingIsCurrent, Working, ParkedIsAnswerable
<1>6. ReviewsAreCurrent'
  BY DEF ReviewsAreCurrent, RegisteredCanContinue, ReviewsAreRaised, Entries, Stopped
<1>7. ReportIsFinal' /\ IdleHasReported'
  BY <1>1 DEF ReportIsFinal, Reporting, IdleHasReported
<1>8. WatchIsOrdered'
  BY DEF WatchIsOrdered, OutstandingIsScheduled
<1> QED
  BY <1>2, <1>3, <1>4, <1>5, <1>6, <1>7, <1>8

(* A turn that reports its outcome: what its worker looks like then. *)
LEMMA OutcomeFacts ==
  ASSUME WorkerInv, NEW t \in Turns, turns[t].phase = "done", OwnsTurn(t)
  PROVE  /\ initialized /\ t # NoTurn
         /\ \A u \in Turns : u # t => turns[u].phase \in {"unused", "reported"}
         /\ Stopped(StatusAfter(t)) => StatusAfter(t) \in {"Cancelled", "Failed"}
         /\ ~Stopped(StatusAfter(t)) =>
              /\ StatusAfter(t) = status
              /\ status = "Completed" \/ (status = "Running" /\ pending # {})
<1>1. t # NoTurn /\ active = t /\ Live(t)
  BY DEF Turns, NoTurn, OwnsTurn, Live
<1>2. initialized /\ DoneStatus(t)
  BY <1>1 DEF WorkerInv, BlankIsEmpty, LiveIsActive
<1>3. \A u \in Turns : u # t => turns[u].phase \in {"unused", "reported"}
  BY <1>1, <1>2 DEF WorkerInv, LiveIsActive, Live
<1> QED
  BY <1>1, <1>2, <1>3 DEF DoneStatus, StatusAfter, Stopped

Swapped(t, n, d) == [turns EXCEPT ![t].phase = "reported", ![n] = d]

(* The turn that ends and the turn that begins. *)
LEMMA SwapFacts ==
  ASSUME turns \in [Turns -> TurnRecord], NEW t \in Turns, NEW n \in Turns,
         NEW d \in TurnRecord
  PROVE  \E rec \in TurnRecord :
           /\ Swapped(t, n, d) = [[turns EXCEPT ![t] = rec] EXCEPT ![n] = d]
           /\ rec.phase = "reported" /\ rec.cancel = turns[t].cancel
           /\ rec.answer = turns[t].answer
<1> DEFINE rec == [turns[t] EXCEPT !.phase = "reported"]
<1>1. /\ rec \in TurnRecord /\ rec.phase = "reported" /\ rec.cancel = turns[t].cancel
      /\ rec.answer = turns[t].answer
  BY DEF TurnRecord, Phases
<1>2. Swapped(t, n, d) = [[turns EXCEPT ![t] = rec] EXCEPT ![n] = d]
  BY DEF Swapped
<1> HIDE DEF rec
<1> QED
  BY <1>1, <1>2

(* Buffered messages get a turn. *)
LEMMA OutcomeRestartsInv ==
  ASSUME WorkerInv, NEW t \in Turns, OutcomeRestarts(t)
  PROVE  WorkerInv'
<1>1. /\ turns \in [Turns -> TurnRecord] /\ minted \in 0..MaxTurns /\ schedule \in Schedule
      /\ generation \in 0..MaxGeneration /\ inputs \subseteq Turns
  BY TypeParts DEF WorkerInv
<1>2. /\ initialized /\ t # NoTurn
      /\ \A u \in Turns : u # t => turns[u].phase \in {"unused", "reported"}
      /\ ~Stopped(StatusAfter(t)) =>
              /\ StatusAfter(t) = status
              /\ status = "Completed" \/ (status = "Running" /\ pending # {})
  BY OutcomeFacts DEF OutcomeRestarts
<1>3. pending # {} /\ status \in {"Completed", "Running"}
  BY <1>2 DEF OutcomeRestarts, Restarts
<1>4. ~Reporting /\ Entries(schedule) = {}
  BY <1>3 DEF WorkerInv, ReportIsFinal, Terminal, ReviewsAreCurrent
<1>5. PICK n \in Turns : n = minted + 1
  BY <1>1, WorkerAssumption DEF OutcomeRestarts, Turns
<1>6. PICK d \in TurnRecord : /\ d = Dispatched(generation, FALSE)
                              /\ d.phase = "start" /\ d.generation = generation
  BY <1>1, TurnFacts
<1>7. /\ turns' = Swapped(t, n, d) /\ active' = n /\ minted' = n
      /\ status' = "Running" /\ inputs' = InputsAfter(t)
      /\ schedule' = schedule /\ raised' = raised
  BY <1>5, <1>6 DEF OutcomeRestarts, Swapped
<1>8. /\ turns' \in [Turns -> TurnRecord] /\ turns'[n] = d
      /\ \A u \in Turns : u # n =>
           (u # t /\ turns'[u] = turns[u]) \/ (u = t /\ turns'[u].phase = "reported")
  <2>1. PICK rec \in TurnRecord :
          turns' = [[turns EXCEPT ![t] = rec] EXCEPT ![n] = d] /\ rec.phase = "reported"
    BY <1>1, <1>7, SwapFacts
  <2> QED
    BY <1>1, <2>1
<1>9. \A u \in Turns : u # n => turns'[u].phase \in {"unused", "reported"}
  BY <1>2, <1>8
<1>10. inputs' \subseteq Turns
  BY <1>1, <1>7 DEF InputsAfter
<1>11. schedule' \in Schedule /\ Entries(schedule') = {} /\ ReviewsAreRaised'
  BY <1>1, <1>4, <1>7 DEF ReviewsAreRaised, Entries
<1>12. minted' \in 0..MaxTurns
  BY <1>7 DEF Turns
<1> QED
  BY <1>2, <1>4, <1>5, <1>6, <1>7, <1>8, <1>9, <1>10, <1>11, <1>12, StartedInv DEF OutcomeRestarts

(* The continuation that is taken from the queue, and what it leaves behind. *)
LEMMA TakenFacts ==
  ASSUME NEW s \in Schedule, NEW g, NEW e \in Eligible(s, g)
  PROVE  /\ e \in s.queued /\ e.turn \in Turns
         /\ Dequeue(s, e) \in Schedule
         /\ Dequeue(s, e).registered = s.registered
         /\ Dequeue(s, e).queued = s.queued \ {e}
         /\ Entries(Dequeue(s, e)) \subseteq Entries(s)
<1>1. e \in s.queued /\ e \in Entry
  BY DEF Eligible, Schedule
<1>2. e.turn \in Turns
  BY <1>1 DEF Entry
<1> QED
  BY <1>1, <1>2, ResolveFacts

(* An approved review gets its continuation once the turn has ended. *)
LEMMA OutcomeContinuesInv ==
  ASSUME WorkerInv, NEW t \in Turns, OutcomeContinues(t)
  PROVE  WorkerInv'
<1>1. /\ turns \in [Turns -> TurnRecord] /\ schedule \in Schedule
      /\ minted \in 0..MaxTurns /\ generation \in 0..MaxGeneration /\ inputs \subseteq Turns
  BY TypeParts DEF WorkerInv
<1>2. /\ initialized
      /\ \A u \in Turns : u # t => turns[u].phase \in {"unused", "reported"}
  BY OutcomeFacts DEF OutcomeContinues
<1>3. PICK e \in NextContinuation(t) :
        /\ schedule' = Dequeue(schedule, e)
        /\ active' = e.turn
        /\ turns' = Swapped(t, e.turn, Dispatched(generation, TRUE))
  BY DEF OutcomeContinues, Swapped
<1>4. e \in Eligible(schedule, generation)
  BY <1>3 DEF NextContinuation
<1>5. /\ e \in schedule.queued /\ e.turn \in Turns
      /\ schedule' \in Schedule
      /\ schedule'.registered = schedule.registered
      /\ schedule'.queued = schedule.queued \ {e}
      /\ Entries(schedule') \subseteq Entries(schedule)
  BY <1>1, <1>3, <1>4, TakenFacts
<1>6. e \in Entries(schedule)
  BY <1>5 DEF Entries
<1>7. ~Reporting /\ pending = {}
  BY <1>6 DEF WorkerInv, ReportIsFinal, ReviewsAreCurrent
<1>8. /\ \A f \in Entries(schedule') : f.generation = generation
      /\ cancelled => Entries(schedule') = {}
      /\ ReviewsAreRaised'
  BY <1>5, <1>6 DEF WorkerInv, ReviewsAreCurrent, RegisteredCanContinue, ReviewsAreRaised,
     Entries, OutcomeContinues
<1>9. PICK d \in TurnRecord : /\ d = Dispatched(generation, TRUE)
                              /\ d.phase = "start" /\ d.generation = generation
  BY <1>1, TurnFacts
<1>10. PICK n \in Turns : turns' = Swapped(t, n, d) /\ active' = n
  BY <1>3, <1>5, <1>9
<1>11. /\ turns' \in [Turns -> TurnRecord] /\ turns'[n] = d
       /\ \A u \in Turns : u # n =>
            (u # t /\ turns'[u] = turns[u]) \/ (u = t /\ turns'[u].phase = "reported")
  <2>1. PICK rec \in TurnRecord :
          turns' = [[turns EXCEPT ![t] = rec] EXCEPT ![n] = d] /\ rec.phase = "reported"
    BY <1>1, <1>10, SwapFacts
  <2> QED
    BY <1>1, <2>1
<1>12. \A u \in Turns : u # n => turns'[u].phase \in {"unused", "reported"}
  BY <1>2, <1>11
<1>13. inputs' \subseteq Turns /\ status' = "Running" /\ minted' \in 0..MaxTurns
  BY <1>1 DEF OutcomeContinues, InputsAfter
<1>14. UNCHANGED <<initialized, pending, cancelled, delivered, waiters, generation,
                   history, watch, cleanup, suspended, ticks, spawned, raised, asleep,
                   refused>>
  BY DEF OutcomeContinues
<1>15. turns'[n].phase = "start" /\ turns'[n].generation = generation
  BY <1>9, <1>11
<1> QED
  BY <1>2, <1>5, <1>7, <1>8, <1>10, <1>11, <1>12, <1>13, <1>14, <1>15, StartedInv

(* maybe_resolve_parent_awakeable of a worker that has its identity. *)
LEMMA MaybeReportFacts ==
  ASSUME WorkerInv, Free, NEW st, NEW sched, MaybeReport(st, sched)
  PROVE  \/ /\ Terminal(st) /\ ~Holds(sched, generation)
            /\ waiters' = {} /\ asleep' = {}
            /\ suspended' = IF delivered THEN "none" ELSE "deliver"
         \/ /\ ~(Terminal(st) /\ ~Holds(sched, generation))
            /\ UNCHANGED <<waiters, asleep, suspended>>
  BY DEF WorkerInv, ReportIsFinal, MaybeReport, Suspend, Free

(* The worker settles, and reports unless a review is open. *)
LEMMA OutcomeSettlesInv ==
  ASSUME WorkerInv, NEW t \in Turns, OutcomeSettles(t)
  PROVE  WorkerInv'
<1> USE DEF WorkerInv
<1>1. /\ turns \in [Turns -> TurnRecord] /\ schedule \in Schedule
      /\ inputs \subseteq Turns
      /\ suspended = "none"
  BY TypeParts DEF OutcomeSettles, Free
<1>2. /\ initialized /\ t # NoTurn
      /\ \A u \in Turns : u # t => turns[u].phase \in {"unused", "reported"}
      /\ Stopped(StatusAfter(t)) => StatusAfter(t) \in {"Cancelled", "Failed"}
      /\ ~Stopped(StatusAfter(t)) =>
              /\ StatusAfter(t) = status
              /\ status = "Completed" \/ (status = "Running" /\ pending # {})
  BY OutcomeFacts DEF OutcomeSettles
<1>3. /\ status' = StatusAfter(t) /\ active' = NoTurn
      /\ inputs' = InputsAfter(t) /\ schedule' = ReviewsAfter(t)
      /\ UNCHANGED <<initialized, pending, cancelled, delivered, generation, history,
                     watch, cleanup, ticks, minted, spawned, raised, refused>>
  BY DEF OutcomeSettles
<1>4. \/ status' = "Completed" /\ status = "Completed" /\ pending = {} /\ ~Stopped(status')
         /\ schedule' = schedule
      \/ Stopped(status') /\ status' \in {"Cancelled", "Failed"}
         /\ schedule' = DiscardAll(schedule)
  BY <1>2, <1>3 DEF OutcomeSettles, Restarts, ReviewsAfter, Stopped
<1>5. /\ schedule' \in Schedule
      /\ schedule' = schedule \/ Entries(schedule') = {}
      /\ Stopped(status') => Entries(schedule') = {}
  BY <1>1, <1>4, DiscardFacts DEF Stopped
<1>6. Holds(schedule', generation) <=> Entries(schedule') # {}
  BY <1>5, HeldFacts DEF Holds, Entries, ReviewsAreCurrent
<1>7. \/ /\ Entries(schedule') = {}
         /\ waiters' = {} /\ asleep' = {}
         /\ suspended' = IF delivered THEN "none" ELSE "deliver"
      \/ /\ Entries(schedule') # {}
         /\ UNCHANGED <<waiters, asleep, suspended>>
  <2>1. Terminal(status')
    BY <1>4 DEF Terminal
  <2> QED
    BY <1>3, <1>6, <2>1, MaybeReportFacts DEF OutcomeSettles
<1>8. PICK rec \in TurnRecord :
        turns' = [turns EXCEPT ![t] = rec] /\ rec.phase = "reported"
  <2>1. turns' = Moved(t, "reported") /\ "reported" \in Phases
    BY DEF OutcomeSettles, Moved, Phases
  <2> QED
    BY <1>1, <2>1, MoveFacts
<1>9. /\ turns' \in [Turns -> TurnRecord]
      /\ \A u \in Turns : turns'[u].phase \in {"unused", "reported"}
  BY <1>1, <1>2, <1>8
<1>10. TypeOK'
  <2>1. inputs' \subseteq Turns
    BY <1>1, <1>3 DEF InputsAfter
  <2>2. status' \in {"Uninitialized", "Running", "Completed", "Cancelled", "Failed"}
    BY <1>4
  <2>3. waiters' \subseteq Waiters /\ asleep' \subseteq Waiters
        /\ suspended' \in {"none", "deliver", "stale"}
    BY <1>7, TypeParts
  <2> QED
    BY <1>3, <1>5, <1>9, <2>1, <2>2, <2>3, TypeParts
       DEF TypeOK, TurnRecord, Schedule, Entry, Ticks
<1>11. BlankIsEmpty'
  BY <1>2, <1>3 DEF BlankIsEmpty
<1>12. LiveIsActive' /\ WorkingIsCurrent' /\ ParkedIsAnswerable'
  BY <1>9 DEF LiveIsActive, Live, WorkingIsCurrent, Working, ParkedIsAnswerable
<1>13. ReviewsAreCurrent'
  <2>1. CASE Entries(schedule') = {}
    BY <2>1 DEF ReviewsAreCurrent, RegisteredCanContinue, ReviewsAreRaised, Entries
  <2>2. CASE Entries(schedule') # {}
    BY <1>2, <1>3, <1>5, <1>9, <2>2
       DEF ReviewsAreCurrent, RegisteredCanContinue, ReviewsAreRaised, Live
  <2> QED
    BY <2>1, <2>2
<1>14. ReportIsFinal'
  BY <1>1, <1>2, <1>3, <1>4, <1>5, <1>7 DEF ReportIsFinal, Reporting, Terminal
<1>15. IdleHasReported'
  BY <1>3, <1>4, <1>7 DEF IdleHasReported, HasReported, Terminal
<1>16. WatchIsOrdered'
  BY <1>1, <1>3, <1>7 DEF WatchIsOrdered, OutstandingIsScheduled
<1> QED
  BY <1>10, <1>11, <1>12, <1>13, <1>14, <1>15, <1>16
--------------------------------------------------------------------------------
(* The report and those who wait for it.                                        *)

(* A step that touches neither the turns nor the reviews. *)
LEMMA QuietStepInv ==
  ASSUME WorkerInv, TypeOK', BlankIsEmpty', ReportIsFinal', IdleHasReported', WatchIsOrdered',
         UNCHANGED <<initialized, status, active, pending, cancelled, generation, schedule,
                     inputs, turns, raised>>
  PROVE  WorkerInv'
<1>1. LiveIsActive' /\ WorkingIsCurrent'
  BY DEF WorkerInv, LiveIsActive, Live, DoneStatus, WorkingIsCurrent
<1>2. ReviewsAreCurrent' /\ ParkedIsAnswerable'
  BY DEF WorkerInv, ReviewsAreCurrent, RegisteredCanContinue, ReviewsAreRaised, Live,
     ParkedIsAnswerable
<1> QED
  BY <1>1, <1>2 DEF WorkerInv

(* A tick of the cleanup is none of the liveness slot. *)
LEMMA CleanupTickFacts ==
  ASSUME NEW g \in Nat
  PROVE  /\ TickAfterReport(g) \in Ticks /\ TickAfterReport(g).kind = "cleanup"
         /\ \A h : TickAfterReport(g) # LiveTick(h)
<1>1. TickAfterReport(g) \in Ticks /\ TickAfterReport(g).kind = "cleanup"
  BY DEF TickAfterReport, CleanupTick, Ticks
<1>2. \A h : LiveTick(h).kind = "liveness"
  BY DEF LiveTick
<1> QED
  BY <1>1, <1>2

(* The Session acknowledges the report, and the cleanup is scheduled. *)
LEMMA ParentAcknowledgesInv ==
  ASSUME WorkerInv, ParentAcknowledges
  PROVE  WorkerInv'
<1> USE DEF WorkerInv
<1>1. /\ suspended = "deliver" /\ ticks \subseteq Ticks
      /\ cleanup \in [generation : Nat, attempts : 0..(MaxRelease - 1)]
  BY TypeParts DEF ParentAcknowledges
<1>2. /\ initialized /\ spawned /\ ~delivered
  BY <1>1 DEF ReportIsFinal, Reporting, BlankIsEmpty
<1>3. cleanup' \in [generation : Nat, attempts : 0..(MaxRelease - 1)]
  BY <1>1, BumpFacts DEF ParentAcknowledges
<1>4. PICK k \in Ticks : /\ ticks' = ticks \cup {k} /\ k.kind = "cleanup"
                         /\ \A h : k # LiveTick(h)
  BY <1>1, CleanupTickFacts DEF ParentAcknowledges
<1>5. /\ suspended' = "none" /\ delivered' = TRUE
      /\ UNCHANGED <<initialized, status, active, pending, cancelled, waiters,
                     generation, schedule, inputs, history, watch, turns, minted,
                     spawned, raised, asleep, refused>>
  BY DEF ParentAcknowledges
<1>6. TypeOK'
  BY <1>1, <1>3, <1>4, <1>5, TypeParts DEF TypeOK, TurnRecord, Schedule, Entry, Ticks
<1>7. BlankIsEmpty'
  BY <1>2, <1>5 DEF BlankIsEmpty
<1>8. ReportIsFinal' /\ IdleHasReported'
  BY <1>1, <1>2, <1>5 DEF ReportIsFinal, Reporting, IdleHasReported, HasReported
<1>9. WatchIsOrdered'
  BY <1>1, <1>4, <1>5 DEF WatchIsOrdered, OutstandingIsScheduled
<1> QED
  BY <1>5, <1>6, <1>7, <1>8, <1>9, QuietStepInv

(* The Session refuses it. *)
LEMMA ParentRefusesInv ==
  ASSUME WorkerInv, ParentRefuses
  PROVE  WorkerInv'
<1> USE DEF WorkerInv, lifeVars, coordVars
<1>1. /\ suspended = "deliver" /\ generation \in 0..MaxGeneration
      /\ refused \subseteq 1..MaxGeneration
  BY TypeParts DEF ParentRefuses
<1>2. /\ initialized /\ spawned /\ ~delivered /\ asleep = {} /\ generation > 0
  BY <1>1 DEF ReportIsFinal, Reporting, BlankIsEmpty
<1>3. /\ suspended' = "none" /\ refused' = refused \cup {generation}
      /\ UNCHANGED <<lifeVars, coordVars, ticks, turns, minted, spawned, raised, asleep>>
  BY DEF ParentRefuses
<1>4. refused' \subseteq 1..MaxGeneration
  BY <1>1, <1>2, <1>3, WorkerAssumption
<1>5. TypeOK'
  BY <1>3, <1>4, TypeParts DEF TypeOK, TurnRecord, Schedule, Entry, Ticks
<1>6. BlankIsEmpty'
  BY <1>2, <1>3 DEF BlankIsEmpty
<1>7. ReportIsFinal' /\ IdleHasReported'
  BY <1>2, <1>3 DEF ReportIsFinal, Reporting, IdleHasReported, HasReported
<1>8. WatchIsOrdered'
  BY <1>1, <1>3 DEF WatchIsOrdered, OutstandingIsScheduled
<1> QED
  BY <1>3, <1>5, <1>6, <1>7, <1>8, QuietStepInv

(* A coordinator waits for a result that is not there yet. *)
LEMMA AttachWaiterInv ==
  ASSUME WorkerInv, NEW w \in Waiters, AttachWaiter(w)
  PROVE  WorkerInv'
<1> USE DEF WorkerInv, coordVars
<1>1. /\ spawned /\ ~Final /\ waiters' = waiters \cup {w} /\ asleep' = asleep \cup {w}
      /\ suspended = "none"
      /\ UNCHANGED <<initialized, status, active, pending, cancelled, delivered,
                     generation, coordVars, suspended, ticks, turns, minted, spawned,
                     raised, refused>>
  BY DEF AttachWaiter, Free
<1>2. Terminal(status) => Entries(schedule) # {}
  BY <1>1, HeldFacts DEF ReviewsAreCurrent, Final
<1>3. ~Reporting
  BY <1>2 DEF ReportIsFinal
<1>4. TypeOK'
  BY <1>1, TypeParts DEF TypeOK, TurnRecord, Schedule, Entry, Ticks
<1>5. BlankIsEmpty'
  BY <1>1 DEF BlankIsEmpty
<1>6. ReportIsFinal' /\ IdleHasReported'
  BY <1>1, <1>2, <1>3 DEF ReportIsFinal, Reporting, IdleHasReported, Terminal, Entries
<1>7. WatchIsOrdered'
  BY <1>1 DEF WatchIsOrdered, OutstandingIsScheduled
<1> QED
  BY <1>1, <1>4, <1>5, <1>6, <1>7, QuietStepInv

(* It gives up. *)
LEMMA WaitTimesOutInv ==
  ASSUME WorkerInv, NEW w \in Waiters, WaitTimesOut(w)
  PROVE  WorkerInv'
<1> USE DEF WorkerInv, coordVars
<1>1. /\ waiters' = waiters \ {w} /\ asleep' = asleep \ {w}
      /\ UNCHANGED <<initialized, status, active, pending, cancelled, delivered,
                     generation, coordVars, suspended, ticks, turns, minted, spawned,
                     raised, refused>>
  BY DEF WaitTimesOut
<1>2. TypeOK'
  BY <1>1, TypeParts DEF TypeOK, TurnRecord, Schedule, Entry, Ticks
<1>3. BlankIsEmpty'
  BY <1>1 DEF BlankIsEmpty
<1>4. ReportIsFinal' /\ IdleHasReported'
  BY <1>1 DEF ReportIsFinal, Reporting, IdleHasReported, HasReported
<1>5. WatchIsOrdered'
  BY <1>1 DEF WatchIsOrdered, OutstandingIsScheduled
<1> QED
  BY <1>1, <1>2, <1>3, <1>4, <1>5, QuietStepInv

--------------------------------------------------------------------------------
(* The life of a review.                                                        *)

(* A governed call of a turn is registered unless a message superseded it. *)
LEMMA RaiseReviewInv ==
  ASSUME WorkerInv, NEW t \in Turns, NEW r \in Reviews, RaiseReview(t, r)
  PROVE  WorkerInv'
<1> USE DEF WorkerInv, lifeVars
<1>1. /\ turns \in [Turns -> TurnRecord] /\ schedule \in Schedule /\ raised \subseteq Reviews
      /\ generation \in 0..MaxGeneration /\ turns[t].generation \in 0..MaxGeneration
  BY TypeParts DEF TurnRecord
<1>2. /\ turns[t].phase = "tool" /\ r \notin raised /\ raised' = raised \cup {r}
      /\ schedule' = RegisterUnlessSuperseded(r, t)
      /\ UNCHANGED <<lifeVars, inputs, history, watch, cleanup, suspended, ticks,
                     minted, spawned, asleep, refused>>
  BY DEF RaiseReview
<1>3. /\ Live(t) /\ initialized /\ active = t /\ status = "Running"
      /\ turns[t].generation <= generation
  BY <1>2 DEF Live, LiveIsActive
<1>4. \A u \in Turns : u # t => ~Live(u)
  BY <1>3 DEF LiveIsActive
<1>5. /\ cancelled => turns[t].cancel /\ Entries(schedule) = {}
      /\ turns[t].generation = generation => pending = {}
  BY <1>2, <1>3 DEF WorkingIsCurrent, Working, ReviewsAreCurrent
<1>6. PICK rec \in TurnRecord :
        /\ turns' = [turns EXCEPT ![t] = rec] /\ rec.phase = "model"
        /\ rec.generation = turns[t].generation
        /\ rec.cancel = turns[t].cancel /\ rec.answer = turns[t].answer
  <2>1. turns' = Moved(t, "model") /\ "model" \in Phases
    BY DEF RaiseReview, Moved, Phases
  <2> QED
    BY <1>1, <2>1, MoveFacts
<1>7. /\ turns' \in [Turns -> TurnRecord] /\ turns'[t] = rec
      /\ \A u \in Turns : u # t => turns'[u] = turns[u]
  BY <1>1, <1>6
<1>8. /\ schedule' \in Schedule /\ schedule'.queued = schedule.queued
      /\ \/ schedule'.registered = schedule.registered
         \/ \E e \in Entry :
              /\ e.generation = generation /\ e.review = r /\ pending = {}
              /\ schedule'.registered = schedule.registered \cup {e}
  <2>1. CASE turns[t].generation < generation
    BY <1>1, <1>2, <2>1 DEF RegisterUnlessSuperseded
  <2>2. CASE ~(turns[t].generation < generation)
    <3>1. turns[t].generation = generation /\ generation \in Nat
      BY <1>1, <1>3, <2>2
    <3>2. schedule' = Register(schedule, r, t, generation)
      BY <1>2, <2>2, <3>1 DEF RegisterUnlessSuperseded
    <3> QED
      BY <1>1, <1>5, <3>1, <3>2, RegisterFacts
  <2> QED
    BY <2>1, <2>2
<1>9. TypeOK'
  BY <1>1, <1>2, <1>7, <1>8, TypeParts DEF TypeOK, TurnRecord, Schedule, Entry
<1>10. BlankIsEmpty'
  BY <1>2, <1>3 DEF BlankIsEmpty
<1>11. LiveIsActive' /\ WorkingIsCurrent' /\ ParkedIsAnswerable'
  BY <1>2, <1>3, <1>6, <1>7 DEF LiveIsActive, Live, DoneStatus, WorkingIsCurrent, Working,
     ParkedIsAnswerable
<1>12. ReviewsAreCurrent'
  <2>1. CASE schedule'.registered = schedule.registered
    <3>1. Entries(schedule') = Entries(schedule)
      BY <1>8, <2>1 DEF Entries
    <3>2. ReviewsAreRaised' /\ RegisteredCanContinue'
      BY <1>2, <1>8, <2>1, <3>1
         DEF ReviewsAreCurrent, ReviewsAreRaised, RegisteredCanContinue, Entries
    <3> QED
      BY <1>2, <1>5, <3>1, <3>2 DEF ReviewsAreCurrent
  <2>2. CASE \E e \in Entry :
              /\ e.generation = generation /\ e.review = r /\ pending = {}
              /\ schedule'.registered = schedule.registered \cup {e}
    <3>1. PICK e \in Entry :
              /\ e.generation = generation /\ e.review = r /\ pending = {}
              /\ schedule'.registered = schedule.registered \cup {e}
      BY <2>2
    <3>2. Entries(schedule') = Entries(schedule) \cup {e}
      BY <1>8, <3>1 DEF Entries
    <3>3. RegisteredCanContinue'
      BY <1>2, <1>3, <3>1, <3>2 DEF ReviewsAreCurrent, RegisteredCanContinue, Entries, Stopped
    <3>4. ReviewsAreRaised'
      BY <1>2, <1>8, <3>1, <3>2 DEF ReviewsAreCurrent, ReviewsAreRaised, Entries
    <3>5. cancelled => \A f, h \in Entries(schedule') : f = h
      BY <1>5, <3>2
    <3>6. cancelled => \A u \in Turns : Live(u)' => /\ turns'[u].cancel
                                                   /\ turns'[u].phase \in {"start", "model", "done"}
      BY <1>4, <1>5, <1>6, <1>7 DEF Live
    <3> QED
      BY <1>2, <1>3, <3>1, <3>3, <3>4, <3>5, <3>6 DEF ReviewsAreCurrent
  <2> QED
    BY <1>8, <2>1, <2>2
<1>13. ReportIsFinal' /\ IdleHasReported'
  BY <1>2, <1>3 DEF ReportIsFinal, Reporting, Terminal, IdleHasReported, Turns, NoTurn
<1>14. WatchIsOrdered'
  BY <1>2 DEF WatchIsOrdered, OutstandingIsScheduled
<1> QED
  BY <1>9, <1>10, <1>11, <1>12, <1>13, <1>14

(* A schedule the worker may be left with. *)
Current(q) ==
  /\ q \in Schedule
  /\ \A e \in Entries(q) : e.generation = generation /\ e.review \in raised
  /\ \A e \in q.registered, f \in q.queued : e.review # f.review
  /\ cancelled => \A e, f \in Entries(q) : e = f

(* An open review: the worker has read its messages and has not reported. *)
LEMMA OpenFacts ==
  ASSUME WorkerInv, NEW r, IsRegistered(schedule, r)
  PROVE  /\ initialized /\ pending = {} /\ ~Reporting /\ ~Stopped(status)
         /\ Current(schedule)
         /\ \E reg \in schedule.registered :
              reg = Registration(schedule, r) /\ reg.review = r /\ reg \in Entry
<1>1. PICK e \in schedule.registered : e.review = r
  BY DEF IsRegistered
<1>2. e \in Entries(schedule) /\ schedule \in Schedule
  BY <1>1, TypeParts DEF Entries, WorkerInv
<1>3. /\ initialized /\ pending = {} /\ ~Reporting /\ ~Stopped(status)
  BY <1>2 DEF WorkerInv, ReviewsAreCurrent, ReportIsFinal, RegisteredCanContinue, Entries
<1>4. Current(schedule)
  BY <1>2 DEF WorkerInv, ReviewsAreCurrent, RegisteredCanContinue, ReviewsAreRaised,
     Entries, Current
<1>5. /\ Registration(schedule, r) \in schedule.registered
      /\ Registration(schedule, r).review = r
  BY <1>1 DEF Registration
<1>6. Registration(schedule, r) \in Entry
  BY <1>2, <1>5 DEF Schedule
<1> QED
  BY <1>3, <1>4, <1>5, <1>6

(* A worker without a turn: no turn is live. *)
LEMMA IdleFacts ==
  ASSUME WorkerInv, initialized, Idle
  PROVE  \A u \in Turns : turns[u].phase \in {"unused", "reported"}
  BY DEF WorkerInv, LiveIsActive, Live, Idle, Turns, NoTurn

(* The continuation of an approved review starts on an idle worker. *)
LEMMA ContinuationInv ==
  ASSUME WorkerInv, initialized, Idle, pending = {}, ~Reporting,
         NEW q, Current(q), NEW e \in Eligible(q, generation),
         schedule' = Dequeue(q, e), StartContinuation(e), minted' \in 0..MaxTurns,
         UNCHANGED <<initialized, pending, cancelled, delivered, waiters, generation, inputs,
                     history, watch, cleanup, suspended, ticks, spawned, raised, asleep,
                     refused>>
  PROVE  WorkerInv'
<1>1. /\ turns \in [Turns -> TurnRecord] /\ generation \in 0..MaxGeneration
      /\ inputs \subseteq Turns /\ q \in Schedule
  BY TypeParts DEF WorkerInv, Current
<1>2. \A u \in Turns : turns[u].phase \in {"unused", "reported"}
  BY IdleFacts
<1>3. /\ e \in q.queued /\ e.turn \in Turns
      /\ schedule' \in Schedule
      /\ schedule'.registered = q.registered /\ schedule'.queued = q.queued \ {e}
      /\ Entries(schedule') \subseteq Entries(q)
  BY <1>1, TakenFacts
<1>4. PICK d \in TurnRecord : /\ d = Dispatched(generation, TRUE)
                              /\ d.phase = "start" /\ d.generation = generation
  BY <1>1, TurnFacts
<1>5. PICK n \in Turns : turns' = [turns EXCEPT ![n] = d] /\ active' = n /\ status' = "Running"
  BY <1>3, <1>4 DEF StartContinuation
<1>6. /\ turns' \in [Turns -> TurnRecord]
      /\ turns'[n].phase = "start" /\ turns'[n].generation = generation
      /\ \A u \in Turns : u # n => turns'[u].phase \in {"unused", "reported"}
  BY <1>1, <1>2, <1>4, <1>5
<1>7. \A f \in Entries(schedule') : f.generation = generation
  BY <1>3 DEF Current
<1>8. ReviewsAreRaised'
  BY <1>3 DEF Current, ReviewsAreRaised, Entries
<1>9. cancelled => Entries(schedule') = {}
  <2>1. e \in Entries(q) /\ e \notin schedule'.queued
    BY <1>3 DEF Entries
  <2>2. cancelled => e \notin q.registered
    BY <1>3 DEF Current
  <2> QED
    BY <1>3, <2>1, <2>2 DEF Current, Entries
<1> QED
  BY <1>1, <1>3, <1>5, <1>6, <1>7, <1>8, <1>9, StartedInv

(* Reviews move while the worker goes on as it was. *)
LEMMA ReviewsMoveInv ==
  ASSUME WorkerInv, initialized, pending = {}, ~Reporting, ~Stopped(status),
         Entries(schedule) # {}, Current(schedule'), minted' \in 0..MaxTurns,
         \/ Entries(schedule') # {} /\ UNCHANGED <<waiters, asleep, suspended>>
         \/ ~Terminal(status) /\ UNCHANGED <<waiters, asleep, suspended>>
         \/ /\ Terminal(status) /\ Entries(schedule') = {} /\ suspended = "none"
            /\ waiters' = {} /\ asleep' = {} /\ suspended' = "deliver",
         UNCHANGED <<initialized, status, active, turns, pending, cancelled, delivered,
                     generation, inputs, history, watch, cleanup, ticks, spawned, raised,
                     refused>>
  PROVE  WorkerInv'
<1> USE DEF WorkerInv
<1>1. schedule' \in Schedule
  BY DEF Current
<1>2. TypeOK'
  BY <1>1, TypeParts DEF TypeOK, TurnRecord, Schedule, Entry, Ticks
<1>3. BlankIsEmpty'
  BY DEF BlankIsEmpty
<1>4. LiveIsActive' /\ WorkingIsCurrent' /\ ParkedIsAnswerable'
  BY DEF LiveIsActive, Live, DoneStatus, WorkingIsCurrent, ParkedIsAnswerable
<1>5. ReviewsAreCurrent'
  <2>1. RegisteredCanContinue' /\ ReviewsAreRaised'
    BY DEF Current, RegisteredCanContinue, ReviewsAreRaised, Entries
  <2>2. cancelled => \A e, f \in Entries(schedule') : e = f
    BY DEF Current
  <2> QED
    BY <2>1, <2>2 DEF ReviewsAreCurrent, Live
<1>6. ReportIsFinal'
  BY DEF ReportIsFinal, Reporting
<1>7. IdleHasReported'
  BY DEF IdleHasReported, Terminal
<1>8. WatchIsOrdered'
  BY DEF WatchIsOrdered, OutstandingIsScheduled
<1> QED
  BY <1>2, <1>3, <1>4, <1>5, <1>6, <1>7, <1>8

(* An approved review is queued, and continues at once on an idle worker. *)
LEMMA ResolveReviewInv ==
  ASSUME WorkerInv, NEW r \in Reviews, ResolveReview(r)
  PROVE  WorkerInv'
<1>1. /\ initialized /\ pending = {} /\ ~Reporting /\ ~Stopped(status) /\ Current(schedule)
  BY OpenFacts DEF ResolveReview
<1>2. PICK reg \in schedule.registered :
        reg = Registration(schedule, r) /\ reg.review = r /\ reg \in Entry
  BY OpenFacts DEF ResolveReview
<1>3. /\ minted \in 0..MaxTurns /\ minted < MaxTurns /\ schedule \in Schedule
  BY TypeParts DEF WorkerInv, ResolveReview
<1>4. minted' = minted + 1 /\ minted + 1 \in Turns /\ minted' \in 0..MaxTurns
  BY <1>3, WorkerAssumption DEF ResolveReview, Turns
<1> DEFINE new == [review |-> r, turn |-> minted + 1,
                   generation |-> reg.generation, ordinal |-> reg.ordinal]
<1>5. PICK entry \in Entry : entry = new /\ entry.review = r /\ entry.generation = generation
  <2>1. reg.generation = generation /\ reg.ordinal \in Nat /\ reg.generation \in Nat
    BY <1>1, <1>2 DEF Current, Entries, Entry
  <2>2. new \in Entry /\ new.review = r /\ new.generation = generation
    BY <1>4, <2>1 DEF Entry
  <2> QED
    BY <2>2
<1>6. PICK q : q = Enqueue(Resolve(schedule, r), entry)
  OBVIOUS
<1>7. /\ q \in Schedule
      /\ q.registered = {e \in schedule.registered : e.review # r}
      /\ q.queued = schedule.queued \cup {entry}
  <2>1. PICK left \in Schedule :
          /\ left = Resolve(schedule, r) /\ left.queued = schedule.queued
          /\ left.registered = {e \in schedule.registered : e.review # r}
    BY <1>3, ResolveFacts
  <2>2. \A e \in left.queued : e.review # entry.review
    BY <1>1, <1>2, <1>5, <2>1 DEF Current
  <2> QED
    BY <1>6, <2>1, <2>2, EnqueueFacts
<1>8. Current(q)
  <2>1. r \in raised
    BY <1>1, <1>2 DEF Current, Entries
  <2>2. \A e \in Entries(q) : e = entry \/ e \in Entries(schedule)
    BY <1>7 DEF Entries
  <2>3. \A e \in Entries(q) : e.generation = generation /\ e.review \in raised
    BY <1>1, <1>5, <2>1, <2>2 DEF Current
  <2>4. \A e \in q.registered, f \in q.queued : e.review # f.review
    BY <1>1, <1>5, <1>7 DEF Current
  <2>5. cancelled => \A e \in Entries(q) : e = entry
    <3>1. cancelled => \A e \in Entries(schedule) : e = reg
      BY <1>1, <1>2 DEF Current, Entries
    <3>2. cancelled => q.registered = {} /\ schedule.queued = {}
      BY <1>1, <1>2, <1>7, <3>1 DEF Current, Entries
    <3> QED
      BY <1>7, <3>2 DEF Entries
  <2> QED
    BY <1>7, <2>3, <2>4, <2>5 DEF Current
<1>9. UNCHANGED <<initialized, pending, cancelled, delivered, waiters, generation,
                 inputs, history, watch, cleanup, suspended, ticks, spawned,
                 raised, asleep, refused>>
  BY DEF ResolveReview
<1>10. \/ schedule' = q /\ UNCHANGED <<active, status, turns>>
       \/ \E e \in Eligible(q, generation) :
            Idle /\ schedule' = Dequeue(q, e) /\ StartContinuation(e)
  <2>1. q = Enqueue(Resolve(schedule, r),
                    [review |-> r, turn |-> minted + 1,
                     generation |-> Registration(schedule, r).generation,
                     ordinal |-> Registration(schedule, r).ordinal])
    BY <1>2, <1>5, <1>6
  <2> QED
    BY <2>1 DEF ResolveReview
<1>11. CASE schedule' = q /\ UNCHANGED <<active, status, turns>>
  <2>1. Entries(schedule) # {} /\ Entries(schedule') # {}
    BY <1>2, <1>7, <1>11 DEF Entries
  <2> QED
    BY <1>1, <1>4, <1>8, <1>9, <1>11, <2>1, ReviewsMoveInv
<1>12. CASE \E e \in Eligible(q, generation) :
            Idle /\ schedule' = Dequeue(q, e) /\ StartContinuation(e)
  <2>1. PICK e \in Eligible(q, generation) :
            Idle /\ schedule' = Dequeue(q, e) /\ StartContinuation(e)
    BY <1>12
  <2> QED
    BY <1>1, <1>4, <1>8, <1>9, <2>1, ContinuationInv
<1> QED
  BY <1>10, <1>11, <1>12

(* A released review frees the ones behind it, or lets the worker report. *)
LEMMA ReleaseReviewInv ==
  ASSUME WorkerInv, NEW r \in Reviews, NEW cause, ReleaseReview(r, cause)
  PROVE  WorkerInv'
<1>1. /\ initialized /\ pending = {} /\ ~Reporting /\ ~Stopped(status) /\ Current(schedule)
      /\ suspended = "none"
  BY OpenFacts DEF ReleaseReview, Free
<1>2. Entries(schedule) # {} /\ schedule \in Schedule
  BY TypeParts DEF WorkerInv, ReleaseReview, IsRegistered, Entries
<1>3. PICK q \in Schedule :
        /\ q = Resolve(schedule, r) /\ q.queued = schedule.queued
        /\ q.registered = {e \in schedule.registered : e.review # r}
  BY <1>2, ResolveFacts
<1>4. Current(q)
  BY <1>1, <1>3 DEF Current, Entries
<1>5. /\ minted' \in 0..MaxTurns
      /\ UNCHANGED <<initialized, pending, cancelled, delivered, generation, inputs,
                     history, watch, cleanup, ticks, spawned, raised, refused>>
  BY TypeParts DEF WorkerInv, ReleaseReview
<1>6. \/ schedule' = q /\ MaybeReport(status, q) /\ UNCHANGED <<active, status, turns>>
      \/ \E e \in Eligible(q, generation) :
           /\ Idle /\ schedule' = Dequeue(q, e) /\ StartContinuation(e)
           /\ UNCHANGED <<waiters, asleep, suspended>>
  BY <1>3 DEF ReleaseReview
<1>7. CASE schedule' = q /\ MaybeReport(status, q) /\ UNCHANGED <<active, status, turns>>
  <2>1. Holds(q, generation) <=> Entries(q) # {}
    BY <1>4 DEF Current, Holds, Entries
  <2>2. ~delivered /\ Free
    BY <1>1 DEF Reporting, Free
  <2>3. \/ /\ Terminal(status) /\ ~Holds(q, generation)
           /\ waiters' = {} /\ asleep' = {} /\ suspended' = "deliver"
        \/ /\ ~(Terminal(status) /\ ~Holds(q, generation))
           /\ UNCHANGED <<waiters, asleep, suspended>>
    BY <1>7, <2>2, MaybeReportFacts
  <2>4. \/ Entries(schedule') # {} /\ UNCHANGED <<waiters, asleep, suspended>>
        \/ ~Terminal(status) /\ UNCHANGED <<waiters, asleep, suspended>>
        \/ /\ Terminal(status) /\ Entries(schedule') = {} /\ suspended = "none"
           /\ waiters' = {} /\ asleep' = {} /\ suspended' = "deliver"
    BY <1>1, <1>7, <2>1, <2>3
  <2> QED
    BY <1>1, <1>2, <1>4, <1>5, <1>7, <2>4, ReviewsMoveInv
<1>8. CASE \E e \in Eligible(q, generation) :
           /\ Idle /\ schedule' = Dequeue(q, e) /\ StartContinuation(e)
           /\ UNCHANGED <<waiters, asleep, suspended>>
  <2>1. PICK e \in Eligible(q, generation) :
           /\ Idle /\ schedule' = Dequeue(q, e) /\ StartContinuation(e)
           /\ UNCHANGED <<waiters, asleep, suspended>>
    BY <1>8
  <2> QED
    BY <1>1, <1>4, <1>5, <2>1, ContinuationInv
<1> QED
  BY <1>6, <1>7, <1>8

--------------------------------------------------------------------------------
(* Cleanup.                                                                     *)

(* A cleanup tick is none of the liveness slot's. *)
LEMMA NotTheSlots ==
  ASSUME NEW tick, tick.kind = "cleanup"
  PROVE  \A h : tick # LiveTick(h)
<1>1. \A h : LiveTick(h).kind = "liveness"
  BY DEF LiveTick
<1> QED
  BY <1>1

(* A cleanup tick fires: it is stale, it clears the worker, or it tries again. *)
LEMMA CleanupInv ==
  ASSUME WorkerInv, NEW tick \in ticks, NEW released \in BOOLEAN, Cleanup(tick, released)
  PROVE  WorkerInv'
<1> USE DEF WorkerInv, lifeVars, coordVars
<1>1. /\ ticks \subseteq Ticks /\ cleanup \in [generation : Nat, attempts : 0..(MaxRelease - 1)]
      /\ turns \in [Turns -> TurnRecord]
  BY TypeParts
<1>2. /\ suspended = "none" /\ \A h : tick # LiveTick(h)
      /\ UNCHANGED <<suspended, turns, minted, spawned, raised, asleep, refused>>
  BY NotTheSlots DEF Cleanup, Free
<1>3. CASE ~Proceeds(tick) /\ ticks' = ticks \ {tick} /\ UNCHANGED <<lifeVars, coordVars>>
  <2>1. TypeOK'
    BY <1>1, <1>2, <1>3, TypeParts DEF TypeOK, TurnRecord, Schedule, Entry, Ticks
  <2>2. BlankIsEmpty' /\ ReportIsFinal' /\ IdleHasReported'
    BY <1>2, <1>3 DEF BlankIsEmpty, ReportIsFinal, Reporting, IdleHasReported, HasReported
  <2>3. WatchIsOrdered'
    BY <1>2, <1>3 DEF WatchIsOrdered, OutstandingIsScheduled
  <2> QED
    BY <1>2, <1>3, <2>1, <2>2, <2>3, QuietStepInv
<1>4. CASE Proceeds(tick) /\ ticks' = ticks \ {tick} /\ ClearAll
  <2>1. /\ delivered /\ initialized /\ spawned /\ Terminal(status) /\ asleep = {}
    BY <1>4 DEF Proceeds, ReportIsFinal, Reporting, BlankIsEmpty
  <2>2. \A t \in Turns : Live(t) => turns[t].phase = "done"
    BY <2>1 DEF LiveIsActive, Terminal
  <2>3. /\ schedule' \in Schedule /\ Entries(schedule') = {} /\ ~watch'.outstanding
        /\ watch' \in [generation : 0..MaxWatch, outstanding : BOOLEAN]
        /\ cleanup' \in [generation : Nat, attempts : 0..(MaxRelease - 1)]
        /\ 0 \in 0..MaxGeneration
    BY <1>4, WorkerAssumption
       DEF ClearAll, EmptySchedule, Schedule, Entries, NoWatch, NoCleanup
  <2>4. TypeOK'
    BY <1>1, <1>2, <1>4, <2>3, TypeParts
       DEF ClearAll, TypeOK, TurnRecord, Schedule, Entry, Ticks
  <2>5. BlankIsEmpty'
    BY <1>2, <1>4, <2>1, <2>3 DEF BlankIsEmpty, ClearAll
  <2>6. LiveIsActive' /\ WorkingIsCurrent' /\ ParkedIsAnswerable'
    BY <1>2, <1>4, <2>2 DEF ClearAll, LiveIsActive, Live, WorkingIsCurrent, Working,
       ParkedIsAnswerable
  <2>7. ReviewsAreCurrent'
    BY <2>3 DEF ReviewsAreCurrent, RegisteredCanContinue, ReviewsAreRaised, Entries
  <2>8. ReportIsFinal' /\ IdleHasReported'
    BY <1>2, <1>4, <2>1 DEF ClearAll, ReportIsFinal, Reporting, IdleHasReported
  <2>9. WatchIsOrdered'
    <3>1. LiveTick(0) \notin ticks /\ watch'.generation = 0 /\ initialized' = FALSE
      BY <1>1, <1>4 DEF WatchIsOrdered, LiveTick, ClearAll, NoWatch
    <3>2. \A k \in ticks' : k.kind = "liveness" => k.generation > 0
      BY <1>4 DEF WatchIsOrdered
    <3> QED
      BY <1>2, <1>4, <2>3, <3>1, <3>2 DEF WatchIsOrdered, OutstandingIsScheduled
  <2> QED
    BY <2>4, <2>5, <2>6, <2>7, <2>8, <2>9
<1>5. CASE /\ RetriesRelease
           /\ cleanup' = [cleanup EXCEPT !.attempts = @ + 1]
           /\ ticks' = (ticks \ {tick}) \cup {TickAfterReport(cleanup.generation)}
           /\ UNCHANGED <<lifeVars, schedule, inputs, history, watch>>
  <2>1. cleanup' \in [generation : Nat, attempts : 0..(MaxRelease - 1)]
    BY <1>1, <1>5, WorkerAssumption DEF RetriesRelease
  <2>2. PICK k \in Ticks : /\ ticks' = (ticks \ {tick}) \cup {k} /\ k.kind = "cleanup"
                           /\ \A h : k # LiveTick(h)
    BY <1>1, <1>5, CleanupTickFacts
  <2>3. TypeOK'
    BY <1>1, <1>2, <1>5, <2>1, <2>2, TypeParts DEF TypeOK, TurnRecord, Schedule, Entry, Ticks
  <2>4. spawned
    BY DEF BlankIsEmpty
  <2>5. BlankIsEmpty' /\ ReportIsFinal' /\ IdleHasReported'
    BY <1>2, <1>5, <2>4 DEF BlankIsEmpty, ReportIsFinal, Reporting, IdleHasReported, HasReported
  <2>6. WatchIsOrdered'
    BY <1>2, <1>5, <2>2 DEF WatchIsOrdered, OutstandingIsScheduled
  <2> QED
    BY <1>2, <1>5, <2>3, <2>5, <2>6, QuietStepInv
<1> QED
  BY <1>3, <1>4, <1>5 DEF Cleanup

--------------------------------------------------------------------------------
(* The invariant holds.                                                         *)

(* A step of a turn. *)
LEMMA TurnStepInv ==
  ASSUME WorkerInv, NEW t \in Turns, TurnStep(t) \/ Advertise(t) \/ OutcomeStep(t)
  PROVE  WorkerInv'
<1>1. CASE \/ BeginIteration(t) \/ ObserveCancel(t) \/ CallTool(t) \/ ToolReturns(t)
           \/ FailTurn(t) \/ Advertise(t) \/ AwaitAnswered(t) \/ OutcomeRejected(t)
  BY <1>1, MovesInv
<1>2. CASE PrepareTurn(t)
  BY <1>2, PrepareTurnInv
<1>3. CASE ContinueTurn(t) \/ FinishTurn(t)
  BY <1>3, ApplyOutcomeInv
<1>4. CASE AskInput(t)
  BY <1>4, AskInputInv
<1>5. CASE AwaitCancelled(t)
  BY <1>5, AwaitCancelledInv
<1>6. CASE Heartbeat(t)
  BY <1>6, HeartbeatInv
<1>7. CASE OutcomeRestarts(t)
  BY <1>7, OutcomeRestartsInv
<1>8. CASE OutcomeContinues(t)
  BY <1>8, OutcomeContinuesInv
<1>9. CASE OutcomeSettles(t)
  BY <1>9, OutcomeSettlesInv
<1> QED
  BY <1>1, <1>2, <1>3, <1>4, <1>5, <1>6, <1>7, <1>8, <1>9 DEF TurnStep, OutcomeStep

(* A step of anyone. *)
LEMMA NextInv == WorkerInv /\ [Next]_vars => WorkerInv'
<1> SUFFICES ASSUME WorkerInv, [Next]_vars PROVE WorkerInv'
  OBVIOUS
<1>1. CASE Message
  BY <1>1, PostInitialTaskInv, PostFollowUpInv DEF Message
<1>2. CASE Cancel
  BY <1>2, CancelInv
<1>3. CASE \E t \in Turns : TurnStep(t) \/ Advertise(t) \/ OutcomeStep(t)
  BY <1>3, TurnStepInv
<1>4. CASE \E t \in InputTurns, reply \in Replies : ProvideInput(t, reply)
  BY <1>4, ProvideInputInv
<1>5. CASE \E r \in Reviews : ReviewStep(r)
  BY <1>5, RaiseReviewInv, ResolveReviewInv, ReleaseReviewInv DEF ReviewStep
<1>6. CASE \E tick \in ticks : Tick(tick)
  BY <1>6, LivenessDeadlineInv, CleanupInv DEF Tick
<1>7. CASE \E w \in Waiters : AttachWaiter(w) \/ WaitTimesOut(w)
  BY <1>7, AttachWaiterInv, WaitTimesOutInv
<1>8. CASE StaleRecorded \/ ParentAcknowledges \/ ParentRefuses
  BY <1>8, StaleRecordedInv, ParentAcknowledgesInv, ParentRefusesInv
<1>9. CASE UNCHANGED vars
  <2>1. /\ UNCHANGED <<initialized, status, active, pending, cancelled, delivered, waiters,
                       generation, schedule, inputs, history, watch, cleanup, suspended>>
        /\ UNCHANGED <<ticks, turns, minted, spawned, raised, asleep, refused>>
    BY <1>9 DEF vars, lifeVars, coordVars, envVars
  <2>2. TypeOK' /\ BlankIsEmpty' /\ ReportIsFinal' /\ IdleHasReported' /\ WatchIsOrdered'
    BY <2>1 DEF WorkerInv, TypeOK, BlankIsEmpty, ReportIsFinal, Reporting, IdleHasReported,
       HasReported, WatchIsOrdered, OutstandingIsScheduled
  <2> QED
    BY <2>1, <2>2, QuietStepInv
<1> QED
  BY <1>1, <1>2, <1>3, <1>4, <1>5, <1>6, <1>7, <1>8, <1>9 DEF Next

(* The inductive invariant of the worker: whatever messages, cancellations, replies,
   reviews, deadlines, waiters, answers of the Session and ticks of the cleanup its
   handlers run with, in any order. *)
THEOREM WorkerSafe == Spec => []WorkerInv
BY InitInv, NextInv, PTL DEF Spec

(* The type invariant, of every variable of the worker and of its turns. *)
THEOREM WorkerTypes == Spec => []TypeOK
<1>1. WorkerInv => TypeOK
  BY DEF WorkerInv
<1> QED
  BY <1>1, WorkerSafe, PTL

(* maybe_resolve_parent_awakeable and decide_cleanup: no report while a review of
   the generation is open. *)
THEOREM ReportSafe == Spec => []NoReportWhileHeld
<1>1. WorkerInv => NoReportWhileHeld
  BY HeldFacts DEF WorkerInv, ReviewsAreCurrent, ReportIsFinal, Reporting, NoReportWhileHeld
<1> QED
  BY <1>1, WorkerSafe, PTL

(* Every review of the schedule can still be continued: the branch of
   action_review_resolved for a superseded or stopped worker is never taken. *)
THEOREM ReviewSafe == Spec => []RegisteredCanContinue
<1>1. WorkerInv => RegisteredCanContinue
  BY DEF WorkerInv, ReviewsAreCurrent
<1> QED
  BY <1>1, WorkerSafe, PTL

(* record_turn_outcome and release_action_review: a worker that has settled has
   told its parent and woken everyone who waits for its result. *)
THEOREM SettledSafe == Spec => []ReportedWhenSettled
<1>1. WorkerInv => ReportedWhenSettled
  <2>1. ASSUME WorkerInv, Settled, status \in {"Completed", "Failed"}
        PROVE  HasReported
    <3>1. Entries(schedule) = {}
      BY <2>1, HeldFacts DEF WorkerInv, ReviewsAreCurrent, Settled
    <3> QED
      BY <2>1, <3>1 DEF WorkerInv, IdleHasReported, Settled, Free
  <2> QED
    BY <2>1 DEF ReportedWhenSettled
<1> QED
  BY <1>1, WorkerSafe, PTL

(* should_restart: no accepted instruction is left behind by a report of success
   or by a worker without a turn. *)
THEOREM ServedSafe == Spec => []InstructionsAreServed
<1>1. WorkerInv => InstructionsAreServed
  BY DEF WorkerInv, ReportIsFinal, Reporting, IdleHasReported, InstructionsAreServed
<1> QED
  BY <1>1, WorkerSafe, PTL

(* start_worker_turn_execution: one turn of the worker is live at a time. *)
THEOREM TurnSafe == Spec => []OneLiveTurn
<1>1. WorkerInv => OneLiveTurn
  BY DEF WorkerInv, LiveIsActive, OneLiveTurn
<1> QED
  BY <1>1, WorkerSafe, PTL

(* arm_liveness_deadline: a taken slot has its deadline. *)
THEOREM DeadlineSafe == Spec => []OutstandingIsScheduled
<1>1. WorkerInv => OutstandingIsScheduled
  BY DEF WorkerInv, WatchIsOrdered
<1> QED
  BY <1>1, WorkerSafe, PTL

(* request_input_from_parent: a parked turn can be woken. *)
THEOREM QuestionSafe == Spec => []ParkedIsAnswerable
<1>1. WorkerInv => ParkedIsAnswerable
  BY DEF WorkerInv
<1> QED
  BY <1>1, WorkerSafe, PTL

--------------------------------------------------------------------------------
(* The worker implements module WorkerLife.                                     *)

(* The worker as its parent knows it, case by case. *)
LifeIs ==
  /\ ~spawned => LifeOfWorker = [phase |-> "new", generation |-> 0]
  /\ spawned /\ ~initialized => LifeOfWorker = [phase |-> "cleared", generation |-> 0]
  /\ initialized /\ delivered => LifeOfWorker = [phase |-> "reported", generation |-> generation]
  /\ initialized /\ ~delivered =>
       /\ suspended = "deliver" =>
            LifeOfWorker = [phase |-> "reporting", generation |-> generation]
       /\ suspended # "deliver" =>
            LifeOfWorker = [phase |-> "working", generation |-> generation]

(* The cases exclude each other, before a step and after it. *)
LEMMA LifeFacts ==
  /\ BlankIsEmpty => LifeIs
  /\ BlankIsEmpty' => LifeIs'
<1>1. BlankIsEmpty => LifeIs
  BY DEF BlankIsEmpty, LifeIs, LifeOfWorker
<1>2. BlankIsEmpty' => LifeIs'
  BY DEF BlankIsEmpty, LifeIs, LifeOfWorker
<1> QED
  BY <1>1, <1>2

(* A step the parent does not see. *)
LEMMA Unseen ==
  ASSUME UNCHANGED <<spawned, initialized, delivered, generation>>,
         suspended' = "deliver" <=> suspended = "deliver"
  PROVE  UNCHANGED LifeOfWorker
  BY DEF LifeOfWorker

(* A parent message. *)
LEMMA MessageLife ==
  ASSUME WorkerInv, WorkerInv', Message
  PROVE  Life!LifeNext
<1>1. LifeIs /\ LifeIs' /\ BlankIsEmpty
  BY LifeFacts DEF WorkerInv
<1>2. CASE PostInitialTask
  <2>1. ~spawned /\ generation = 0
    BY <1>1, <1>2 DEF PostInitialTask, BlankIsEmpty
  <2>2. initialized' /\ ~delivered' /\ suspended' # "deliver" /\ generation' = generation + 1
    BY <1>2 DEF PostInitialTask, Free
  <2>3. /\ LifeOfWorker = [phase |-> "new", generation |-> 0]
        /\ LifeOfWorker' = [phase |-> "working", generation |-> 0 + 1]
    BY <1>1, <2>1, <2>2 DEF LifeIs
  <2> QED
    BY <2>3 DEF Life!LifeNext, Life!Accepts, Life!In, Life!Messaged
<1>3. CASE PostFollowUp
  <2>1. initialized /\ suspended # "deliver"
    BY <1>3 DEF PostFollowUp, Free
  <2>2. initialized' /\ ~delivered' /\ suspended' # "deliver" /\ generation' = generation + 1
    BY <1>3 DEF PostFollowUp, Free
  <2>3. /\ \/ LifeOfWorker = [phase |-> "working", generation |-> generation]
           \/ LifeOfWorker = [phase |-> "reported", generation |-> generation]
        /\ LifeOfWorker' = [phase |-> "working", generation |-> generation + 1]
    BY <1>1, <2>1, <2>2 DEF LifeIs
  <2> QED
    BY <2>3 DEF Life!LifeNext, Life!Accepts, Life!In, Life!Messaged
<1> QED
  BY <1>2, <1>3 DEF Message

(* The worker may report: an outcome settles it, or a review is released. *)
LEMMA MaybeReportLife ==
  ASSUME WorkerInv, WorkerInv', Free, initialized, NEW st, NEW sched,
         MaybeReport(st, sched),
         UNCHANGED <<spawned, initialized, delivered, generation>>
  PROVE  Life!LifeNext \/ UNCHANGED LifeOfWorker
<1>1. LifeIs /\ LifeIs'
  BY LifeFacts DEF WorkerInv
<1>2. CASE suspended' = "deliver"
  <2>1. ~delivered /\ suspended # "deliver"
    BY <1>2 DEF MaybeReport, Suspend, Free
  <2>2. /\ LifeOfWorker = [phase |-> "working", generation |-> generation]
        /\ LifeOfWorker' = [phase |-> "reporting", generation |-> generation]
    BY <1>1, <1>2, <2>1 DEF LifeIs
  <2> QED
    BY <2>2 DEF Life!LifeNext, Life!In, Life!Moved
<1>3. CASE suspended' # "deliver"
  BY <1>3, Unseen DEF Free
<1> QED
  BY <1>2, <1>3

(* The Session answers. *)
LEMMA AnswerLife ==
  ASSUME WorkerInv, WorkerInv', ParentAcknowledges \/ ParentRefuses
  PROVE  Life!LifeNext
<1>1. LifeIs /\ LifeIs' /\ suspended = "deliver"
  BY LifeFacts DEF WorkerInv, ParentAcknowledges, ParentRefuses
<1>2. initialized /\ ~delivered
  BY <1>1 DEF WorkerInv, ReportIsFinal, Reporting
<1>3. LifeOfWorker = [phase |-> "reporting", generation |-> generation]
  BY <1>1, <1>2 DEF LifeIs
<1>4. CASE ParentAcknowledges
  <2>1. LifeOfWorker' = [phase |-> "reported", generation |-> generation]
    BY <1>1, <1>2, <1>4 DEF LifeIs, ParentAcknowledges
  <2> QED
    BY <1>3, <2>1 DEF Life!LifeNext, Life!In, Life!Moved
<1>5. CASE ParentRefuses
  <2>1. LifeOfWorker' = [phase |-> "working", generation |-> generation]
    BY <1>1, <1>2, <1>5 DEF LifeIs, ParentRefuses, lifeVars
  <2> QED
    BY <1>3, <2>1 DEF Life!LifeNext, Life!In, Life!Moved
<1> QED
  BY <1>4, <1>5

(* The cleanup clears a worker that has reported, or is not seen. *)
LEMMA CleanupLife ==
  ASSUME WorkerInv, WorkerInv', NEW tick, NEW released, Cleanup(tick, released)
  PROVE  Life!LifeNext \/ UNCHANGED LifeOfWorker
<1>1. LifeIs /\ LifeIs'
  BY LifeFacts DEF WorkerInv
<1>2. CASE Proceeds(tick) /\ ClearAll
  <2>1. delivered /\ initialized /\ spawned
    BY <1>2 DEF Proceeds, WorkerInv, ReportIsFinal, Reporting, BlankIsEmpty
  <2>2. spawned' /\ ~initialized'
    BY <1>2, <2>1 DEF Cleanup, ClearAll
  <2>3. /\ LifeOfWorker = [phase |-> "reported", generation |-> generation]
        /\ LifeOfWorker' = [phase |-> "cleared", generation |-> 0]
    BY <1>1, <2>1, <2>2 DEF LifeIs
  <2> QED
    BY <2>3 DEF Life!LifeNext, Life!In, Life!Cleared
<1>3. CASE UNCHANGED lifeVars
  BY <1>3, Unseen DEF Cleanup, lifeVars
<1> QED
  BY <1>2, <1>3 DEF Cleanup

(* Every step of the worker is one of its life, or is not seen. *)
LEMMA LifeStep == WorkerInv /\ WorkerInv' /\ [Next]_vars => [Life!LifeNext]_LifeOfWorker
<1> SUFFICES ASSUME WorkerInv, WorkerInv', [Next]_vars
             PROVE  Life!LifeNext \/ UNCHANGED LifeOfWorker
  OBVIOUS
<1>1. CASE Message
  BY <1>1, MessageLife
<1>2. CASE Cancel
  BY <1>2, Unseen DEF Cancel
<1>3. ASSUME NEW t \in Turns, TurnStep(t) \/ Advertise(t) \/ OutcomeStep(t)
      PROVE  Life!LifeNext \/ UNCHANGED LifeOfWorker
  <2>1. CASE OutcomeSettles(t)
    <3>1. initialized
      BY <2>1, OutcomeFacts DEF OutcomeSettles
    <3> QED
      BY <2>1, <3>1, MaybeReportLife DEF OutcomeSettles
  <2>2. CASE OutcomeRestarts(t) \/ OutcomeContinues(t) \/ OutcomeRejected(t)
    BY <2>2, Unseen DEF OutcomeRestarts, OutcomeContinues, OutcomeRejected, lifeVars
  <2>3. CASE TurnStep(t) \/ Advertise(t)
    <3>1. UNCHANGED <<spawned, initialized, delivered, generation, suspended>>
      BY <2>3 DEF TurnStep, Advertise, BeginIteration, ObserveCancel, PrepareTurn,
         ContinueTurn, FinishTurn, FailTurn, CallTool, ToolReturns, AskInput,
         AwaitAnswered, AwaitCancelled, Heartbeat, lifeVars
    <3> QED
      BY <3>1, Unseen
  <2> QED
    BY <1>3, <2>1, <2>2, <2>3 DEF OutcomeStep
<1>4. CASE \E t \in InputTurns, reply \in Replies : ProvideInput(t, reply)
  BY <1>4, Unseen DEF ProvideInput, lifeVars
<1>5. ASSUME NEW r \in Reviews, ReviewStep(r)
      PROVE  Life!LifeNext \/ UNCHANGED LifeOfWorker
  <2>1. CASE \E t \in Turns : RaiseReview(t, r)
    BY <2>1, Unseen DEF RaiseReview, lifeVars
  <2>2. CASE ResolveReview(r)
    BY <2>2, Unseen DEF ResolveReview
  <2>3. ASSUME NEW cause \in Releases, ReleaseReview(r, cause)
        PROVE  Life!LifeNext \/ UNCHANGED LifeOfWorker
    <3>1. Free /\ initialized /\ UNCHANGED <<spawned, initialized, delivered, generation>>
      BY <2>3, OpenFacts DEF ReleaseReview
    <3>2. MaybeReport(status, Resolve(schedule, r)) \/ UNCHANGED suspended
      BY <2>3 DEF ReleaseReview
    <3> QED
      BY <3>1, <3>2, MaybeReportLife, Unseen
  <2> QED
    BY <1>5, <2>1, <2>2, <2>3 DEF ReviewStep
<1>6. ASSUME NEW tick \in ticks, Tick(tick)
      PROVE  Life!LifeNext \/ UNCHANGED LifeOfWorker
  <2>1. CASE LivenessDeadline(tick)
    BY <2>1, Unseen DEF LivenessDeadline, Free, lifeVars
  <2> QED
    BY <1>6, <2>1, CleanupLife DEF Tick
<1>7. CASE \E w \in Waiters : AttachWaiter(w) \/ WaitTimesOut(w)
  BY <1>7, Unseen DEF AttachWaiter, WaitTimesOut
<1>8. CASE StaleRecorded
  BY <1>8, Unseen DEF StaleRecorded, lifeVars
<1>9. CASE ParentAcknowledges \/ ParentRefuses
  BY <1>9, AnswerLife
<1>10. CASE UNCHANGED vars
  BY <1>10, Unseen DEF vars, lifeVars, envVars
<1> QED
  BY <1>1, <1>2, <1>3, <1>4, <1>5, <1>6, <1>7, <1>8, <1>9, <1>10 DEF Next

(* The worker keeps the promise of module WorkerLife, which module WorkerFanIn
   builds on: a generation is reported once, nothing is accepted between a report
   and its answer, and only a worker that has reported is cleared, for good. *)
THEOREM WorkerKeepsItsPromise == Spec => ImplementsLife
<1>1. Init => Life!LifeInit
  BY DEF Init, Life!LifeInit, Life!Unborn, LifeOfWorker
<1> QED
  BY <1>1, LifeStep, WorkerSafe, PTL DEF Spec, ImplementsLife, Life!LifeSpec

--------------------------------------------------------------------------------
(* Turn ids.                                                                    *)

(* The ids above m are unused, and so are those minted for queued continuations,
   each for one of them. *)
FreshIds(queue, m) ==
  /\ \A t \in Turns : t > m => turns[t].phase = "unused"
  /\ \A e \in queue : e.turn \in Turns /\ e.turn <= m /\ turns[e.turn].phase = "unused"
  /\ \A e, f \in queue : e.turn = f.turn => e = f

(* Nobody has cancelled or answered a turn that was not dispatched. *)
UnusedIsBlank ==
  \A t \in Turns : turns[t].phase = "unused" => ~turns[t].cancel /\ turns[t].answer = NoReply

ActiveIsLive == active # NoTurn => Live(active)

(* An open request is unanswered, of a turn that is parked or failed before it was. *)
AskedIsOpen ==
  \A t \in inputs :
    /\ t \in InputTurns /\ turns[t].answer = NoReply
    /\ \/ turns[t].phase \in {"registered", "waiting"}
       \/ turns[t].phase = "done" /\ turns[t].kind = "Failed"

AskersAreAdmitted == inputs # {} => initialized

IdsInv ==
  /\ FreshIds(schedule.queued, minted)
  /\ UnusedIsBlank
  /\ ActiveIsLive
  /\ AskedIsOpen
  /\ AskersAreAdmitted

(* A turn that has reported is never dispatched, cancelled or answered again; an
   answer and a cancellation stay; and a turn that was parked ends or is answered. *)
Irrevocable ==
  \A t \in Turns :
    /\ turns[t].phase = "reported" => turns'[t] = turns[t]
    /\ turns[t].answer # NoReply => turns'[t].answer = turns[t].answer
    /\ turns[t].cancel => turns'[t].cancel
    /\ turns[t].phase \in {"waiting", "done"} =>
         turns'[t].phase \in {"waiting", "done", "reported"} \/ turns'[t].answer # NoReply
    /\ turns'[t].phase = "registered" =>
         turns[t].phase = "registered" \/ turns[t].answer = NoReply

AnswersKept == \A t \in Turns : turns'[t].answer = turns[t].answer

Onward == Irrevocable /\ AnswersKept

(* No turn changes. *)
LEMMA QuietIds ==
  ASSUME IdsInv, UNCHANGED <<turns, minted>>, active' \in {active, NoTurn},
         schedule'.queued \subseteq schedule.queued, inputs' \subseteq inputs,
         inputs' # {} => initialized'
  PROVE  IdsInv' /\ Onward
<1>1. FreshIds(schedule.queued, minted)'
  BY DEF IdsInv, FreshIds
<1>2. UnusedIsBlank' /\ ActiveIsLive' /\ AskedIsOpen' /\ AskersAreAdmitted' /\ Onward
  BY DEF IdsInv, UnusedIsBlank, ActiveIsLive, AskedIsOpen, AskersAreAdmitted, Live, Onward,
     Irrevocable, AnswersKept
<1> QED
  BY <1>1, <1>2 DEF IdsInv

(* A live turn changes. *)
LEMMA MoveIds ==
  ASSUME IdsInv, turns \in [Turns -> TurnRecord], NEW t \in Turns, NEW rec \in TurnRecord,
         turns' = [turns EXCEPT ![t] = rec], Live(t), rec.phase # "unused", minted' = minted,
         schedule'.queued \subseteq schedule.queued, inputs \subseteq Turns, inputs' \subseteq Turns,
         active' = NoTurn \/ (active' = active /\ rec.phase # "reported"),
         active \in Turns \cup {NoTurn}, inputs' # {} => initialized',
         \A u \in inputs' :
           \/ u \in inputs /\ u # t
           \/ /\ u = t /\ t \in InputTurns /\ rec.answer = NoReply
              /\ \/ rec.phase \in {"registered", "waiting"}
                 \/ rec.phase = "done" /\ rec.kind = "Failed",
         turns[t].answer # NoReply => rec.answer = turns[t].answer,
         turns[t].cancel => rec.cancel,
         turns[t].phase \in {"waiting", "done"} =>
           rec.phase \in {"waiting", "done", "reported"} \/ rec.answer # NoReply,
         rec.phase = "registered" => turns[t].phase = "registered" \/ turns[t].answer = NoReply
  PROVE  IdsInv' /\ Irrevocable /\ (rec.answer = turns[t].answer => AnswersKept)
<1>1. turns'[t] = rec /\ \A u \in Turns : u # t => turns'[u] = turns[u]
  OBVIOUS
<1>2. turns[t].phase # "unused" /\ turns[t].phase # "reported"
  BY DEF Live
<1>3. FreshIds(schedule.queued, minted)'
  BY <1>1, <1>2 DEF IdsInv, FreshIds
<1>4. UnusedIsBlank' /\ Irrevocable /\ (rec.answer = turns[t].answer => AnswersKept)
  BY <1>1, <1>2 DEF IdsInv, UnusedIsBlank, Irrevocable, AnswersKept
<1>5. ActiveIsLive'
  BY <1>1 DEF IdsInv, ActiveIsLive, Live
<1>6. AskedIsOpen' /\ AskersAreAdmitted'
  BY <1>1 DEF IdsInv, AskedIsOpen, AskersAreAdmitted
<1> QED
  BY <1>3, <1>4, <1>5, <1>6 DEF IdsInv

(* A fresh id is dispatched; the turn before it, if there was one, has reported. *)
LEMMA StartIds ==
  ASSUME IdsInv, NEW n \in Turns, NEW queue, FreshIds(queue, minted'),
         turns[n].phase = "unused", turns'[n].phase = "start",
         turns'[n].answer = NoReply, n <= minted',
         \A e \in schedule'.queued : e \in queue /\ e.turn # n,
         \A u \in Turns : u # n =>
           \/ turns'[u] = turns[u]
           \/ /\ Live(u) /\ turns'[u].phase = "reported" /\ u \notin inputs'
              /\ turns'[u].answer = turns[u].answer /\ turns'[u].cancel = turns[u].cancel,
         active' = n, inputs \subseteq Turns, inputs' \subseteq inputs, minted' \in Nat,
         inputs' # {} => initialized'
  PROVE  IdsInv' /\ Onward
<1>1. n \notin inputs
  BY DEF IdsInv, AskedIsOpen
<1>2. n # NoTurn /\ n \in Nat
  BY DEF NoTurn, Turns
<1>3. FreshIds(schedule.queued, minted)'
  <2>1. \A u \in Turns : u > minted' => turns'[u].phase = "unused"
    BY <1>2 DEF FreshIds, Live, Turns
  <2>2. \A e \in schedule'.queued :
          e.turn \in Turns /\ e.turn <= minted' /\ turns'[e.turn].phase = "unused"
    BY DEF FreshIds, Live
  <2>3. \A e, f \in schedule'.queued : e.turn = f.turn => e = f
    BY DEF FreshIds
  <2> QED
    BY <2>1, <2>2, <2>3 DEF FreshIds
<1>4. UnusedIsBlank' /\ Onward
  BY DEF IdsInv, UnusedIsBlank, Onward, Irrevocable, AnswersKept, Live
<1>5. ActiveIsLive'
  BY DEF ActiveIsLive, Live
<1>6. AskedIsOpen' /\ AskersAreAdmitted'
  BY <1>1 DEF IdsInv, AskedIsOpen, AskersAreAdmitted
<1> QED
  BY <1>3, <1>4, <1>5, <1>6 DEF IdsInv

(* What the invariants say of the turns of a step. *)
LEMMA IdParts ==
  ASSUME WorkerInv, IdsInv
  PROVE  /\ turns \in [Turns -> TurnRecord] /\ minted \in 0..MaxTurns /\ minted \in Nat
         /\ inputs \subseteq Turns /\ active \in Turns \cup {NoTurn} /\ schedule \in Schedule
         /\ \A t \in inputs : t \in InputTurns /\ Live(t) /\ turns[t].answer = NoReply
         /\ \A t \in Turns : turns[t].phase \in {"start", "preparing", "model", "tool"} =>
              t \notin inputs
         /\ inputs # {} => initialized
  BY TypeParts, WorkerAssumption DEF WorkerInv, IdsInv, AskedIsOpen, AskersAreAdmitted, Live

(* A live turn changes its phase and asks nothing. *)
LEMMA PhaseIds ==
  ASSUME WorkerInv, IdsInv, NEW t \in Turns, Live(t), NEW p \in Phases \ {"unused", "reported"},
         turns' = Moved(t, p), UNCHANGED <<minted, active, inputs, initialized>>,
         schedule'.queued \subseteq schedule.queued,
         t \in inputs => p \in {"registered", "waiting"},
         turns[t].phase \in {"waiting", "done"} => turns[t].answer # NoReply,
         p = "registered" => turns[t].answer = NoReply
  PROVE  IdsInv' /\ Onward
<1>1. PICK rec \in TurnRecord : /\ turns' = [turns EXCEPT ![t] = rec] /\ rec.phase = p
                                /\ rec.answer = turns[t].answer /\ rec.cancel = turns[t].cancel
  BY IdParts, MoveFacts
<1>2. \A u \in inputs' :
           \/ u \in inputs /\ u # t
           \/ /\ u = t /\ t \in InputTurns /\ rec.answer = NoReply
              /\ rec.phase \in {"registered", "waiting"}
  BY <1>1, IdParts
<1> QED
  BY <1>1, <1>2, IdParts, MoveIds DEF Onward

(* A live turn is done. *)
LEMMA DoneIds ==
  ASSUME WorkerInv, IdsInv, NEW t \in Turns, Live(t),
         NEW k \in {"Completed", "Cancelled", "Failed"},
         turns' = Done(t, k), UNCHANGED <<minted, active, schedule, initialized>>,
         inputs' \subseteq inputs, t \in inputs' => k = "Failed"
  PROVE  IdsInv' /\ Onward
<1>1. PICK rec \in TurnRecord :
        /\ turns' = [turns EXCEPT ![t] = rec] /\ rec.phase = "done" /\ rec.kind = k
        /\ rec.answer = turns[t].answer /\ rec.cancel = turns[t].cancel
  BY IdParts, DoneFacts
<1>2. \A u \in inputs' :
           \/ u \in inputs /\ u # t
           \/ /\ u = t /\ t \in InputTurns /\ rec.answer = NoReply
              /\ rec.phase = "done" /\ rec.kind = "Failed"
  BY <1>1, IdParts
<1>3. /\ inputs' \subseteq Turns /\ inputs \subseteq Turns /\ turns \in [Turns -> TurnRecord]
      /\ active \in Turns \cup {NoTurn}
  BY IdParts
<1>4. /\ active' = active /\ minted' = minted /\ schedule'.queued \subseteq schedule.queued
      /\ inputs' # {} => initialized'
  BY IdParts
<1> QED
  BY <1>1, <1>2, <1>3, <1>4, MoveIds DEF Onward

(* The steps of a turn. *)
LEMMA TurnStepIds ==
  ASSUME WorkerInv, IdsInv, NEW t \in Turns, TurnStep(t) \/ Advertise(t)
  PROVE  IdsInv' /\ Onward
<1> USE DEF lifeVars, coordVars
<1>1. CASE BeginIteration(t)
  <2>1. turns' = Moved(t, "preparing") /\ Live(t) /\ t \notin inputs
    BY <1>1, IdParts DEF BeginIteration, Moved, Live
  <2> QED
    BY <1>1, <2>1, PhaseIds DEF BeginIteration, Phases
<1>2. CASE ObserveCancel(t)
  <2>1. Live(t) /\ t \notin inputs
    BY <1>2, IdParts DEF ObserveCancel, Live
  <2> QED
    BY <1>2, <2>1, DoneIds DEF ObserveCancel
<1>3. CASE PrepareTurn(t)
  <2>1. Live(t) /\ t \notin inputs /\ turns[t].phase = "preparing"
    BY <1>3, IdParts DEF PrepareTurn, Live
  <2>2. \/ turns' = Done(t, "Cancelled") \/ turns' = Done(t, "Completed")
        \/ turns' = Moved(t, "model")
    BY <1>3 DEF PrepareTurn, Moved
  <2>3. UNCHANGED <<active, schedule, inputs, minted, initialized>>
    BY <1>3 DEF PrepareTurn
  <2> QED
    BY <2>1, <2>2, <2>3, PhaseIds, DoneIds DEF Phases
<1>4. CASE ContinueTurn(t)
  <2>1. turns' = Moved(t, "start") /\ Live(t) /\ t \notin inputs
    BY <1>4, IdParts DEF ContinueTurn, Moved, Live
  <2> QED
    BY <1>4, <2>1, PhaseIds DEF ContinueTurn, Phases
<1>5. CASE FinishTurn(t)
  <2>1. Live(t) /\ t \notin inputs
    BY <1>5, IdParts DEF FinishTurn, Live
  <2> QED
    BY <1>5, <2>1, DoneIds DEF FinishTurn
<1>6. CASE FailTurn(t)
  <2>1. Live(t)
    BY <1>6 DEF FailTurn, Live
  <2> QED
    BY <1>6, <2>1, DoneIds DEF FailTurn
<1>7. CASE CallTool(t)
  <2>1. turns' = Moved(t, "tool") /\ Live(t) /\ t \notin inputs
    BY <1>7, IdParts DEF CallTool, Moved, Live
  <2> QED
    BY <1>7, <2>1, PhaseIds DEF CallTool, Phases
<1>8. CASE ToolReturns(t)
  <2>1. turns' = Moved(t, "model") /\ Live(t) /\ t \notin inputs
    BY <1>8, IdParts DEF ToolReturns, Moved, Live
  <2> QED
    BY <1>8, <2>1, PhaseIds DEF ToolReturns, Phases
<1>9. CASE AskInput(t)
  <2>1. turns' = Moved(t, "registered") /\ Live(t) /\ t \in InputTurns
    BY <1>9 DEF AskInput, Moved, Live
  <2>2. PICK rec \in TurnRecord : /\ turns' = [turns EXCEPT ![t] = rec]
                                  /\ rec.phase = "registered"
                                  /\ rec.answer = turns[t].answer
                                  /\ rec.cancel = turns[t].cancel
    BY <2>1, IdParts, MoveFacts DEF Phases
  <2>3. /\ inputs' = inputs \cup {t} /\ UNCHANGED <<active, schedule, minted>>
        /\ inputs' \subseteq Turns /\ turns[t].answer = NoReply /\ initialized'
    BY <1>9, <2>1, IdParts, RunningTurn DEF AskInput
  <2> QED
    BY <1>9, <2>1, <2>2, <2>3, IdParts, MoveIds DEF Onward, AskInput
<1>10. CASE Advertise(t)
  <2>1. turns' = Moved(t, "waiting") /\ Live(t)
    BY <1>10 DEF Advertise, Moved, Live
  <2> QED
    BY <1>10, <2>1, PhaseIds DEF Advertise, Phases
<1>11. CASE AwaitCancelled(t)
  <2>1. Live(t)
    BY <1>11 DEF AwaitCancelled, WokenByCancel, Live
  <2> QED
    BY <1>11, <2>1, DoneIds DEF AwaitCancelled
<1>12. CASE Heartbeat(t)
  BY <1>12, IdParts, QuietIds DEF Heartbeat
<1>13. CASE AwaitAnswered(t)
  <2>1. turns' = Moved(t, "model") /\ Live(t) /\ t \notin inputs
    BY <1>13, IdParts DEF AwaitAnswered, Moved, Live
  <2> QED
    BY <1>13, <2>1, PhaseIds DEF AwaitAnswered, Phases
<1> QED
  BY <1>1, <1>2, <1>3, <1>4, <1>5, <1>6, <1>7, <1>8, <1>9, <1>10, <1>11, <1>12, <1>13
     DEF TurnStep

(* The next id. *)
LEMMA MintFacts ==
  ASSUME WorkerInv, IdsInv, minted < MaxTurns
  PROVE  /\ minted + 1 \in Turns /\ minted + 1 \in Nat /\ turns[minted + 1].phase = "unused"
         /\ FreshIds(schedule.queued, minted + 1)
         /\ \A e \in schedule.queued : e.turn # minted + 1
<1>1. minted \in Nat /\ minted + 1 \in Turns
  BY IdParts, WorkerAssumption DEF Turns
<1>2. turns[minted + 1].phase = "unused"
  BY <1>1 DEF IdsInv, FreshIds
<1>3. \A t \in Turns : t > minted + 1 => t > minted
  BY <1>1 DEF Turns
<1>4. \A e \in schedule.queued : e.turn \in Turns /\ e.turn <= minted
  BY DEF IdsInv, FreshIds
<1>5. \A u \in Turns : u <= minted => u <= minted + 1 /\ u # minted + 1
  BY <1>1 DEF Turns
<1>6. FreshIds(schedule.queued, minted + 1)
  <2>1. \A t \in Turns : t > minted + 1 => turns[t].phase = "unused"
    BY <1>3 DEF IdsInv, FreshIds
  <2>2. \A e \in schedule.queued :
          e.turn \in Turns /\ e.turn <= minted + 1 /\ turns[e.turn].phase = "unused"
    BY <1>4, <1>5 DEF IdsInv, FreshIds
  <2> QED
    BY <2>1, <2>2 DEF IdsInv, FreshIds
<1> QED
  BY <1>1, <1>2, <1>4, <1>5, <1>6

(* A handler starts a turn under the next id. *)
LEMMA StartNewIds ==
  ASSUME WorkerInv, IdsInv, NEW g \in 0..MaxGeneration, StartNew(g),
         schedule'.queued \subseteq schedule.queued, inputs' \subseteq inputs,
         inputs' # {} => initialized'
  PROVE  IdsInv' /\ Onward
<1>1. PICK n \in Turns : n = minted + 1
  BY MintFacts DEF StartNew
<1>2. /\ n \in Nat /\ turns[n].phase = "unused" /\ FreshIds(schedule.queued, n)
      /\ \A e \in schedule.queued : e.turn # n
  BY <1>1, MintFacts DEF StartNew
<1>3. active' = n /\ minted' = n
  BY <1>1 DEF StartNew
<1>4. /\ turns'[n].phase = "start" /\ turns'[n].answer = NoReply
      /\ \A u \in Turns : u # n => turns'[u] = turns[u]
      /\ inputs \subseteq Turns
  BY <1>3, IdParts, StartFacts
<1> QED
  BY <1>2, <1>3, <1>4, StartIds

(* Messages, cancellation and replies. *)
LEMMA MessageIds ==
  ASSUME WorkerInv, IdsInv, Message \/ Cancel
  PROVE  IdsInv' /\ Onward
<1>1. schedule \in Schedule /\ generation + 1 \in Nat
  BY IdParts, TypeParts DEF WorkerInv
<1>2. /\ DiscardBelow(schedule, generation + 1).queued \subseteq schedule.queued
      /\ DiscardAll(schedule).queued \subseteq schedule.queued
  BY <1>1 DEF Schedule, DiscardBelow, DiscardAll
<1>3. CASE PostInitialTask
  <2>1. generation + 1 \in 0..MaxGeneration
    BY <1>3, TypeParts, WorkerAssumption DEF WorkerInv, PostInitialTask
  <2> QED
    BY <1>2, <1>3, <2>1, StartNewIds DEF PostInitialTask
<1>4. CASE PostFollowUp
  <2>1. generation + 1 \in 0..MaxGeneration
    BY <1>4, TypeParts, WorkerAssumption DEF WorkerInv, PostFollowUp
  <2>2. /\ schedule'.queued \subseteq schedule.queued /\ inputs' \subseteq inputs
        /\ inputs' # {} => initialized'
    BY <1>2, <1>4 DEF PostFollowUp
  <2>3. CASE StartNew(generation + 1)
    BY <2>1, <2>2, <2>3, StartNewIds
  <2>4. CASE UNCHANGED <<active, turns, minted>>
    BY <2>2, <2>4, QuietIds
  <2> QED
    BY <1>4, <2>3, <2>4 DEF PostFollowUp
<1>5. CASE Cancel
  <2>1. /\ inputs' = {} /\ active' = active /\ minted' = minted
        /\ schedule'.queued \subseteq schedule.queued /\ turns' = FlagActive
    BY <1>2, <1>5 DEF Cancel
  <2>2. CASE active = NoTurn
    BY <2>1, <2>2, QuietIds DEF FlagActive
  <2>3. CASE active # NoTurn
    <3>1. PICK t \in Turns : t = active
      BY <2>3, IdParts
    <3>2. Live(t)
      BY <2>3, <3>1 DEF IdsInv, ActiveIsLive
    <3>3. PICK rec \in TurnRecord :
            /\ rec = [turns[t] EXCEPT !.cancel = TRUE] /\ rec.phase = turns[t].phase
            /\ rec.answer = turns[t].answer /\ rec.cancel
      <4> DEFINE r == [turns[t] EXCEPT !.cancel = TRUE]
      <4>1. turns[t] \in TurnRecord
        BY IdParts
      <4>2. /\ r \in TurnRecord /\ r.phase = turns[t].phase
            /\ r.answer = turns[t].answer /\ r.cancel
        BY <4>1 DEF TurnRecord
      <4> QED
        BY <4>2
    <3>4. turns' = [turns EXCEPT ![t] = rec]
      BY <2>1, <2>3, <3>1, <3>3 DEF FlagActive
    <3>5. rec.phase # "unused" /\ rec.phase # "reported"
      BY <3>2, <3>3 DEF Live
    <3> QED
      BY <2>1, <3>2, <3>3, <3>4, <3>5, IdParts, MoveIds DEF Onward
  <2> QED
    BY <2>2, <2>3
<1> QED
  BY <1>3, <1>4, <1>5 DEF Message

(* A reply is stored with the turn that asked. *)
LEMMA ProvideInputIds ==
  ASSUME WorkerInv, IdsInv, NEW t, NEW reply \in Replies, ProvideInput(t, reply)
  PROVE  IdsInv' /\ Irrevocable
<1>1. t \in Turns /\ Live(t) /\ turns[t].answer = NoReply
  BY IdParts DEF ProvideInput, Acknowledgement
<1>2. PICK rec \in TurnRecord :
        /\ rec = [turns[t] EXCEPT !.answer = reply] /\ rec.phase = turns[t].phase
        /\ rec.cancel = turns[t].cancel
  <2> DEFINE r == [turns[t] EXCEPT !.answer = reply]
  <2>1. turns[t] \in TurnRecord
    BY <1>1, IdParts
  <2>2. r \in TurnRecord /\ r.phase = turns[t].phase /\ r.cancel = turns[t].cancel
    BY <2>1 DEF TurnRecord
  <2> QED
    BY <2>2
<1>3. turns' = [turns EXCEPT ![t] = rec]
  BY <1>2 DEF ProvideInput
<1>4. rec.phase # "unused" /\ rec.phase # "reported"
  BY <1>1, <1>2 DEF Live
<1>5. /\ UNCHANGED <<active, minted, schedule, initialized>> /\ inputs' = inputs \ {t}
  BY DEF ProvideInput, lifeVars
<1>6. inputs' \subseteq Turns /\ (inputs' # {} => initialized')
  BY <1>5, IdParts
<1> QED
  BY <1>1, <1>2, <1>3, <1>4, <1>5, <1>6, IdParts, MoveIds

(* The turn that ends and the fresh one that takes its place. *)
LEMMA SwapIds ==
  ASSUME WorkerInv, IdsInv, NEW t \in Turns, turns[t].phase = "done",
         NEW n \in Turns, NEW d \in TurnRecord, turns' = Swapped(t, n, d), d.phase = "start",
         d.answer = NoReply,
         NEW queue, FreshIds(queue, minted'), turns[n].phase = "unused", n <= minted',
         \A e \in schedule'.queued : e \in queue /\ e.turn # n,
         active' = n, inputs' = InputsAfter(t), minted' \in Nat, UNCHANGED initialized
  PROVE  IdsInv' /\ Onward
<1>1. PICK rec \in TurnRecord :
        /\ turns' = [[turns EXCEPT ![t] = rec] EXCEPT ![n] = d] /\ rec.phase = "reported"
        /\ rec.answer = turns[t].answer /\ rec.cancel = turns[t].cancel
  BY IdParts, SwapFacts
<1>2. /\ turns'[n].phase = "start" /\ turns'[n].answer = NoReply
      /\ \A u \in Turns : u # n => \/ u # t /\ turns'[u] = turns[u]
                                   \/ u = t /\ turns'[u] = rec
  BY <1>1, IdParts
<1>3. Live(t) /\ inputs' \subseteq inputs /\ t \notin inputs'
  BY DEF Live, InputsAfter
<1>4. \A u \in Turns : u # n =>
        \/ turns'[u] = turns[u]
        \/ /\ Live(u) /\ turns'[u].phase = "reported" /\ u \notin inputs'
           /\ turns'[u].answer = turns[u].answer /\ turns'[u].cancel = turns[u].cancel
  BY <1>1, <1>2, <1>3
<1>5. inputs \subseteq Turns /\ (inputs' # {} => initialized')
  BY <1>3, IdParts
<1> QED
  BY <1>2, <1>3, <1>4, <1>5, StartIds

(* Outcomes. *)
LEMMA OutcomeIds ==
  ASSUME WorkerInv, IdsInv, NEW t \in Turns, OutcomeStep(t)
  PROVE  IdsInv' /\ Onward
<1>1. /\ turns \in [Turns -> TurnRecord] /\ schedule \in Schedule
      /\ generation \in 0..MaxGeneration /\ minted \in Nat
  BY IdParts, TypeParts DEF WorkerInv
<1>2. CASE OutcomeRestarts(t)
  <2>1. PICK n \in Turns : n = minted + 1
    BY <1>2, MintFacts DEF OutcomeRestarts
  <2>2. /\ n \in Nat /\ turns[n].phase = "unused" /\ FreshIds(schedule.queued, n)
        /\ \A e \in schedule.queued : e.turn # n
    BY <1>2, <2>1, MintFacts DEF OutcomeRestarts
  <2>3. PICK d \in TurnRecord :
        d = Dispatched(generation, FALSE) /\ d.phase = "start" /\ d.answer = NoReply
    BY <1>1, TurnFacts
  <2>4. /\ turns' = Swapped(t, n, d) /\ active' = n /\ minted' = n /\ turns[t].phase = "done"
        /\ inputs' = InputsAfter(t) /\ UNCHANGED <<schedule, initialized>>
    BY <1>2, <2>1, <2>3 DEF OutcomeRestarts, Swapped
  <2>5. PICK queue : queue = schedule.queued
    OBVIOUS
  <2>6. /\ FreshIds(queue, minted') /\ minted' \in Nat /\ n <= minted'
        /\ \A e \in schedule'.queued : e \in queue /\ e.turn # n
    BY <2>2, <2>4, <2>5
  <2> QED
    BY <2>2, <2>3, <2>4, <2>6, SwapIds
<1>3. CASE OutcomeContinues(t)
  <2>1. PICK e \in NextContinuation(t) :
          /\ schedule' = Dequeue(schedule, e) /\ active' = e.turn
          /\ turns' = Swapped(t, e.turn, Dispatched(generation, TRUE))
    BY <1>3 DEF OutcomeContinues, Swapped
  <2>2. e \in Eligible(schedule, generation)
    BY <2>1 DEF NextContinuation
  <2>3. e \in schedule.queued /\ e.turn \in Turns /\ schedule'.queued = schedule.queued \ {e}
    BY <1>1, <2>1, <2>2, TakenFacts
  <2>4. PICK n \in Turns : n = e.turn
    BY <2>3
  <2>5. PICK d \in TurnRecord :
        d = Dispatched(generation, TRUE) /\ d.phase = "start" /\ d.answer = NoReply
    BY <1>1, TurnFacts
  <2>6. /\ turns' = Swapped(t, n, d) /\ active' = n /\ minted' = minted
        /\ turns[t].phase = "done" /\ inputs' = InputsAfter(t) /\ UNCHANGED initialized
    BY <1>3, <2>1, <2>4, <2>5 DEF OutcomeContinues
  <2>7. /\ turns[n].phase = "unused" /\ n <= minted /\ FreshIds(schedule.queued, minted)
        /\ \A f \in schedule'.queued : f \in schedule.queued /\ f.turn # n
    BY <2>3, <2>4 DEF IdsInv, FreshIds
  <2> QED
    BY <1>1, <2>5, <2>6, <2>7, SwapIds
<1>4. CASE OutcomeSettles(t)
  <2>1. PICK rec \in TurnRecord :
          /\ turns' = [turns EXCEPT ![t] = rec] /\ rec.phase = "reported"
          /\ rec.answer = turns[t].answer /\ rec.cancel = turns[t].cancel
    <3>1. turns' = Moved(t, "reported") /\ "reported" \in Phases
      BY <1>4 DEF OutcomeSettles, Moved, Phases
    <3> QED
      BY <1>1, <3>1, MoveFacts
  <2>2. DiscardAll(schedule).queued = {}
    BY <1>1 DEF DiscardAll, Schedule
  <2>3. /\ active' = NoTurn /\ Live(t) /\ minted' = minted /\ initialized' = initialized
        /\ inputs' \subseteq inputs \ {t} /\ schedule'.queued \subseteq schedule.queued
    BY <1>4, <2>2 DEF OutcomeSettles, Live, InputsAfter, ReviewsAfter
  <2>4. inputs' \subseteq Turns /\ (inputs' # {} => initialized')
    BY <2>3, IdParts
  <2> QED
    BY <2>1, <2>3, <2>4, IdParts, MoveIds DEF Onward
<1>5. CASE OutcomeRejected(t)
  <2>1. PICK rec \in TurnRecord :
          /\ turns' = [turns EXCEPT ![t] = rec] /\ rec.phase = "reported"
          /\ rec.answer = turns[t].answer /\ rec.cancel = turns[t].cancel
    <3>1. turns' = Moved(t, "reported") /\ "reported" \in Phases
      BY <1>5 DEF OutcomeRejected, Moved, Phases
    <3> QED
      BY <1>1, <3>1, MoveFacts
  <2>2. /\ Live(t) /\ ~initialized
        /\ UNCHANGED <<active, minted, initialized, inputs, schedule>>
    BY <1>5 DEF OutcomeRejected, Live, lifeVars, coordVars
  <2>3. active = NoTurn /\ inputs = {}
    BY <2>2, IdParts DEF WorkerInv, BlankIsEmpty
  <2> QED
    BY <2>1, <2>2, <2>3, IdParts, MoveIds DEF Onward
<1> QED
  BY <1>2, <1>3, <1>4, <1>5 DEF OutcomeStep

(* A continuation starts on an idle worker. *)
LEMMA ContinuationIds ==
  ASSUME WorkerInv, IdsInv, NEW q \in Schedule, NEW e \in Eligible(q, generation),
         FreshIds(q.queued, minted'), schedule' = Dequeue(q, e), StartContinuation(e),
         minted' \in Nat, UNCHANGED <<inputs, initialized>>
  PROVE  IdsInv' /\ Onward
<1>1. e \in q.queued /\ schedule'.queued = q.queued \ {e} /\ e.turn \in Turns
  BY TakenFacts
<1>2. PICK n \in Turns : n = e.turn
  BY <1>1
<1>3. /\ turns[n].phase = "unused" /\ n <= minted'
      /\ \A f \in schedule'.queued : f \in q.queued /\ f.turn # n
  BY <1>1, <1>2 DEF FreshIds
<1>4. PICK d \in TurnRecord :
        d = Dispatched(generation, TRUE) /\ d.phase = "start" /\ d.answer = NoReply
  <2>1. generation \in 0..MaxGeneration
    BY TypeParts DEF WorkerInv
  <2> QED
    BY <2>1, TurnFacts
<1>5. turns' = [turns EXCEPT ![n] = d] /\ active' = n
  BY <1>2, <1>4 DEF StartContinuation
<1>6. /\ turns'[n].phase = "start" /\ turns'[n].answer = NoReply
      /\ \A u \in Turns : u # n => turns'[u] = turns[u]
  BY <1>4, <1>5, IdParts
<1> QED
  BY <1>3, <1>5, <1>6, IdParts, StartIds

(* Reviews. *)
LEMMA ReviewIds ==
  ASSUME WorkerInv, IdsInv, NEW r \in Reviews, ReviewStep(r)
  PROVE  IdsInv' /\ Onward
<1>1. schedule \in Schedule /\ minted \in Nat
  BY IdParts
<1>2. ASSUME NEW t \in Turns, RaiseReview(t, r)
      PROVE  IdsInv' /\ Onward
  <2>1. turns' = Moved(t, "model") /\ Live(t) /\ t \notin inputs
    BY <1>2, IdParts DEF RaiseReview, Moved, Live
  <2>2. schedule'.queued = schedule.queued
    <3>1. turns[t].generation \in Nat
      BY IdParts, WorkerAssumption DEF TurnRecord
    <3> QED
      BY <1>1, <1>2, <3>1, RegisterFacts DEF RaiseReview, RegisterUnlessSuperseded
  <2> QED
    BY <1>2, <2>1, <2>2, PhaseIds DEF RaiseReview, Phases, lifeVars
<1>3. PICK left \in Schedule : left = Resolve(schedule, r) /\ left.queued = schedule.queued
  BY <1>1, ResolveFacts
<1>4. CASE ResolveReview(r)
  <2> DEFINE new == [review |-> r, turn |-> minted + 1,
                     generation |-> Registration(schedule, r).generation,
                     ordinal |-> Registration(schedule, r).ordinal]
  <2>1. /\ minted + 1 \in Turns /\ minted + 1 \in Nat /\ turns[minted + 1].phase = "unused"
        /\ FreshIds(schedule.queued, minted + 1)
        /\ \A e \in schedule.queued : e.turn # minted + 1
    BY <1>4, MintFacts DEF ResolveReview
  <2>2. PICK entry \in Entry : entry = new /\ entry.turn = minted + 1
    <3>1. Registration(schedule, r) \in Entry
      BY <1>4, OpenFacts DEF ResolveReview
    <3>2. new \in Entry /\ new.turn = minted + 1
      BY <2>1, <3>1 DEF Entry
    <3> QED
      BY <3>2
  <2>3. PICK q \in Schedule : /\ q = Enqueue(left, entry)
                              /\ q.queued \subseteq schedule.queued \cup {entry}
    BY <1>3, <2>2, EnqueueFacts
  <2>4. FreshIds(q.queued, minted + 1)
    BY <2>1, <2>2, <2>3 DEF FreshIds
  <2>5. minted' = minted + 1 /\ minted' \in Nat /\ UNCHANGED <<inputs, initialized>>
    BY <1>4, <2>1 DEF ResolveReview
  <2>6. \/ schedule' = q /\ UNCHANGED <<active, status, turns>>
        \/ \E e \in Eligible(q, generation) : schedule' = Dequeue(q, e) /\ StartContinuation(e)
    <3>1. q = Enqueue(Resolve(schedule, r), new)
      BY <1>3, <2>2, <2>3
    <3> QED
      BY <1>4, <3>1 DEF ResolveReview
  <2>7. CASE schedule' = q /\ UNCHANGED <<active, status, turns>>
    <3>1. FreshIds(schedule.queued, minted)'
      BY <2>4, <2>5, <2>7 DEF FreshIds
    <3>2. UnusedIsBlank' /\ ActiveIsLive' /\ AskedIsOpen' /\ AskersAreAdmitted' /\ Onward
      BY <2>5, <2>7
         DEF IdsInv, UnusedIsBlank, ActiveIsLive, AskedIsOpen, AskersAreAdmitted, Live, Onward,
             Irrevocable, AnswersKept
    <3> QED
      BY <3>1, <3>2 DEF IdsInv
  <2>8. CASE \E e \in Eligible(q, generation) : schedule' = Dequeue(q, e) /\ StartContinuation(e)
    <3>1. FreshIds(q.queued, minted')
      BY <2>4, <2>5
    <3> QED
      BY <2>5, <2>8, <3>1, ContinuationIds
  <2> QED
    BY <2>6, <2>7, <2>8
<1>5. ASSUME NEW cause, ReleaseReview(r, cause)
      PROVE  IdsInv' /\ Onward
  <2>1. UNCHANGED <<minted, inputs, initialized>>
    BY <1>5 DEF ReleaseReview
  <2>2. \/ schedule' = left /\ UNCHANGED <<active, turns>>
        \/ \E e \in Eligible(left, generation) :
             schedule' = Dequeue(left, e) /\ StartContinuation(e)
    BY <1>3, <1>5 DEF ReleaseReview
  <2>3. FreshIds(left.queued, minted')
    BY <1>3, <2>1 DEF IdsInv, FreshIds
  <2>4. CASE schedule' = left /\ UNCHANGED <<active, turns>>
    BY <1>3, <2>1, <2>4, IdParts, QuietIds
  <2>5. CASE \E e \in Eligible(left, generation) :
               schedule' = Dequeue(left, e) /\ StartContinuation(e)
    BY <1>1, <2>1, <2>3, <2>5, ContinuationIds
  <2> QED
    BY <2>2, <2>4, <2>5
<1> QED
  BY <1>2, <1>4, <1>5 DEF ReviewStep

(* The steps that only touch the worker's own coordination. *)
LEMMA TickIds ==
  ASSUME WorkerInv, IdsInv,
         \/ \E tick \in ticks : Tick(tick)
         \/ \E w \in Waiters : AttachWaiter(w) \/ WaitTimesOut(w)
         \/ StaleRecorded \/ ParentAcknowledges \/ ParentRefuses \/ UNCHANGED vars
  PROVE  IdsInv' /\ Onward
<1> USE DEF lifeVars, coordVars
<1>1. ASSUME NEW tick \in ticks, Tick(tick)
      PROVE  IdsInv' /\ Onward
  <2>1. CASE LivenessDeadline(tick)
    BY <2>1, IdParts, QuietIds DEF LivenessDeadline
  <2>2. ASSUME NEW released \in BOOLEAN, Cleanup(tick, released)
        PROVE  IdsInv' /\ Onward
    <3>1. UNCHANGED <<turns, minted>> /\ (UNCHANGED <<lifeVars, schedule, inputs>> \/ ClearAll)
      BY <2>2 DEF Cleanup
    <3>2. CASE UNCHANGED <<lifeVars, schedule, inputs>>
      BY <3>1, <3>2, IdParts, QuietIds
    <3>3. CASE ClearAll
      BY <3>1, <3>3, QuietIds DEF ClearAll, EmptySchedule
    <3> QED
      BY <3>1, <3>2, <3>3
  <2> QED
    BY <1>1, <2>1, <2>2 DEF Tick
<1>2. CASE \E w \in Waiters : AttachWaiter(w) \/ WaitTimesOut(w)
  BY <1>2, IdParts, QuietIds DEF AttachWaiter, WaitTimesOut
<1>3. CASE StaleRecorded \/ ParentAcknowledges \/ ParentRefuses
  BY <1>3, IdParts, QuietIds DEF StaleRecorded, ParentAcknowledges, ParentRefuses
<1>4. CASE UNCHANGED vars
  BY <1>4, IdParts, QuietIds DEF vars, envVars
<1> QED
  BY <1>1, <1>2, <1>3, <1>4

(* Every step keeps the ids, and what happened to a turn stays. *)
LEMMA IdsStep == WorkerInv /\ IdsInv /\ [Next]_vars => IdsInv' /\ Irrevocable
<1> SUFFICES ASSUME WorkerInv, IdsInv, [Next]_vars PROVE IdsInv' /\ Irrevocable
  OBVIOUS
<1> USE DEF Onward
<1>1. CASE Message \/ Cancel
  BY <1>1, MessageIds
<1>2. CASE \E t \in Turns : TurnStep(t) \/ Advertise(t) \/ OutcomeStep(t)
  BY <1>2, TurnStepIds, OutcomeIds
<1>3. CASE \E t \in InputTurns, reply \in Replies : ProvideInput(t, reply)
  BY <1>3, ProvideInputIds
<1>4. CASE \E r \in Reviews : ReviewStep(r)
  BY <1>4, ReviewIds
<1> QED
  BY <1>1, <1>2, <1>3, <1>4, TickIds DEF Next

(* No id is used yet. *)
LEMMA IdsInit == Init => IdsInv
<1> SUFFICES ASSUME Init PROVE IdsInv
  OBVIOUS
<1>1. schedule.queued = {} /\ inputs = {} /\ active = NoTurn
  BY DEF Init, EmptySchedule
<1>2. \A t \in Turns : /\ turns[t].phase = "unused"
                       /\ ~turns[t].cancel /\ turns[t].answer = NoReply
  BY DEF Init, UnusedTurn
<1> QED
  BY <1>1, <1>2
     DEF IdsInv, FreshIds, UnusedIsBlank, ActiveIsLive, AskedIsOpen, AskersAreAdmitted

(* The ids of turns: a turn id is minted once, also the one that waits with a
   queued continuation; the active turn is live; open requests are of turns that
   can still take them back. *)
THEOREM IdsSafe == Spec => []IdsInv
BY IdsInit, IdsStep, WorkerSafe, PTL DEF Spec

(* start_worker_turn_execution, provide_input and request_cancel: a turn that has
   reported its outcome is neither started again nor cancelled nor answered, the
   first answer to a question is final, and no handler takes a cancellation back. *)
THEOREM TurnRunsOnce == Spec => [][Irrevocable]_vars
BY IdsSafe, IdsStep, WorkerSafe, PTL DEF Spec
================================================================================
