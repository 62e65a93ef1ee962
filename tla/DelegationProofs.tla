---------------------------- MODULE DelegationProofs ----------------------------
(***************************************************************************)
(* A Session and its worker, for any number of turns, parent messages,     *)
(* reviews, waiters and questions.  The worker's own invariants are those  *)
(* of module WorkerProofs: every step of the pair is a step of the worker  *)
(* or leaves it alone.                                                     *)
(***************************************************************************)
EXTENDS Delegation, WorkerProofs

(* The task travels to a worker that the Session has registered. *)
TaskIsOwned == "task" \in posted => owned /\ ~spawned

(* Before its task arrives, nothing is known of a worker. *)
UnspawnedIsBlank == ~spawned => fence = 0 /\ cached = 0

(* Only a worker that was cleared asks to be removed. *)
RemovedIsCleared == removing => spawned /\ ~initialized

(* The fence is at the generation that was acknowledged, and behind it until then. *)
FenceFollows ==
  initialized =>
    /\ delivered => fence = generation
    /\ ~delivered => fence < generation

(* The Session forgets a worker that exists only when its result is consumed. *)
OwnedUntilConsumed == initialized /\ ~owned => consumed # {}

Advertised(t) == t \in targets \/ (session = "reply" /\ replying.turn = t)

(* A user sees a request only after its turn was parked on it. *)
AdvertisedIsAsked ==
  \A t \in Turns : Advertised(t) =>
    turns[t].phase \in {"waiting", "done", "reported"} \/ turns[t].answer # NoReply

(* Nobody answers a request before it is advertised. *)
RegisteredIsUnanswered ==
  \A t \in Turns : turns[t].phase = "registered" => turns[t].answer = NoReply

(* A Session that forwards a reply knows which one. *)
ReplyIsKnown == session = "reply" => replying \in [turn : InputTurns, reply : Replies]

SessionInv ==
  /\ DTypeOK
  /\ TaskIsOwned
  /\ UnspawnedIsBlank
  /\ RemovedIsCleared
  /\ FenceFollows
  /\ OwnedUntilConsumed
  /\ AcknowledgedIsKept
  /\ FirstReportIsAccepted
  /\ ReplyIsKnown

QuestionInv ==
  /\ AdvertisedIsAsked
  /\ RegisteredIsUnanswered
  /\ TargetIsAnswerable

--------------------------------------------------------------------------------
(* Every step of the pair is a step of the worker, or leaves it alone.          *)

(* The pair starts with a blank worker. *)
LEMMA PairInit == DInit => Init /\ SessionInv /\ QuestionInv
<1> SUFFICES ASSUME DInit PROVE Init /\ SessionInv /\ QuestionInv
  OBVIOUS
<1>1. Init /\ spawned = FALSE /\ initialized = FALSE /\ refused = {}
  BY DEF DInit, Init
<1>2. DTypeOK
  <2>1. 0 \in 0..MaxGeneration
    BY WorkerAssumption
  <2>2. replying \in [turn : InputTurns \cup {NoTurn}, reply : Replies \cup {NoReply}]
    BY DEF DInit, NoReplying
  <2> QED
    BY <2>1, <2>2 DEF DInit, DTypeOK
<1>3. /\ TaskIsOwned /\ UnspawnedIsBlank /\ RemovedIsCleared /\ FenceFollows
      /\ OwnedUntilConsumed /\ AcknowledgedIsKept /\ FirstReportIsAccepted /\ ReplyIsKnown
  BY <1>1 DEF DInit, TaskIsOwned, UnspawnedIsBlank, RemovedIsCleared, FenceFollows,
     OwnedUntilConsumed, AcknowledgedIsKept, FirstReportIsAccepted, ReplyIsKnown
<1>4. \A t \in Turns : turns[t].phase = "unused"
  BY <1>1 DEF Init, UnusedTurn
<1>5. QuestionInv
  BY <1>4 DEF DInit, QuestionInv, AdvertisedIsAsked, Advertised, RegisteredIsUnanswered,
     TargetIsAnswerable
<1> QED
  BY <1>1, <1>2, <1>3, <1>5 DEF SessionInv

(* The reply that the Session forwards is one of those a parent may give. *)
LEMMA ReplyFacts ==
  ASSUME SessionInv, ReplyAcknowledged
  PROVE  \/ /\ Acknowledgement(replying.turn, replying.reply) # "Applied"
            /\ UNCHANGED vars
         \/ \E t \in InputTurns, reply \in Replies :
              /\ t = replying.turn /\ ProvideInput(t, reply)
              /\ targets' = targets \ {t}
<1>1. replying.turn \in InputTurns /\ replying.reply \in Replies
  BY DEF SessionInv, ReplyIsKnown, ReplyAcknowledged
<1>2. CASE Acknowledgement(replying.turn, replying.reply) = "Applied"
  BY <1>1, <1>2 DEF ReplyAcknowledged
<1>3. CASE Acknowledgement(replying.turn, replying.reply) # "Applied"
  BY <1>3 DEF ReplyAcknowledged
<1> QED
  BY <1>2, <1>3

(* What the worker does in a step of the pair. *)
LEMMA PairStep == SessionInv /\ [DNext]_dvars => [Next]_vars
<1> SUFFICES ASSUME SessionInv, [DNext]_dvars PROVE [Next]_vars
  OBVIOUS
<1>1. CASE \/ SpawnWorker \/ ConsumeResult \/ RemoveChild \/ CancelTree
           \/ \E what \in {"followUp", "cancel"} : SendToWorker(what)
           \/ \E t \in InputTurns, reply \in Replies : ForwardReply(t, reply)
           \/ \E t \in InputTurns : ClearTarget(t)
           \/ UNCHANGED dvars
  BY <1>1 DEF SpawnWorker, ConsumeResult, RemoveChild, CancelTree, SendToWorker, ForwardReply,
     ClearTarget, dvars
<1>2. CASE \E t \in InputTurns, reply \in Replies : CoordinatorAnswers(t, reply)
  BY <1>2 DEF CoordinatorAnswers, Next
<1>3. CASE ReceivePosted
  BY <1>3 DEF ReceivePosted, Next, Message
<1>4. CASE WorkerStep
  BY <1>4 DEF WorkerStep, Next, Tick
<1>5. CASE RecordTerminal \/ RecordStale \/ TreeCancelled
  BY <1>5 DEF RecordTerminal, RecordStale, TreeCancelled, Next
<1>6. CASE \E t \in InputTurns : RecordNeedsInput(t)
  BY <1>6, InputAssumption DEF RecordNeedsInput, Next
<1>7. CASE ReplyAcknowledged
  BY <1>7, ReplyFacts DEF Next
<1> QED
  BY <1>1, <1>2, <1>3, <1>4, <1>5, <1>6, <1>7 DEF DNext

--------------------------------------------------------------------------------
(* The Session's side.                                                          *)

(* What most steps of the worker leave alone. *)
LEMMA QuietWorker ==
  ASSUME \/ \E t \in Turns : TurnStep(t) \/ OutcomeStep(t) \/ Advertise(t)
         \/ \E r \in Reviews : ReviewStep(r)
         \/ \E tick \in ticks : LivenessDeadline(tick)
         \/ \E w \in Waiters : AttachWaiter(w) \/ WaitTimesOut(w)
         \/ \E t \in InputTurns, reply \in Replies : ProvideInput(t, reply)
         \/ Cancel \/ StaleRecorded \/ UNCHANGED vars
  PROVE  UNCHANGED <<spawned, initialized, delivered, generation, refused>>
<1> USE DEF lifeVars
<1>1. CASE \E t \in Turns : TurnStep(t) \/ Advertise(t)
  BY <1>1 DEF TurnStep, Advertise, BeginIteration, ObserveCancel, PrepareTurn,
         ContinueTurn, FinishTurn, FailTurn, CallTool, ToolReturns, AskInput,
         AwaitAnswered, AwaitCancelled, Heartbeat
<1>2. CASE \E t \in Turns : OutcomeStep(t)
  BY <1>2 DEF OutcomeStep, OutcomeRestarts, OutcomeContinues, OutcomeSettles, OutcomeRejected
<1>3. CASE \E r \in Reviews : ReviewStep(r)
  BY <1>3 DEF ReviewStep, RaiseReview, ResolveReview, ReleaseReview
<1>4. CASE \E tick \in ticks : LivenessDeadline(tick)
  BY <1>4 DEF LivenessDeadline
<1>5. CASE \E w \in Waiters : AttachWaiter(w) \/ WaitTimesOut(w)
  BY <1>5 DEF AttachWaiter, WaitTimesOut
<1>6. CASE \E t \in InputTurns, reply \in Replies : ProvideInput(t, reply)
  BY <1>6 DEF ProvideInput
<1>7. CASE Cancel \/ StaleRecorded \/ UNCHANGED vars
  BY <1>7 DEF Cancel, StaleRecorded, vars, envVars
<1> QED
  BY <1>1, <1>2, <1>3, <1>4, <1>5, <1>6, <1>7

(* A step that neither side notices. *)
LEMMA SessionKeeps ==
  ASSUME SessionInv, DTypeOK', ReplyIsKnown',
         UNCHANGED <<owned, cached, fence, removing, consumed>>,
         UNCHANGED <<spawned, initialized, delivered, generation, refused>>,
         "task" \in posted' => "task" \in posted
  PROVE  SessionInv'
<1>1. TaskIsOwned' /\ UnspawnedIsBlank' /\ RemovedIsCleared'
  BY DEF SessionInv, TaskIsOwned, UnspawnedIsBlank, RemovedIsCleared
<1>2. FenceFollows' /\ OwnedUntilConsumed' /\ AcknowledgedIsKept' /\ FirstReportIsAccepted'
  BY DEF SessionInv, FenceFollows, OwnedUntilConsumed, AcknowledgedIsKept, FirstReportIsAccepted
<1> QED
  BY <1>1, <1>2 DEF SessionInv

(* The steps that neither side notices. *)
LEMMA KeepingSteps ==
  ASSUME WorkerInv, IdsInv, SessionInv,
         \/ \E what \in {"followUp", "cancel"} : SendToWorker(what)
         \/ \E t \in InputTurns, reply \in Replies :
              CoordinatorAnswers(t, reply) \/ ForwardReply(t, reply)
         \/ \E t \in InputTurns : RecordNeedsInput(t) \/ ClearTarget(t)
         \/ CancelTree \/ TreeCancelled \/ RecordStale \/ UNCHANGED dvars
  PROVE  SessionInv'
<1> USE DEF sessionVars, flightVars
<1>1. DTypeOK /\ ReplyIsKnown /\ inputs \subseteq InputTurns
  BY IdParts DEF SessionInv
<1>2. ASSUME NEW what \in {"followUp", "cancel"}, SendToWorker(what)
      PROVE  SessionInv'
  <2>1. DTypeOK' /\ ReplyIsKnown'
    BY <1>1, <1>2 DEF DTypeOK, ReplyIsKnown, SendToWorker
  <2> QED
    BY <1>2, <2>1, QuietWorker, SessionKeeps DEF SendToWorker
<1>3. ASSUME NEW t \in InputTurns, NEW reply \in Replies, CoordinatorAnswers(t, reply)
      PROVE  SessionInv'
  <2>1. DTypeOK' /\ ReplyIsKnown'
    BY <1>1, <1>3 DEF DTypeOK, ReplyIsKnown, CoordinatorAnswers, Retract
  <2> QED
    BY <1>3, <2>1, QuietWorker, SessionKeeps DEF CoordinatorAnswers
<1>4. ASSUME NEW t \in InputTurns, NEW reply \in Replies, ForwardReply(t, reply)
      PROVE  SessionInv'
  <2>1. DTypeOK' /\ ReplyIsKnown'
    BY <1>1, <1>4 DEF DTypeOK, ReplyIsKnown, ForwardReply
  <2> QED
    BY <1>4, <2>1, QuietWorker, SessionKeeps DEF ForwardReply
<1>5. ASSUME NEW t \in InputTurns, RecordNeedsInput(t)
      PROVE  SessionInv'
  <2>1. DTypeOK' /\ ReplyIsKnown'
    BY <1>1, <1>5 DEF DTypeOK, ReplyIsKnown, RecordNeedsInput
  <2> QED
    BY <1>5, <2>1, InputAssumption, QuietWorker, SessionKeeps DEF RecordNeedsInput
<1>6. ASSUME NEW t \in InputTurns, ClearTarget(t)
      PROVE  SessionInv'
  <2>1. DTypeOK' /\ ReplyIsKnown'
    BY <1>1, <1>6 DEF DTypeOK, ReplyIsKnown, ClearTarget
  <2> QED
    BY <1>6, <2>1, QuietWorker, SessionKeeps DEF ClearTarget
<1>7. CASE CancelTree
  <2>1. DTypeOK' /\ ReplyIsKnown'
    BY <1>1, <1>7 DEF DTypeOK, ReplyIsKnown, CancelTree
  <2> QED
    BY <1>7, <2>1, QuietWorker, SessionKeeps DEF CancelTree
<1>8. CASE TreeCancelled
  <2>1. DTypeOK' /\ ReplyIsKnown'
    BY <1>1, <1>8 DEF DTypeOK, ReplyIsKnown, TreeCancelled, Retract
  <2> QED
    BY <1>8, <2>1, QuietWorker, SessionKeeps DEF TreeCancelled
<1>9. CASE RecordStale \/ UNCHANGED dvars
  <2>1. DTypeOK' /\ ReplyIsKnown'
    BY <1>1, <1>9 DEF DTypeOK, ReplyIsKnown, RecordStale, dvars
  <2> QED
    BY <1>9, <2>1, QuietWorker, SessionKeeps DEF RecordStale, dvars
<1> QED
  BY <1>2, <1>3, <1>4, <1>5, <1>6, <1>7, <1>8, <1>9

(* A user's reply is acknowledged. *)
LEMMA ReplySession ==
  ASSUME SessionInv, ReplyAcknowledged
  PROVE  SessionInv'
<1>1. UNCHANGED <<spawned, initialized, delivered, generation, refused>>
  BY ReplyFacts, QuietWorker
<1>2. /\ UNCHANGED <<owned, cached, fence, flightVars>> /\ session' = "none"
      /\ replying' = NoReplying /\ targets' \subseteq targets
  BY DEF ReplyAcknowledged
<1>3. replying' \in [turn : InputTurns \cup {NoTurn}, reply : Replies \cup {NoReply}]
  BY <1>2 DEF NoReplying
<1>4. DTypeOK' /\ ReplyIsKnown'
  BY <1>2, <1>3 DEF SessionInv, DTypeOK, ReplyIsKnown, flightVars
<1> QED
  BY <1>1, <1>2, <1>4, SessionKeeps DEF flightVars

(* The worker is registered, its task is on the way. *)
LEMMA SpawnSession ==
  ASSUME WorkerInv, SessionInv, SpawnWorker
  PROVE  SessionInv'
<1>1. /\ owned' = TRUE /\ posted' = posted \cup {"task"} /\ ~spawned
      /\ UNCHANGED <<cached, fence, targets, session, replying, retracting, removing, consumed>>
      /\ UNCHANGED <<spawned, initialized, delivered, generation, refused>>
  BY QuietWorker DEF SpawnWorker, RegisterChild
<1>2. DTypeOK' /\ ReplyIsKnown'
  BY <1>1 DEF SessionInv, DTypeOK, ReplyIsKnown
<1>3. TaskIsOwned' /\ UnspawnedIsBlank' /\ RemovedIsCleared'
  BY <1>1 DEF SessionInv, TaskIsOwned, UnspawnedIsBlank, RemovedIsCleared
<1>4. FenceFollows' /\ OwnedUntilConsumed' /\ AcknowledgedIsKept' /\ FirstReportIsAccepted'
  BY <1>1 DEF SessionInv, FenceFollows, OwnedUntilConsumed, AcknowledgedIsKept,
     FirstReportIsAccepted
<1> QED
  BY <1>2, <1>3, <1>4 DEF SessionInv

(* A coordinator takes the result. *)
LEMMA ConsumeSession ==
  ASSUME WorkerInv, SessionInv, ConsumeResult
  PROVE  SessionInv'
<1>1. /\ owned' = FALSE /\ cached' = 0 /\ consumed' = consumed \cup {cached} /\ cached # 0
      /\ UNCHANGED <<fence, targets, session, replying, posted, retracting, removing>>
      /\ UNCHANGED <<spawned, initialized, delivered, generation, refused>>
  BY QuietWorker DEF ConsumeResult, HasResult
<1>2. spawned
  BY <1>1 DEF SessionInv, UnspawnedIsBlank
<1>3. DTypeOK' /\ ReplyIsKnown'
  <2>1. cached \in 1..MaxGeneration /\ 0 \in 0..MaxGeneration
    BY <1>1, WorkerAssumption DEF SessionInv, DTypeOK
  <2> QED
    BY <1>1, <2>1 DEF SessionInv, DTypeOK, ReplyIsKnown
<1>4. TaskIsOwned' /\ UnspawnedIsBlank' /\ RemovedIsCleared'
  BY <1>1, <1>2 DEF SessionInv, TaskIsOwned, UnspawnedIsBlank, RemovedIsCleared
<1>5. FenceFollows' /\ OwnedUntilConsumed' /\ AcknowledgedIsKept' /\ FirstReportIsAccepted'
  BY <1>1 DEF SessionInv, FenceFollows, OwnedUntilConsumed, AcknowledgedIsKept,
     FirstReportIsAccepted
<1> QED
  BY <1>3, <1>4, <1>5 DEF SessionInv

(* Messages reach the worker. *)
LEMMA ReceiveSession ==
  ASSUME WorkerInv, IdsInv, SessionInv, ReceivePosted
  PROVE  SessionInv'
<1> USE DEF sessionVars
<1>1. /\ DTypeOK /\ ReplyIsKnown /\ inputs \subseteq InputTurns
      /\ generation \in 0..MaxGeneration /\ fence \in 0..MaxGeneration
      /\ initialized => spawned
      /\ ~initialized => generation = 0
  BY IdParts, TypeParts DEF SessionInv, DTypeOK, WorkerInv, BlankIsEmpty
<1>2. ASSUME PostInitialTask, "task" \in posted, posted' = posted \ {"task"},
             UNCHANGED <<sessionVars, retracting, removing, consumed>>
      PROVE  SessionInv'
  <2>1. /\ ~spawned /\ spawned' = TRUE /\ initialized' = TRUE /\ delivered' = FALSE
        /\ generation' = generation + 1 /\ refused' = refused
    BY <1>2 DEF PostInitialTask
  <2>2. owned /\ fence = 0 /\ cached = 0 /\ ~removing /\ generation = 0
    BY <1>1, <1>2, <2>1 DEF SessionInv, TaskIsOwned, UnspawnedIsBlank, RemovedIsCleared
  <2>3. DTypeOK' /\ ReplyIsKnown'
    BY <1>1, <1>2 DEF DTypeOK, ReplyIsKnown
  <2>4. TaskIsOwned' /\ UnspawnedIsBlank' /\ RemovedIsCleared'
    BY <1>2, <2>1, <2>2 DEF TaskIsOwned, UnspawnedIsBlank, RemovedIsCleared
  <2>5. FenceFollows' /\ OwnedUntilConsumed' /\ AcknowledgedIsKept' /\ FirstReportIsAccepted'
    BY <1>2, <2>1, <2>2 DEF SessionInv, FenceFollows, OwnedUntilConsumed, AcknowledgedIsKept,
       FirstReportIsAccepted
  <2> QED
    BY <2>3, <2>4, <2>5 DEF SessionInv
<1>3. ASSUME PostFollowUp, posted' = posted \ {"followUp"},
             UNCHANGED <<sessionVars, retracting, removing, consumed>>
      PROVE  SessionInv'
  <2>1. /\ initialized /\ spawned' = spawned /\ initialized' = initialized /\ delivered' = FALSE
        /\ generation' = generation + 1 /\ refused' = refused
    BY <1>3 DEF PostFollowUp
  <2>2. fence <= generation
    BY <1>1, <2>1 DEF SessionInv, FenceFollows
  <2>3. DTypeOK' /\ ReplyIsKnown'
    BY <1>1, <1>3 DEF DTypeOK, ReplyIsKnown
  <2>4. TaskIsOwned' /\ UnspawnedIsBlank' /\ RemovedIsCleared'
    BY <1>3, <2>1 DEF SessionInv, TaskIsOwned, UnspawnedIsBlank, RemovedIsCleared
  <2>5. fence' < generation'
    BY <1>1, <1>3, <2>1, <2>2
  <2>6. FenceFollows' /\ OwnedUntilConsumed' /\ AcknowledgedIsKept' /\ FirstReportIsAccepted'
    BY <1>3, <2>1, <2>5 DEF SessionInv, FenceFollows, OwnedUntilConsumed, AcknowledgedIsKept,
       FirstReportIsAccepted
  <2> QED
    BY <2>3, <2>4, <2>6 DEF SessionInv
<1>4. ASSUME UNCHANGED vars, posted' = posted \ {"followUp"},
             UNCHANGED <<sessionVars, retracting, removing, consumed>>
      PROVE  SessionInv'
  <2>1. DTypeOK' /\ ReplyIsKnown'
    BY <1>1, <1>4 DEF DTypeOK, ReplyIsKnown
  <2> QED
    BY <1>4, <2>1, QuietWorker, SessionKeeps
<1>5. ASSUME Cancel, posted' = posted \ {"cancel"}, Retract,
             UNCHANGED <<sessionVars, removing, consumed>>
      PROVE  SessionInv'
  <2>1. DTypeOK' /\ ReplyIsKnown'
    BY <1>1, <1>5 DEF DTypeOK, ReplyIsKnown, Retract
  <2> QED
    BY <1>5, <2>1, QuietWorker, SessionKeeps
<1> QED
  BY <1>2, <1>3, <1>4, <1>5 DEF ReceivePosted

(* The worker's own steps; a cleared worker is the one that asks to be removed. *)
LEMMA WorkerSession ==
  ASSUME WorkerInv, IdsInv, SessionInv, WorkerStep
  PROVE  SessionInv'
<1> USE DEF sessionVars
<1>1. /\ DTypeOK /\ ReplyIsKnown /\ inputs \subseteq InputTurns
  BY IdParts DEF SessionInv
<1>2. CASE /\ \/ \E t \in Turns : TurnStep(t) \/ OutcomeStep(t)
              \/ \E r \in Reviews : ReviewStep(r)
              \/ \E tick \in ticks : LivenessDeadline(tick)
              \/ \E w \in Waiters : AttachWaiter(w) \/ WaitTimesOut(w)
           /\ Retract
           /\ UNCHANGED <<sessionVars, posted, removing, consumed>>
  <2>1. DTypeOK' /\ ReplyIsKnown'
    BY <1>1, <1>2 DEF DTypeOK, ReplyIsKnown, Retract
  <2>2. UNCHANGED <<spawned, initialized, delivered, generation, refused>>
    BY <1>2, QuietWorker
  <2> QED
    BY <1>2, <2>1, <2>2, SessionKeeps
<1>3. ASSUME NEW tick \in ticks, NEW released \in BOOLEAN, Cleanup(tick, released),
             removing' = (removing \/ (released /\ Proceeds(tick))),
             UNCHANGED <<sessionVars, posted, retracting, consumed>>
      PROVE  SessionInv'
  <2>1. DTypeOK' /\ ReplyIsKnown'
    <3>1. removing' \in BOOLEAN
      BY <1>1, <1>3 DEF DTypeOK, Proceeds
    <3> QED
      BY <1>1, <1>3, <3>1 DEF DTypeOK, ReplyIsKnown
  <2>2. CASE UNCHANGED lifeVars /\ ~(released /\ Proceeds(tick))
    <3>1. UNCHANGED <<spawned, initialized, delivered, generation, refused>>
      BY <1>3, <2>2 DEF Cleanup, lifeVars
    <3>2. removing' = removing
      BY <1>1, <1>3, <2>2 DEF DTypeOK
    <3> QED
      BY <1>3, <2>1, <3>1, <3>2, SessionKeeps
  <2>3. CASE Proceeds(tick) /\ ClearAll
    <3>1. delivered /\ initialized /\ spawned
      BY <2>3 DEF Proceeds, WorkerInv, ReportIsFinal, Reporting, BlankIsEmpty
    <3>2. spawned' = spawned /\ initialized' = FALSE /\ delivered' = FALSE /\ refused' = refused
      BY <1>3, <2>3 DEF Cleanup, ClearAll
    <3>3. TaskIsOwned' /\ UnspawnedIsBlank' /\ RemovedIsCleared'
      BY <1>3, <3>1, <3>2 DEF SessionInv, TaskIsOwned, UnspawnedIsBlank, RemovedIsCleared
    <3>4. FenceFollows' /\ OwnedUntilConsumed' /\ AcknowledgedIsKept' /\ FirstReportIsAccepted'
      BY <1>3, <3>2 DEF SessionInv, FenceFollows, OwnedUntilConsumed, AcknowledgedIsKept,
         FirstReportIsAccepted
    <3> QED
      BY <2>1, <3>3, <3>4 DEF SessionInv
  <2> QED
    BY <1>3, <2>2, <2>3 DEF Cleanup
<1> QED
  BY <1>2, <1>3 DEF WorkerStep

(* The Session answers a report. *)
LEMMA RecordSession ==
  ASSUME WorkerInv, SessionInv, RecordTerminal
  PROVE  SessionInv'
<1> USE DEF flightVars
<1>1. /\ suspended = "deliver" /\ UNCHANGED <<owned, targets, session, replying, flightVars>>
  BY DEF RecordTerminal, ParentAcknowledges, ParentRefuses
<1>2. initialized /\ ~delivered /\ spawned /\ generation \in 0..MaxGeneration
  BY <1>1, TypeParts DEF WorkerInv, ReportIsFinal, Reporting, BlankIsEmpty
<1>3. fence < generation
  BY <1>2 DEF SessionInv, FenceFollows
<1>4. CASE owned /\ ParentAcknowledges /\ cached' = CacheAfter /\ fence' = FenceAfter
  <2>1. /\ cached' = generation /\ fence' = generation /\ delivered' = TRUE
        /\ UNCHANGED <<spawned, initialized, generation, refused>>
    BY <1>3, <1>4 DEF CacheAfter, FenceAfter, ParentAcknowledges
  <2>2. DTypeOK' /\ ReplyIsKnown'
    BY <1>1, <1>2, <2>1 DEF SessionInv, DTypeOK, ReplyIsKnown
  <2>3. TaskIsOwned' /\ UnspawnedIsBlank' /\ RemovedIsCleared'
    BY <1>1, <1>2, <2>1 DEF SessionInv, TaskIsOwned, UnspawnedIsBlank, RemovedIsCleared
  <2>4. FenceFollows' /\ OwnedUntilConsumed' /\ AcknowledgedIsKept' /\ FirstReportIsAccepted'
    BY <1>1, <2>1 DEF SessionInv, FenceFollows, OwnedUntilConsumed, AcknowledgedIsKept,
       FirstReportIsAccepted
  <2> QED
    BY <2>2, <2>3, <2>4 DEF SessionInv
<1>5. CASE ~owned /\ ParentRefuses /\ UNCHANGED <<cached, fence>>
  <2>1. UNCHANGED <<spawned, initialized, generation, delivered>>
    BY <1>5 DEF ParentRefuses, lifeVars
  <2>2. DTypeOK' /\ ReplyIsKnown'
    BY <1>1, <1>5 DEF SessionInv, DTypeOK, ReplyIsKnown
  <2>3. TaskIsOwned' /\ UnspawnedIsBlank' /\ RemovedIsCleared'
    BY <1>1, <1>5, <2>1 DEF SessionInv, TaskIsOwned, UnspawnedIsBlank, RemovedIsCleared
  <2>4. FenceFollows' /\ OwnedUntilConsumed' /\ AcknowledgedIsKept' /\ FirstReportIsAccepted'
    BY <1>1, <1>2, <1>5, <2>1 DEF SessionInv, FenceFollows, OwnedUntilConsumed,
       AcknowledgedIsKept, FirstReportIsAccepted
  <2> QED
    BY <2>2, <2>3, <2>4 DEF SessionInv
<1> QED
  BY <1>4, <1>5 DEF RecordTerminal

(* A cleared worker is removed. *)
LEMMA RemoveSession ==
  ASSUME WorkerInv, SessionInv, RemoveChild
  PROVE  SessionInv'
<1>1. /\ removing /\ removing' = FALSE /\ owned' = FALSE
      /\ cached' = IF owned THEN 0 ELSE cached
      /\ targets' = IF owned THEN {} ELSE targets
      /\ UNCHANGED <<fence, session, replying, posted, retracting, consumed>>
      /\ UNCHANGED <<spawned, initialized, delivered, generation, refused>>
  BY QuietWorker DEF RemoveChild
<1>2. spawned /\ ~initialized
  BY <1>1 DEF SessionInv, RemovedIsCleared
<1>3. DTypeOK' /\ ReplyIsKnown'
  <2>1. 0 \in 0..MaxGeneration
    BY WorkerAssumption
  <2> QED
    BY <1>1, <2>1 DEF SessionInv, DTypeOK, ReplyIsKnown
<1>4. TaskIsOwned' /\ UnspawnedIsBlank' /\ RemovedIsCleared'
  BY <1>1, <1>2 DEF SessionInv, TaskIsOwned, UnspawnedIsBlank, RemovedIsCleared
<1>5. FenceFollows' /\ OwnedUntilConsumed' /\ AcknowledgedIsKept' /\ FirstReportIsAccepted'
  BY <1>1, <1>2 DEF SessionInv, FenceFollows, OwnedUntilConsumed, AcknowledgedIsKept,
     FirstReportIsAccepted
<1> QED
  BY <1>3, <1>4, <1>5 DEF SessionInv

(* Every step keeps the Session's side. *)
LEMMA SessionStep == WorkerInv /\ IdsInv /\ SessionInv /\ [DNext]_dvars => SessionInv'
BY KeepingSteps, ReplySession, SpawnSession, ConsumeSession, ReceiveSession, WorkerSession,
   RecordSession, RemoveSession DEF DNext
--------------------------------------------------------------------------------
(* Questions and the targets a user may answer.                                 *)

(* Nobody answers in a step that keeps the answers. *)
LEMMA UnansweredKeeps ==
  ASSUME RegisteredIsUnanswered, Onward
  PROVE  RegisteredIsUnanswered'
  BY DEF RegisteredIsUnanswered, Onward, Irrevocable, AnswersKept

(* A step that advertises nothing, and retracts what the worker drops. *)
LEMMA AskKeeps ==
  ASSUME QuestionInv, Irrevocable, RegisteredIsUnanswered',
         targets \subseteq Turns, targets' \subseteq targets,
         session' = "reply" => session = "reply" /\ replying' = replying,
         \A t \in targets' :
           t \in inputs \/ t \in retracting => t \in inputs' \/ t \in retracting'
  PROVE  QuestionInv'
<1>1. AdvertisedIsAsked'
  <2> SUFFICES ASSUME NEW t \in Turns, Advertised(t)'
               PROVE  \/ turns'[t].phase \in {"waiting", "done", "reported"}
                      \/ turns'[t].answer # NoReply
    BY DEF AdvertisedIsAsked
  <2>1. Advertised(t)
    BY DEF Advertised
  <2>2. turns[t].phase \in {"waiting", "done", "reported"} \/ turns[t].answer # NoReply
    BY <2>1 DEF QuestionInv, AdvertisedIsAsked
  <2> QED
    BY <2>2 DEF Irrevocable
<1>2. TargetIsAnswerable'
  BY DEF QuestionInv, TargetIsAnswerable, Irrevocable
<1> QED
  BY <1>1, <1>2 DEF QuestionInv

(* The Session only knows requests of turns. *)
LEMMA TargetFacts ==
  ASSUME SessionInv
  PROVE  targets \subseteq InputTurns /\ targets \subseteq Turns /\ InputTurns \subseteq Turns
  BY InputAssumption DEF SessionInv, DTypeOK

(* The worker and its requests stay as they are. *)
LEMMA SilentSteps ==
  ASSUME WorkerInv, IdsInv, SessionInv, QuestionInv,
         \/ SpawnWorker \/ ConsumeResult \/ RemoveChild \/ CancelTree
         \/ \E what \in {"followUp", "cancel"} : SendToWorker(what)
         \/ \E t \in InputTurns : ClearTarget(t)
         \/ UNCHANGED dvars
  PROVE  QuestionInv'
<1>1. UNCHANGED vars
  BY DEF SpawnWorker, ConsumeResult, RemoveChild, CancelTree, SendToWorker, ClearTarget, dvars
<1>2. Irrevocable /\ RegisteredIsUnanswered'
  BY <1>1, TickIds, UnansweredKeeps DEF QuestionInv, Onward
<1>3. inputs' = inputs
  BY <1>1 DEF vars, coordVars
<1>4. /\ targets' \subseteq targets
      /\ session' = "reply" => session = "reply" /\ replying' = replying
      /\ \A t \in targets' : t \in retracting => t \in retracting'
  BY DEF SpawnWorker, ConsumeResult, RemoveChild, CancelTree, SendToWorker, ClearTarget, dvars,
     sessionVars, flightVars
<1> QED
  BY <1>2, <1>3, <1>4, TargetFacts, AskKeeps

(* Steps of the worker with the retraction of what it dropped. *)
LEMMA RetractingSteps ==
  ASSUME WorkerInv, IdsInv, SessionInv, QuestionInv, Onward, Retract,
         UNCHANGED targets, session' = "reply" => session = "reply" /\ replying' = replying
  PROVE  QuestionInv'
<1>1. Irrevocable /\ RegisteredIsUnanswered'
  BY UnansweredKeeps DEF QuestionInv, Onward
<1>2. \A t \in targets' :
        t \in inputs \/ t \in retracting => t \in inputs' \/ t \in retracting'
  BY DEF Retract
<1> QED
  BY <1>1, <1>2, TargetFacts, AskKeeps

(* A reply reaches a request that was advertised. *)
LEMMA AnswerKeeps ==
  ASSUME WorkerInv, IdsInv, RegisteredIsUnanswered, NEW t \in Turns, NEW reply \in Replies,
         ProvideInput(t, reply), turns[t].phase # "registered"
  PROVE  Irrevocable /\ RegisteredIsUnanswered' /\ inputs' = inputs \ {t}
<1>1. /\ turns'[t].phase = turns[t].phase
      /\ \A u \in Turns : u # t => turns'[u] = turns[u]
  BY IdParts, AnswerFacts DEF ProvideInput
<1> QED
  BY <1>1, ProvideInputIds DEF RegisteredIsUnanswered, ProvideInput

(* The coordinator answers. *)
LEMMA CoordinatorQuestion ==
  ASSUME WorkerInv, IdsInv, SessionInv, QuestionInv,
         NEW t \in InputTurns, NEW reply \in Replies, CoordinatorAnswers(t, reply)
  PROVE  QuestionInv'
<1>1. Irrevocable /\ RegisteredIsUnanswered'
  BY TargetFacts, AnswerKeeps DEF CoordinatorAnswers, QuestionInv
<1>2. /\ targets' = targets /\ session' = session /\ replying' = replying
      /\ \A u \in targets' :
           u \in inputs \/ u \in retracting => u \in inputs' \/ u \in retracting'
  BY DEF CoordinatorAnswers, Retract, sessionVars
<1> QED
  BY <1>1, <1>2, TargetFacts, AskKeeps

(* A user's reply is forwarded ... *)
LEMMA ForwardQuestion ==
  ASSUME WorkerInv, IdsInv, SessionInv, QuestionInv,
         NEW t \in InputTurns, NEW reply \in Replies, ForwardReply(t, reply)
  PROVE  QuestionInv'
<1>1. /\ t \in targets /\ replying'.turn = t
      /\ UNCHANGED <<targets, inputs, turns, retracting>>
  BY DEF ForwardReply, vars, coordVars, envVars, flightVars
<1>2. AdvertisedIsAsked'
  BY <1>1 DEF QuestionInv, AdvertisedIsAsked, Advertised
<1> QED
  BY <1>1, <1>2 DEF QuestionInv, RegisteredIsUnanswered, TargetIsAnswerable

(* ... and acknowledged. *)
LEMMA ReplyQuestion ==
  ASSUME WorkerInv, IdsInv, SessionInv, QuestionInv, ReplyAcknowledged
  PROVE  QuestionInv'
<1>1. /\ session = "reply" /\ session' = "none" /\ targets' \subseteq targets
      /\ retracting' = retracting
  BY DEF ReplyAcknowledged, flightVars
<1>2. CASE UNCHANGED vars
  <2>1. Irrevocable /\ RegisteredIsUnanswered' /\ inputs' = inputs
    BY <1>2, TickIds, UnansweredKeeps DEF QuestionInv, Onward, vars, coordVars
  <2> QED
    BY <1>1, <2>1, TargetFacts, AskKeeps
<1>3. ASSUME NEW t \in InputTurns, NEW reply \in Replies, t = replying.turn,
             ProvideInput(t, reply), targets' = targets \ {t}
      PROVE  QuestionInv'
  <2>1. t \in Turns /\ Advertised(t)
    BY <1>1, <1>3, TargetFacts DEF Advertised
  <2>2. turns[t].phase # "registered"
    BY <2>1 DEF QuestionInv, AdvertisedIsAsked, RegisteredIsUnanswered
  <2>3. Irrevocable /\ RegisteredIsUnanswered' /\ inputs' = inputs \ {t}
    BY <1>3, <2>1, <2>2, AnswerKeeps DEF QuestionInv
  <2> QED
    BY <1>1, <1>3, <2>3, TargetFacts, AskKeeps
<1> QED
  BY <1>2, <1>3, ReplyFacts

(* A request is advertised. *)
LEMMA AdvertiseQuestion ==
  ASSUME WorkerInv, IdsInv, SessionInv, QuestionInv, NEW t \in InputTurns, RecordNeedsInput(t)
  PROVE  QuestionInv'
<1>1. t \in Turns /\ Advertise(t) /\ turns[t].phase = "registered"
  BY TargetFacts DEF RecordNeedsInput, Advertise
<1>2. Onward /\ RegisteredIsUnanswered'
  BY <1>1, TurnStepIds, UnansweredKeeps DEF QuestionInv
<1>3. turns'[t].phase = "waiting"
  BY <1>1, IdParts DEF Advertise
<1>4. /\ inputs' = inputs /\ targets' \subseteq targets \cup {t}
      /\ UNCHANGED <<session, replying, retracting>>
  BY DEF RecordNeedsInput, Advertise, coordVars, flightVars
<1>5. AdvertisedIsAsked'
  <2> SUFFICES ASSUME NEW u \in Turns, Advertised(u)'
               PROVE  \/ turns'[u].phase \in {"waiting", "done", "reported"}
                      \/ turns'[u].answer # NoReply
    BY DEF AdvertisedIsAsked
  <2>1. CASE u = t
    BY <1>3, <2>1
  <2>2. CASE u # t
    <3>1. Advertised(u)
      BY <1>4, <2>2 DEF Advertised
    <3>2. turns[u].phase \in {"waiting", "done", "reported"} \/ turns[u].answer # NoReply
      BY <3>1 DEF QuestionInv, AdvertisedIsAsked
    <3> QED
      BY <1>2, <3>2 DEF Onward, Irrevocable
  <2> QED
    BY <2>1, <2>2
<1>6. TargetIsAnswerable'
  <2>1. t \in inputs \/ turns[t].cancel
    BY <1>1 DEF WorkerInv, ParkedIsAnswerable, QuestionInv, RegisteredIsUnanswered
  <2>2. \A u \in Turns : turns[u].cancel => turns'[u].cancel
    BY <1>2 DEF Onward, Irrevocable
  <2> QED
    BY <1>1, <1>4, <2>1, <2>2, TargetFacts DEF QuestionInv, TargetIsAnswerable
<1> QED
  BY <1>2, <1>5, <1>6 DEF QuestionInv

(* A worker with an open request is not terminal. *)
LEMMA AskersAreRunning ==
  ASSUME WorkerInv, IdsInv, initialized, Terminal(status)
  PROVE  inputs = {}
<1> SUFFICES ASSUME NEW t \in inputs PROVE FALSE
  OBVIOUS
<1>1. t \in Turns /\ Live(t)
  BY IdParts
<1>2. \/ turns[t].phase \in {"registered", "waiting"}
      \/ turns[t].phase = "done" /\ turns[t].kind = "Failed"
  BY DEF IdsInv, AskedIsOpen
<1>3. status = "Running"
  BY <1>1, <1>2 DEF WorkerInv, LiveIsActive, DoneStatus
<1> QED
  BY <1>3 DEF Terminal

(* Messages reach the worker. *)
LEMMA ReceiveQuestion ==
  ASSUME WorkerInv, IdsInv, SessionInv, QuestionInv, ReceivePosted
  PROVE  QuestionInv'
<1>1. UNCHANGED <<targets, session, replying>>
  BY DEF ReceivePosted, sessionVars
<1>2. CASE PostInitialTask /\ retracting' = retracting
  <2>1. inputs = {}
    BY <1>2, IdParts DEF PostInitialTask, WorkerInv, BlankIsEmpty
  <2>2. Onward /\ Irrevocable /\ RegisteredIsUnanswered'
    BY <1>2, MessageIds, UnansweredKeeps DEF Message, QuestionInv, Onward
  <2> QED
    BY <1>1, <1>2, <2>1, <2>2, TargetFacts, AskKeeps
<1>3. CASE PostFollowUp /\ retracting' = retracting
  <2>1. inputs' = inputs
    BY <1>3 DEF PostFollowUp
  <2>2. Onward /\ Irrevocable /\ RegisteredIsUnanswered'
    BY <1>3, MessageIds, UnansweredKeeps DEF Message, QuestionInv, Onward
  <2> QED
    BY <1>1, <1>3, <2>1, <2>2, TargetFacts, AskKeeps
<1>4. CASE UNCHANGED vars /\ retracting' = retracting
  <2>1. Onward /\ Irrevocable /\ RegisteredIsUnanswered' /\ inputs' = inputs
    BY <1>4, TickIds, UnansweredKeeps DEF QuestionInv, Onward, vars, coordVars
  <2> QED
    BY <1>1, <1>4, <2>1, TargetFacts, AskKeeps
<1>5. CASE Cancel /\ Retract
  <2>1. Onward
    BY <1>5, MessageIds
  <2> QED
    BY <1>1, <1>5, <2>1, RetractingSteps
<1> QED
  BY <1>2, <1>3, <1>4, <1>5 DEF ReceivePosted

(* The worker's own steps. *)
LEMMA WorkerQuestion ==
  ASSUME WorkerInv, IdsInv, SessionInv, QuestionInv, WorkerStep
  PROVE  QuestionInv'
<1>1. UNCHANGED <<targets, session, replying>>
  BY DEF WorkerStep, sessionVars
<1>2. CASE /\ \/ \E t \in Turns : TurnStep(t) \/ OutcomeStep(t)
              \/ \E r \in Reviews : ReviewStep(r)
              \/ \E tick \in ticks : LivenessDeadline(tick)
              \/ \E w \in Waiters : AttachWaiter(w) \/ WaitTimesOut(w)
           /\ Retract
  <2>1. Onward
    BY <1>2, TurnStepIds, OutcomeIds, ReviewIds, TickIds DEF Tick
  <2> QED
    BY <1>1, <1>2, <2>1, RetractingSteps
<1>3. ASSUME NEW tick \in ticks, NEW released \in BOOLEAN, Cleanup(tick, released),
             retracting' = retracting
      PROVE  QuestionInv'
  <2>1. Onward /\ Irrevocable /\ RegisteredIsUnanswered'
    BY <1>3, TickIds, UnansweredKeeps DEF Tick, QuestionInv, Onward
  <2>2. inputs' = inputs
    <3>1. CASE Proceeds(tick) /\ ClearAll
      <4>1. initialized /\ Terminal(status)
        BY <3>1 DEF Proceeds, Final, WorkerInv, ReportIsFinal, Reporting
      <4> QED
        BY <3>1, <4>1, AskersAreRunning DEF ClearAll
    <3> QED
      BY <1>3, <3>1 DEF Cleanup, coordVars
  <2> QED
    BY <1>1, <1>3, <2>1, <2>2, TargetFacts, AskKeeps
<1> QED
  BY <1>2, <1>3 DEF WorkerStep

(* The Session answers the worker, or has cancelled it. *)
LEMMA RecordQuestion ==
  ASSUME WorkerInv, IdsInv, SessionInv, QuestionInv,
         RecordTerminal \/ RecordStale \/ TreeCancelled
  PROVE  QuestionInv'
<1>1. CASE RecordTerminal \/ RecordStale
  <2>1. Onward /\ Irrevocable /\ RegisteredIsUnanswered'
    BY <1>1, TickIds, UnansweredKeeps DEF RecordTerminal, RecordStale, QuestionInv, Onward
  <2>2. UNCHANGED <<inputs, targets, session, replying, retracting>>
    BY <1>1 DEF RecordTerminal, RecordStale, ParentAcknowledges, ParentRefuses, StaleRecorded,
       coordVars, sessionVars, flightVars
  <2> QED
    BY <2>1, <2>2, TargetFacts, AskKeeps
<1>2. CASE TreeCancelled
  <2>1. Onward
    BY <1>2, MessageIds DEF TreeCancelled
  <2> QED
    BY <1>2, <2>1, RetractingSteps DEF TreeCancelled
<1> QED
  BY <1>1, <1>2

(* Every step keeps the questions. *)
LEMMA QuestionStep ==
  WorkerInv /\ IdsInv /\ SessionInv /\ QuestionInv /\ [DNext]_dvars => QuestionInv'
BY SilentSteps, CoordinatorQuestion, ForwardQuestion, ReplyQuestion, AdvertiseQuestion,
   ReceiveQuestion, WorkerQuestion, RecordQuestion DEF DNext

--------------------------------------------------------------------------------
(* The pair.                                                                    *)

PairInv == WorkerInv /\ IdsInv /\ SessionInv /\ QuestionInv

(* The invariant of a Session and its worker, over every interleaving of their
   handlers, turns, detached messages and deadlines. *)
THEOREM PairSafe == DSpec => []PairInv
<1>1. DInit => PairInv
  BY PairInit, InitInv, IdsInit DEF PairInv
<1>2. PairInv /\ [DNext]_dvars => PairInv'
  BY PairStep, NextInv, IdsStep, SessionStep, QuestionStep DEF PairInv
<1> QED
  BY <1>1, <1>2, PTL DEF DSpec

(* Served by a Session, a worker behaves as module Worker says: the Session answers
   its calls as that module assumes of it, and all that is proved of a worker holds
   of a delegated one. *)
THEOREM PairRunsTheWorker == DSpec => Spec
<1>1. DInit => Init
  BY PairInit
<1>2. PairInv /\ [DNext]_dvars => [Next]_vars
  BY PairStep DEF PairInv
<1> QED
  BY <1>1, <1>2, PairSafe, PTL DEF DSpec, Spec

(* record_worker_child_terminal: a report that a worker delivers is newer than all
   the Session has acknowledged; the delivery fence never drops it as a duplicate. *)
THEOREM DeliverySafe == DSpec => []DeliveryIsNew
<1>1. PairInv => DeliveryIsNew
  BY DEF PairInv, WorkerInv, ReportIsFinal, Reporting, SessionInv, FenceFollows, DeliveryIsNew
<1> QED
  BY <1>1, PairSafe, PTL

(* A report the worker holds acknowledged is cached with the Session or was
   consumed: neither a cleanup nor a signal nor a cancellation loses it. *)
THEOREM AcknowledgedSafe == DSpec => []AcknowledgedIsKept
<1>1. PairInv => AcknowledgedIsKept
  BY DEF PairInv, SessionInv
<1> QED
  BY <1>1, PairSafe, PTL

(* reserve_and_start_child registers before it posts: no first report is refused. *)
THEOREM AcceptedSafe == DSpec => []FirstReportIsAccepted
<1>1. PairInv => FirstReportIsAccepted
  BY DEF PairInv, SessionInv
<1> QED
  BY <1>1, PairSafe, PTL

(* retract_session_input_targets: what a user may answer is open at the worker, on
   its way to be retracted, or of a turn that was cancelled. *)
THEOREM TargetSafe == DSpec => []TargetIsAnswerable
<1>1. PairInv => TargetIsAnswerable
  BY DEF PairInv, QuestionInv
<1> QED
  BY <1>1, PairSafe, PTL
================================================================================
