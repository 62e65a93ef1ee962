------------------------------- MODULE Delegation -------------------------------
(***************************************************************************)
(* A Session and one worker it delegated to: the Worker virtual object of  *)
(* module Worker, the part of the Session virtual object that serves it    *)
(* (objects/session/handlers/workers.rs, handlers/lifecycle.rs and         *)
(* handlers/turns/replies.rs), and the coordinator tools that connect them *)
(* (delegation.rs).                                                        *)
(*                                                                         *)
(* Each side is a single-writer key.  A call that one side awaits in an    *)
(* exclusive handler is two steps, and `session` and `suspended` say who   *)
(* waits; a detached send is a member of a set of messages in flight.      *)
(***************************************************************************)
EXTENDS Worker

VARIABLES
  \* SessionVoState and WorkerFanInState, as far as they concern the worker
  owned,      \* the worker is in children
  cached,     \* the generation of its cached terminal, 0 for none
  fence,      \* its terminal_deliveries entry, 0 for none
  targets,    \* pending_user_reply_targets of the worker, by turn
  session,    \* the Session handler that awaits the worker
  replying,   \* the reply it forwards
  \* detached sends in flight
  posted,     \* to the worker: "task", "followUp", "cancel"
  retracting, \* clear_worker_input_targets, by turn
  removing,   \* remove_child
  consumed    \* generations whose cached terminal a coordinator consumed

sessionVars == <<owned, cached, fence, targets, session, replying>>

flightVars == <<posted, retracting, removing, consumed>>

dvars == <<vars, sessionVars, flightVars>>

NoReplying == [turn |-> NoTurn, reply |-> NoReply]

DInit ==
  /\ Init
  /\ owned = FALSE /\ cached = 0 /\ fence = 0 /\ targets = {}
  /\ session = "none" /\ replying = NoReplying
  /\ posted = {} /\ retracting = {} /\ removing = FALSE /\ consumed = {}

SessionFree == session = "none"

--------------------------------------------------------------------------------
(* The coordinator's tools (delegation.rs).                                   *)

(* Mutant: the input requests a worker drops stay advertised. *)
RetractNothing == retracting' = retracting

(* retract_session_input_targets: the detached retraction of what was cleared. *)
Retract == retracting' = retracting \cup (inputs \ inputs')

(* Mutant: the task is posted to a worker the Session does not know. *)
NotRegistered == owned' = FALSE

(* register_child: awaited before the task is posted. *)
RegisterChild == owned' = TRUE

(* spawn: reserve_and_start_child. *)
SpawnWorker ==
  /\ SessionFree /\ ~spawned /\ "task" \notin posted
  /\ RegisterChild
  /\ posted' = posted \cup {"task"}
  /\ UNCHANGED <<vars, cached, fence, targets, session, replying, retracting,
                 removing, consumed>>

(* message_worker and cancel_worker check the ownership and send. *)
SendToWorker(what) ==
  /\ owned /\ spawned /\ what \in {"followUp", "cancel"} /\ what \notin posted
  /\ posted' = posted \cup {what}
  /\ UNCHANGED <<vars, sessionVars, retracting, removing, consumed>>

HasResult == cached # 0

(* wait_worker: consume_child_result answers with the cached terminal and the
   Session forgets the child. *)
ConsumeResult ==
  /\ SessionFree /\ HasResult
  /\ consumed' = consumed \cup {cached}
  /\ owned' = FALSE
  /\ cached' = 0
  /\ UNCHANGED <<vars, fence, targets, session, replying, posted, retracting, removing>>

(* provide_worker_input: the coordinator knows the request from the signal. *)
CoordinatorAnswers(t, reply) ==
  /\ owned /\ turns[t].phase # "registered"
  /\ ProvideInput(t, reply)
  /\ Retract
  /\ UNCHANGED <<sessionVars, posted, removing, consumed>>

--------------------------------------------------------------------------------
(* Detached messages reach the worker.                                       *)

ReceivePosted ==
  \/ /\ "task" \in posted /\ PostInitialTask
     /\ posted' = posted \ {"task"}
     /\ UNCHANGED <<sessionVars, retracting, removing, consumed>>
  \/ /\ "followUp" \in posted /\ PostFollowUp
     /\ posted' = posted \ {"followUp"}
     /\ UNCHANGED <<sessionVars, retracting, removing, consumed>>
  \/ /\ "followUp" \in posted /\ Free /\ ~initialized  \* rejected
     /\ posted' = posted \ {"followUp"}
     /\ UNCHANGED <<vars, sessionVars, retracting, removing, consumed>>
  \/ /\ "cancel" \in posted /\ Cancel
     /\ posted' = posted \ {"cancel"}
     /\ Retract
     /\ UNCHANGED <<sessionVars, removing, consumed>>

(* What the worker does on its own.  release_and_clear_worker sends
   remove_child; the forced clear does not. *)
WorkerStep ==
  \/ /\ \/ \E t \in Turns : TurnStep(t) \/ OutcomeStep(t)
        \/ \E r \in Reviews : ReviewStep(r)
        \/ \E tick \in ticks : LivenessDeadline(tick)
        \/ \E w \in Waiters : AttachWaiter(w) \/ WaitTimesOut(w)
     /\ Retract
     /\ UNCHANGED <<sessionVars, posted, removing, consumed>>
  \/ \E tick \in ticks, released \in BOOLEAN :
       /\ Cleanup(tick, released)
       /\ removing' = (removing \/ (released /\ Proceeds(tick)))
       /\ UNCHANGED <<sessionVars, posted, retracting, consumed>>

--------------------------------------------------------------------------------
(* Calls of the worker and of its turns that the Session serves.              *)

(* Mutant: the first cached result is kept. *)
CacheFirst == IF cached = 0 THEN generation ELSE cached

(* record_terminal of the fan-in state caches a generation newer than the fence. *)
CacheAfter == IF fence < generation THEN generation ELSE cached

FenceAfter == IF fence < generation THEN generation ELSE fence

(* record_worker_child_terminal.  An unknown child is an error; a generation
   the fence has seen is a duplicate, acknowledged and not cached. *)
RecordTerminal ==
  /\ SessionFree
  /\ \/ /\ owned
        /\ ParentAcknowledges
        /\ cached' = CacheAfter
        /\ fence' = FenceAfter
     \/ /\ ~owned
        /\ ParentRefuses
        /\ UNCHANGED <<cached, fence>>
  /\ UNCHANGED <<owned, targets, session, replying, flightVars>>

(* record_child_signal, HeartbeatStale. *)
RecordStale == SessionFree /\ StaleRecorded /\ UNCHANGED <<sessionVars, flightVars>>

(* record_child_signal, NeedsInput with the user as audience: the request is
   advertised.  The signal of a worker that is not a child is ignored. *)
RecordNeedsInput(t) ==
  /\ SessionFree /\ Advertise(t)
  /\ targets' = IF owned THEN targets \cup {t} ELSE targets
  /\ UNCHANGED <<owned, cached, fence, session, replying, flightVars>>

(* clear_worker_input_targets *)
ClearTarget(t) ==
  /\ SessionFree /\ t \in retracting
  /\ retracting' = retracting \ {t}
  /\ targets' = targets \ {t}
  /\ UNCHANGED <<vars, owned, cached, fence, session, replying, posted, removing,
                 consumed>>

(* remove_child stores what it dropped only when the worker was still a child. *)
RemoveChild ==
  /\ SessionFree /\ removing
  /\ removing' = FALSE
  /\ owned' = FALSE
  /\ cached' = IF owned THEN 0 ELSE cached
  /\ targets' = IF owned THEN {} ELSE targets
  /\ UNCHANGED <<vars, fence, session, replying, posted, retracting, consumed>>

--------------------------------------------------------------------------------
(* Session handlers that await the worker.                                    *)

(* cancel(TaskTree) retracts the targets of its children ... *)
CancelTree ==
  /\ SessionFree /\ owned
  /\ targets' = {}
  /\ session' = "cancel"
  /\ UNCHANGED <<vars, owned, cached, fence, replying, flightVars>>

(* ... and awaits their cancellation. *)
TreeCancelled ==
  /\ session = "cancel"
  /\ Cancel
  /\ Retract
  /\ session' = "none"
  /\ UNCHANGED <<owned, cached, fence, targets, replying, posted, removing, consumed>>

(* post_message forwards a user's reply to an advertised target ... *)
ForwardReply(t, reply) ==
  /\ SessionFree /\ t \in targets
  /\ session' = "reply"
  /\ replying' = [turn |-> t, reply |-> reply]
  /\ UNCHANGED <<vars, owned, cached, fence, targets, flightVars>>

(* ... and awaits the acknowledgement of provide_input; an applied or replayed
   reply clears the target, and a cleared worker answers with an error. *)
ReplyAcknowledged ==
  LET t   == replying.turn
      ack == Acknowledgement(t, replying.reply)
  IN /\ session = "reply" /\ Free
     /\ IF ack = "Applied" THEN ProvideInput(t, replying.reply) ELSE UNCHANGED vars
     /\ targets' = IF ack # "Conflict" THEN targets \ {t} ELSE targets
     /\ session' = "none"
     /\ replying' = NoReplying
     /\ UNCHANGED <<owned, cached, fence, flightVars>>

--------------------------------------------------------------------------------

DNext ==
  \/ SpawnWorker
  \/ \E what \in {"followUp", "cancel"} : SendToWorker(what)
  \/ ConsumeResult
  \/ \E t \in InputTurns, reply \in Replies :
       CoordinatorAnswers(t, reply) \/ ForwardReply(t, reply)
  \/ ReceivePosted
  \/ WorkerStep
  \/ RecordTerminal
  \/ RecordStale
  \/ \E t \in InputTurns : RecordNeedsInput(t) \/ ClearTarget(t)
  \/ RemoveChild
  \/ CancelTree
  \/ TreeCancelled
  \/ ReplyAcknowledged

DSpec == DInit /\ [][DNext]_dvars

--------------------------------------------------------------------------------
(* Properties.                                                                *)

(* Every variable of the Session's side has its type. *)
DTypeOK ==
  /\ owned \in BOOLEAN
  /\ cached \in 0..MaxGeneration /\ fence \in 0..MaxGeneration
  /\ targets \subseteq InputTurns /\ retracting \subseteq InputTurns
  /\ session \in {"none", "cancel", "reply"}
  /\ replying \in [turn : InputTurns \cup {NoTurn}, reply : Replies \cup {NoReply}]
  /\ posted \subseteq {"task", "followUp", "cancel"}
  /\ removing \in BOOLEAN
  /\ consumed \subseteq 1..MaxGeneration

(* The report a worker is delivering is news to the Session's delivery fence: it
   is never taken for the duplicate of an earlier one and dropped. *)
DeliveryIsNew == suspended = "deliver" /\ owned => fence < generation

(* A report the worker holds acknowledged is cached with the Session or has been
   consumed by a coordinator: no cleanup, signal or cancellation loses it while
   the worker exists. *)
AcknowledgedIsKept ==
  initialized /\ delivered =>
    fence = generation /\ (cached = generation \/ generation \in consumed)

(* The Session refuses a report only after a coordinator consumed an earlier one
   of the same worker: the first report always finds its child registered. *)
FirstReportIsAccepted == refused # {} => consumed # {}

(* A target a user can answer belongs to a request the worker still holds, or
   its retraction is on the way, unless the turn that asked was cancelled. *)
TargetIsAnswerable ==
  \A t \in targets : t \in inputs \/ t \in retracting \/ turns[t].cancel

(* "An advertised target can never outlive the awakeable behind it": the same
   with no exception, as the comment on retract_session_input_targets has it. *)
TargetNeverOutlives ==
  \A t \in targets : t \in inputs \/ t \in retracting \/ Live(t)

(* "Calling back into its single-writer queue while it waits on this call would
   deadlock": a Session handler never awaits the worker while a handler of the
   worker awaits the Session. *)
NoMutualWait == session = "none" \/ suspended = "none"

(* "Terminal worker results are cached on the session until consumed": a cached
   result only gives way to a newer one or to its consumer. *)
CachedUntilConsumed ==
  [][cached' # cached /\ cached # 0 => cached' > cached \/ cached \in consumed']_dvars
================================================================================
