------------------------------- MODULE WorkerFanIn ------------------------------
(***************************************************************************)
(* The Session's fan-in of its workers: which reports are cached, and when *)
(* an idle coordinator is woken because all of them are in                 *)
(* (WorkerFanInState and the child registry of the Session:                *)
(* objects/session/state/workers.rs, handlers/workers.rs).                 *)
(*                                                                         *)
(* Every worker follows module WorkerLife, which module Worker implements. *)
(* A report may arrive twice; the delivery fences are there for that.      *)
(***************************************************************************)
EXTENDS Sequences, FiniteSets, Naturals

CONSTANTS
  Children,     \* ids of the workers a session may spawn
  MaxFences,    \* MAX_WORKER_TERMINAL_DELIVERY_FENCES
  MaxAdmissions \* bound: parent messages per worker

ASSUME FanInAssumption == MaxFences \in Nat \ {0} /\ MaxAdmissions \in Nat \ {0}

VARIABLES
  children,    \* children
  terminal,    \* the cached terminal state of each child, "none" without one
  fan,         \* generation, settled_generation and failure_generation
  deliveries,  \* terminal_deliveries, oldest first
  busy,        \* a coordinator turn is active
  lives,       \* the workers
  result,      \* how the current generation of a worker ended
  wakes        \* the fan-in generations of the FanInSettled signals recorded

fvars == <<children, terminal, fan, deliveries, busy, lives, result, wakes>>

Terminals == {"Completed", "Cancelled", "Failed"}

FInit ==
  /\ children = {} /\ terminal = [c \in Children |-> "none"]
  /\ fan = [generation |-> 0, settled |-> 0, failure |-> 0]
  /\ deliveries = <<>> /\ busy = FALSE
  /\ lives = [c \in Children |-> [phase |-> "new", generation |-> 0]]
  /\ result = [c \in Children |-> "none"]
  /\ wakes = <<>>

--------------------------------------------------------------------------------
(* Workers.                                                                   *)

(* The steps of a life; each worker takes its own. *)
Life == INSTANCE WorkerLife WITH life <- lives

Become(c, l) == lives' = [lives EXCEPT ![c] = l]

(* message_worker: the coordinator messages a child it owns. *)
MessageWorker(c) ==
  /\ c \in children
  /\ lives[c].phase \in {"working", "reported"}
  /\ lives[c].generation < MaxAdmissions
  /\ Become(c, Life!Messaged(lives[c]))
  /\ UNCHANGED <<children, terminal, fan, deliveries, busy, result, wakes>>

(* The worker settles and begins its report. *)
WorkerReports(c, state) ==
  /\ lives[c].phase = "working"
  /\ Become(c, Life!Moved(lives[c], "reporting"))
  /\ result' = [result EXCEPT ![c] = state]
  /\ UNCHANGED <<children, terminal, fan, deliveries, busy, wakes>>

(* The self-cleanup of an acknowledged worker. *)
WorkerCleared(c) ==
  /\ lives[c].phase = "reported"
  /\ Become(c, Life!Cleared)
  /\ UNCHANGED <<children, terminal, fan, deliveries, busy, result, wakes>>

--------------------------------------------------------------------------------
(* The Session's handlers.                                                    *)

(* Mutant: a registration always lifts the suppression. *)
FailureAfterReset(gen) == 0

(* A failed report that is still cached suppresses the new generation too. *)
FailureAfterRegister(gen) ==
  IF \E c \in children : terminal[c] = "Failed" THEN gen ELSE 0

(* register_child, then the task is posted to the new worker. *)
RegisterChild(c) ==
  /\ lives[c].phase = "new"
  /\ children' = children \cup {c}
  /\ fan' = [fan EXCEPT !.generation = @ + 1,
                        !.failure = FailureAfterRegister(fan.generation + 1)]
  /\ Become(c, Life!Messaged(lives[c]))
  /\ UNCHANGED <<terminal, deliveries, busy, result, wakes>>

(* What the registry keeps once c has left it. *)
Forget(c) ==
  /\ children' = children \ {c}
  /\ terminal' = [terminal EXCEPT ![c] = "none"]
  /\ UNCHANGED <<fan, deliveries, busy, lives, result, wakes>>

(* consume_child_terminal: wait_worker takes the cached report. *)
ConsumeChild(c) == c \in children /\ terminal[c] # "none" /\ Forget(c)

(* remove_child, sent by the cleanup of the worker. *)
RemoveChild(c) == c \in children /\ lives[c].phase = "cleared" /\ Forget(c)

(* cancel(TaskTree): suppress_current_generation. *)
SuppressGeneration ==
  /\ fan' = [fan EXCEPT !.failure = fan.generation]
  /\ UNCHANGED <<children, terminal, deliveries, busy, lives, result, wakes>>

(* A coordinator turn starts or ends. *)
CoordinatorMoves ==
  /\ busy' = ~busy
  /\ UNCHANGED <<children, terminal, fan, deliveries, lives, result, wakes>>

(* The delivery fence has seen this generation of the worker, or a newer one. *)
Duplicate(c) ==
  \E i \in 1..Len(deliveries) :
    deliveries[i].child = c /\ deliveries[i].generation >= lives[c].generation

(* The places of the worker's fence, at most one. *)
Places(c) == {i \in 1..Len(deliveries) : deliveries[i].child = c}

(* The fences of the other workers, in their order. *)
OtherDeliveries(c) ==
  IF Places(c) = {}
  THEN deliveries
  ELSE LET i == CHOOSE i \in Places(c) : TRUE
       IN SubSeq(deliveries, 1, i - 1) \o SubSeq(deliveries, i + 1, Len(deliveries))

AllDeliveries(c) ==
  Append(OtherDeliveries(c), [child |-> c, generation |-> lives[c].generation])

(* The fence of the worker is replaced; over the bound the oldest goes. *)
DeliveriesAfter(c) ==
  IF Len(AllDeliveries(c)) > MaxFences THEN Tail(AllDeliveries(c)) ELSE AllDeliveries(c)

(* Every child has a cached report once that of c is in. *)
AllSettled(c) == \A d \in children \ {c} : terminal[d] # "none"

(* Mutant: a settled generation may settle again. *)
SettlesAgain == TRUE

NotYetSettled == fan.settled # fan.generation

(* Mutant: a suppressed generation is left unsettled. *)
SettledUnlessFailed(failure) ==
  IF failure = fan.generation THEN fan.settled ELSE fan.generation

SettledNow(failure) == fan.generation

(* record_terminal and the signal of worker_terminal_signal: a duplicate changes
   nothing.  A signal may start a resume turn when the coordinator is idle. *)
RecordTerminal(c) ==
  LET failed  == result[c] = "Failed"
      failure == IF failed THEN fan.generation ELSE fan.failure
      settles == AllSettled(c) /\ NotYetSettled
      wake    == settles /\ failure # fan.generation /\ ~busy
  IN IF Duplicate(c)
     THEN UNCHANGED <<terminal, deliveries, fan, wakes, busy>>
     ELSE /\ terminal' = [terminal EXCEPT ![c] = result[c]]
          /\ deliveries' = DeliveriesAfter(c)
          /\ fan' = [fan EXCEPT !.failure = failure,
                                !.settled = IF settles THEN SettledNow(failure) ELSE @]
          /\ wakes' = IF wake THEN Append(wakes, fan.generation) ELSE wakes
          /\ busy' \in IF failed \/ wake THEN {busy, TRUE} ELSE {busy}

(* record_worker_child_terminal, and the worker's step on its answer: the report,
   that of a worker no longer registered, and the same report once more. *)
RecordWorkerChildTerminal(c) ==
  /\ \/ /\ lives[c].phase = "reporting" /\ c \in children
        /\ RecordTerminal(c)
        /\ Become(c, Life!Moved(lives[c], "reported"))
     \/ /\ lives[c].phase = "reporting" /\ c \notin children
        /\ Become(c, Life!Moved(lives[c], "working"))
        /\ UNCHANGED <<terminal, deliveries, fan, wakes, busy>>
     \/ /\ lives[c].phase = "reported" /\ c \in children
        /\ RecordTerminal(c)
        /\ UNCHANGED lives
  /\ UNCHANGED <<children, result>>

FNext ==
  \/ \E c \in Children :
       \/ MessageWorker(c)
       \/ \E state \in Terminals : WorkerReports(c, state)
       \/ WorkerCleared(c)
       \/ RegisterChild(c)
       \/ ConsumeChild(c)
       \/ RemoveChild(c)
       \/ RecordWorkerChildTerminal(c)
  \/ SuppressGeneration
  \/ CoordinatorMoves

FSpec == FInit /\ [][FNext]_fvars

--------------------------------------------------------------------------------
(* Properties.                                                                *)

(* Every variable has its type. *)
FTypeOK ==
  /\ children \subseteq Children
  /\ terminal \in [Children -> Terminals \cup {"none"}]
  /\ fan \in [generation : Nat, settled : Nat, failure : Nat]
  /\ deliveries \in Seq([child : Children, generation : Nat])
  /\ Len(deliveries) <= MaxFences
  /\ busy \in BOOLEAN
  /\ lives \in [Children -> [phase : {"new", "working", "reporting", "reported", "cleared"},
                             generation : Nat]]
  /\ result \in [Children -> Terminals \cup {"none"}]
  /\ wakes \in Seq(Nat)

(* An idle coordinator is woken at most once for a set of registered workers,
   also when workers of the set are revived and report again. *)
OneWakePerGeneration ==
  \A i, j \in 1..Len(wakes) : wakes[i] = wakes[j] => i = j

(* A set of children whose reports are all in has been observed as settled: no
   registration, consumption, cleanup or cancellation makes the fan-in miss it. *)
AllTerminalIsSettled ==
  children # {} /\ (\A c \in children : terminal[c] # "none") =>
    fan.settled = fan.generation

(* No coordinator is woken with "all settled" over a child that has not reported
   or whose failure it has not yet read. *)
WakeIsEarned ==
  [][wakes' # wakes => \A c \in children' : terminal'[c] \in {"Completed", "Cancelled"}]_fvars

(* "`FanInSettled` is valid only after every child in the current registration
   generation is terminal": no child is at work when the wake is recorded. *)
WakeFindsAllFinished ==
  [][wakes' # wakes => \A c \in children' : lives'[c].phase # "working"]_fvars
================================================================================
