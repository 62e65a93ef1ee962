--------------------------- MODULE MessageAdmissions ---------------------------
(***************************************************************************)
(* The exactly-once admission fence of one session key, as operators on    *)
(* the durable projection SessionMessageAdmissions of                      *)
(* crates/moa-orchestrator/src/objects/session/message_admission.rs.       *)
(*                                                                         *)
(* The vector of entries is a function from client message id to entry:    *)
(* an entry is pushed only after lookup found none for the id.  The        *)
(* request hash and the replayed response are left out: a lookup that      *)
(* finds an entry changes nothing, whichever of the two answers it gives.  *)
(***************************************************************************)
EXTENDS Naturals, Sequences

CONSTANTS Messages,     \* client message ids
          MaxRetained,  \* MAX_RETAINED_TERMINAL_ADMISSIONS
          Retention     \* TERMINAL_ADMISSION_RETENTION, in clock ticks

ASSUME RetainedAssumption == MaxRetained \in Nat

ASSUME RetentionAssumption == Retention \in Nat

Absent == [state |-> "absent", turn |-> 0, at |-> 0, ordinal |-> 0]

QueuedEntry == [Absent EXCEPT !.state = "queued"]

RunningEntry(turn) == [Absent EXCEPT !.state = "running", !.turn = turn]

TerminalEntry(now, ordinal) ==
  [Absent EXCEPT !.state = "terminal", !.at = now, !.ordinal = ordinal]

NoAdmissions == [entries |-> [m \in Messages |-> Absent], nextOrdinal |-> 0]

Fresh(a, message) == a.entries[message].state = "absent"

(* Mutant: the window applies to every admission. *)
ExpiredInAnyState(a, message, now) ==
  LET e == a.entries[message]
  IN  /\ e.state # "absent"
      /\ \/ now >= e.at + Retention
         \/ a.nextOrdinal >= e.ordinal + 1 + MaxRetained

(* Terminal admissions past the age or the count window are dropped; queued
   and running ones never are. *)
Expired(a, message, now) ==
  LET e == a.entries[message]
  IN  /\ e.state = "terminal"
      /\ \/ now >= e.at + Retention
         \/ a.nextOrdinal >= e.ordinal + 1 + MaxRetained

EvictExpired(a, now) ==
  [a EXCEPT !.entries =
     [m \in Messages |-> IF Expired(a, m, now) THEN Absent ELSE @[m]]]

RecordQueued(a, message, now) ==
  EvictExpired([a EXCEPT !.entries[message] = QueuedEntry], now)

RecordRunning(a, message, turn, now) ==
  EvictExpired([a EXCEPT !.entries[message] = RunningEntry(turn)], now)

(* A delivered reply is terminal at admission time. *)
RecordTerminal(a, message, now) ==
  EvictExpired([entries     |-> [a.entries EXCEPT ![message] =
                                   TerminalEntry(now, a.nextOrdinal)],
                nextOrdinal |-> a.nextOrdinal + 1], now)

MarkRunning(a, message, turn) ==
  IF Fresh(a, message) THEN a
  ELSE [a EXCEPT !.entries[message] = RunningEntry(turn)]

OwnsTurn(a, message, turn) == a.entries[message] = RunningEntry(turn)

MarkTerminalForTurn(a, turn, now) ==
  IF \E m \in Messages : OwnsTurn(a, m, turn)
  THEN EvictExpired(
         [entries     |-> [m \in Messages |->
                             IF OwnsTurn(a, m, turn)
                             THEN TerminalEntry(now, a.nextOrdinal)
                             ELSE a.entries[m]],
          nextOrdinal |-> a.nextOrdinal + 1], now)
  ELSE a

(* The ordinal of the message at position i of the rejected queue. *)
RejectionOrdinal(a, i) == a.nextOrdinal + i - 1

(* reject_queued_messages: one mark_terminal_for_message per queued message,
   in queue order, with no eviction. *)
MarkRejected(a, queue, now) ==
  [entries     |-> [m \in Messages |->
                      IF /\ \E i \in 1..Len(queue) : queue[i].message = m
                         /\ ~ Fresh(a, m)
                      THEN TerminalEntry(now, RejectionOrdinal(a,
                             CHOOSE i \in 1..Len(queue) : queue[i].message = m))
                      ELSE a.entries[m]],
   nextOrdinal |-> a.nextOrdinal + Len(queue)]
================================================================================
