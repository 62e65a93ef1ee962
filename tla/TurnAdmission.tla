----------------------------- MODULE TurnAdmission -----------------------------
(***************************************************************************)
(* Shared fleet and tenant admission of coordinator turns: TurnAdmission   *)
(* of crates/moa-orchestrator/src/objects/session/admission.rs on the      *)
(* bounded leases of crates/moa-runtime-store (memory.rs and the Lua       *)
(* scripts of redis.rs, which do the same).                                *)
(*                                                                         *)
(* Many sessions compete.  Each call to the store is atomic and each       *)
(* session makes its calls one at a time, because an exclusive handler     *)
(* holds the session key; calls of different sessions interleave, and time *)
(* passes between any two.  One ctx.run closure makes several calls: a     *)
(* crash in the middle runs the closure again from its first call.         *)
(*                                                                         *)
(* A lease is modelled by the time it has left, 0 when it is absent or     *)
(* expired: every operation of the store prunes expired leases first.      *)
(***************************************************************************)
EXTENDS Integers, FiniteSets

CONSTANTS
  Sessions,     \* session ids, which are the lease ids
  TenantOf,     \* the tenant of every session
  FleetLimit,   \* session_limits.turn_admission_fleet_limit
  TenantLimit,  \* session_limits.turn_admission_tenant_limit
  LeaseTtl,     \* session_limits.turn_admission_lease_ttl_ms, in ticks
  Timely,       \* whether heartbeats and store calls are timely
  MaxLate,      \* the most ticks a timely renewal ends after it is due
  MaxStep,      \* the most ticks a timely attempt takes between its two calls
  MaxCrashes    \* bound: crashes inside a closure

ASSUME SessionsAssumption == IsFiniteSet(Sessions)

ASSUME LimitsAssumption == FleetLimit \in Nat \ {0} /\ TenantLimit \in Nat \ {0}

ASSUME TtlAssumption == LeaseTtl \in Nat \ {0}

ASSUME TimelyType == Timely \in BOOLEAN

ASSUME BoundsAssumption ==
  /\ MaxLate \in Nat
  /\ MaxStep \in Nat
  /\ MaxCrashes \in Nat

(* heartbeat_interval_ms *)
HeartbeatInterval == IF LeaseTtl \div 3 > 1 THEN LeaseTtl \div 3 ELSE 1

(* What timeliness has to mean: a renewal is over before the lease it renews,
   which began up to MaxStep ticks before the heartbeat was armed. *)
ASSUME TimelyAssumption ==
  Timely => HeartbeatInterval + MaxLate + MaxStep < LeaseTtl

VARIABLES
  fleet,    \* the fleet lease set: time left by session
  tenant,   \* the tenant lease sets: time left by session
  turn,     \* what the session does, one of Turns
  call,     \* the next store call of the handler that holds the key, or "none"
  armed,    \* the sessions with a scheduled heartbeat of the current generation
  age,      \* ticks since it was scheduled
  step,     \* ticks since the fleet lease of the current attempt was granted
  crashes

vars == <<fleet, tenant, turn, call, armed, age, step, crashes>>

(* "new" and "idle": no turn, before and after the first one; "expiring": no
   turn, but leases that only the TTL reclaims; "running": a turn that admission
   let in; "unleased": a turn dispatched without asking admission; "parked": the
   turn waits for the user; "synthesis": a synthesis turn that replaced a parked
   one and runs with the park marker still set; "gone": destroyed. *)
Turns == {"new", "idle", "expiring", "running", "unleased", "parked", "synthesis",
          "gone"}

Calls == {"none", "tryFleet", "tryTenant", "undoFleet", "releaseFleet",
          "releaseTenant"}

Init ==
  /\ fleet = [s \in Sessions |-> 0]
  /\ tenant = [s \in Sessions |-> 0]
  /\ turn = [s \in Sessions |-> "new"]
  /\ call = [s \in Sessions |-> "none"]
  /\ armed = {}
  /\ age = [s \in Sessions |-> 0]
  /\ step = [s \in Sessions |-> 0]
  /\ crashes = 0

--------------------------------------------------------------------------------
(* The bounded lease sets.                                                    *)

(* The sessions of the tenant of s. *)
Cohort(s) == {x \in Sessions : TenantOf[x] = TenantOf[s]}

Live(leases) == {s \in Sessions : leases[s] > 0}

(* Mutant: the limit is compared after the fact. *)
HasRoomInclusive(others, limit) == Cardinality(others) <= limit

HasRoom(others, limit) == Cardinality(others) < limit

(* try_acquire_bounded_lease: a lease that exists is renewed, a new one needs
   room. *)
Granted(leases, scope, s, limit) ==
  leases[s] > 0 \/ HasRoom(Live(leases) \cap scope, limit)

(* Mutant: a lease that exists keeps its deadline. *)
RenewOnlyAbsent(leases, s) == [leases EXCEPT ![s] = IF @ > 0 THEN @ ELSE LeaseTtl]

Renew(leases, s) == [leases EXCEPT ![s] = LeaseTtl]

(* Mutant: the lease set keeps the lease. *)
NotDropped(leases, s) == leases

(* release_bounded_lease *)
Drop(leases, s) == [leases EXCEPT ![s] = 0]

(* Mutant: expired leases are never pruned. *)
NeverPruned(leases) == leases

Elapse(leases) == [s \in Sessions |-> IF leases[s] > 0 THEN leases[s] - 1 ELSE 0]

--------------------------------------------------------------------------------
(* The handlers of one session that call TurnAdmission.                       *)

Holds(s) == call[s] # "none"

Calling(s, next) == call' = [call EXCEPT ![s] = next]

Becomes(s, next) == turn' = [turn EXCEPT ![s] = next]

(* turn_admission_is_live: a turn is active and no park marker is set. *)
IsLive(s) == turn[s] \in {"running", "unleased"}

(* The scheduled heartbeat no longer counts: its generation has moved on. *)
Disarm(s) ==
  /\ armed' = armed \ {s}
  /\ age' = [age EXCEPT ![s] = 0]

(* The handlers that ask admission before they dispatch from idle: start_turn, a
   child resume, and execution_terminal of a session without a turn. *)
StartTurn(s) ==
  /\ ~Holds(s) /\ turn[s] \in {"new", "idle", "expiring"}
  /\ Calling(s, "tryFleet")
  /\ UNCHANGED <<fleet, tenant, turn, armed, age, step, crashes>>

(* resolve_action_review and release_action_review of an idle session dispatch a
   continuation of an earlier turn: nothing is acquired and nothing is armed. *)
ContinueReview(s) ==
  /\ ~Holds(s) /\ turn[s] \in {"idle", "expiring"}
  /\ Becomes(s, "unleased")
  /\ UNCHANGED <<fleet, tenant, call, armed, age, step, crashes>>

(* execution_terminal while a turn is active: the synthesis turn takes its place
   after an acquire, but a park marker stays. *)
Synthesize(s) ==
  /\ ~Holds(s) /\ turn[s] \in {"running", "unleased", "parked", "synthesis"}
  /\ Becomes(s, IF turn[s] = "parked" THEN "synthesis" ELSE turn[s])
  /\ Calling(s, "tryFleet")
  /\ UNCHANGED <<fleet, tenant, armed, age, step, crashes>>

(* Mutant: the turn goes on without asking admission again. *)
ResumeWithoutAcquire(s) ==
  /\ ~Holds(s) /\ turn[s] \in {"parked", "synthesis"}
  /\ Becomes(s, "running")
  /\ UNCHANGED <<fleet, tenant, call, armed, age, step, crashes>>

(* A reply to the parked turn; or, with the park marker set, an outcome that
   dispatches the next turn or completed: reacquire_parked_turn_admission. *)
ResumeTurn(s) ==
  /\ ~Holds(s) /\ turn[s] \in {"parked", "synthesis"}
  /\ Becomes(s, "parked")
  /\ Calling(s, "tryFleet")
  /\ UNCHANGED <<fleet, tenant, armed, age, step, crashes>>

(* turn_admission_heartbeat of a live admission: also of a turn dispatched
   without a lease, when the chain of an earlier turn is still scheduled. *)
Heartbeat(s) ==
  /\ ~Holds(s) /\ s \in armed /\ age[s] >= HeartbeatInterval /\ IsLive(s)
  /\ Calling(s, "tryFleet")
  /\ UNCHANGED <<fleet, tenant, turn, armed, age, step, crashes>>

(* The heartbeat finds no live admission and schedules no other. *)
HeartbeatEnds(s) ==
  /\ ~Holds(s) /\ s \in armed /\ age[s] >= HeartbeatInterval /\ ~IsLive(s)
  /\ Disarm(s)
  /\ UNCHANGED <<fleet, tenant, turn, call, step, crashes>>

(* acquire_shared.  A rejected attempt sleeps and tries again. *)
TryFleet(s) ==
  /\ call[s] = "tryFleet"
  /\ \/ /\ Granted(fleet, Sessions, s, FleetLimit)
        /\ fleet' = Renew(fleet, s)
        /\ Calling(s, "tryTenant")
     \/ /\ ~Granted(fleet, Sessions, s, FleetLimit)
        /\ UNCHANGED <<fleet, call>>
  /\ UNCHANGED <<tenant, turn, armed, age, step, crashes>>

(* The session is admitted: its turn is dispatched or goes on, and the next
   heartbeat is armed.  A synthesis turn over a park is dispatched with the
   marker still set, so that it does not count as live. *)
TryTenant(s) ==
  /\ call[s] = "tryTenant"
  /\ \/ /\ Granted(tenant, Cohort(s), s, TenantLimit)
        /\ tenant' = Renew(tenant, s)
        /\ Becomes(s, IF turn[s] = "synthesis" THEN "synthesis" ELSE "running")
        /\ armed' = armed \cup {s}
        /\ age' = [age EXCEPT ![s] = 0]
        /\ Calling(s, "none")
     \/ /\ ~Granted(tenant, Cohort(s), s, TenantLimit)
        /\ Calling(s, "undoFleet")
        /\ UNCHANGED <<tenant, turn, armed, age>>
  /\ step' = [step EXCEPT ![s] = 0]
  /\ UNCHANGED <<fleet, crashes>>

UndoFleet(s) ==
  /\ call[s] = "undoFleet"
  /\ fleet' = Drop(fleet, s)
  /\ Calling(s, "tryFleet")
  /\ UNCHANGED <<tenant, turn, armed, age, step, crashes>>

(* The outcome of a turn, with nothing left to dispatch: the leases go back, the
   scheduled heartbeat stays.  (An outcome that dispatches the next turn keeps
   the session as it is.) *)
TurnOutcome(s) ==
  /\ ~Holds(s) /\ IsLive(s)
  /\ Becomes(s, "idle")
  /\ Calling(s, "releaseFleet")
  /\ UNCHANGED <<fleet, tenant, armed, age, step, crashes>>

(* register_coordinator_input parks the turn, then releases. *)
ParkTurn(s) ==
  /\ ~Holds(s) /\ IsLive(s)
  /\ Becomes(s, "parked")
  /\ Disarm(s)
  /\ Calling(s, "releaseFleet")
  /\ UNCHANGED <<fleet, tenant, step, crashes>>

(* An outcome that did not complete and dispatches nothing, with the park marker
   set: the marker goes and nothing is released.  A turn cancelled while parked
   owns no lease; a synthesis turn leaves the leases it acquired to the TTL. *)
ParkedOutcome(s) ==
  /\ ~Holds(s)
  /\ \/ turn[s] = "parked" /\ Becomes(s, "idle")
     \/ turn[s] = "synthesis" /\ Becomes(s, "expiring")
  /\ UNCHANGED <<fleet, tenant, call, armed, age, step, crashes>>

(* release_shared: both scopes, fleet first. *)
ReleaseFleet(s) ==
  /\ call[s] = "releaseFleet"
  /\ fleet' = Drop(fleet, s)
  /\ Calling(s, "releaseTenant")
  /\ UNCHANGED <<tenant, turn, armed, age, step, crashes>>

ReleaseTenant(s) ==
  /\ call[s] = "releaseTenant"
  /\ tenant' = Drop(tenant, s)
  /\ Calling(s, "none")
  /\ UNCHANGED <<fleet, turn, armed, age, step, crashes>>

(* destroy clears the session and leaves its leases to the TTL. *)
Destroy(s) ==
  /\ ~Holds(s) /\ turn[s] # "gone"
  /\ Becomes(s, "gone")
  /\ Disarm(s)
  /\ UNCHANGED <<fleet, tenant, call, step, crashes>>

(* The process dies inside a closure; Restate runs the closure again. *)
Crash(s) ==
  /\ crashes < MaxCrashes
  /\ crashes' = crashes + 1
  /\ \/ call[s] \in {"tryTenant", "undoFleet"} /\ Calling(s, "tryFleet")
     \/ call[s] = "releaseTenant" /\ Calling(s, "releaseFleet")
  /\ step' = [step EXCEPT ![s] = 0]
  /\ UNCHANGED <<fleet, tenant, turn, armed, age>>

--------------------------------------------------------------------------------

Bump(n, bound) == IF n < bound THEN n + 1 ELSE bound

(* Time passes, within the deadlines of whoever is timely. *)
Tick ==
  /\ Timely => \A s \in Sessions :
       /\ turn[s] = "running" => age[s] < HeartbeatInterval + MaxLate
       /\ call[s] = "tryTenant" => step[s] < MaxStep
  /\ fleet' = Elapse(fleet)
  /\ tenant' = Elapse(tenant)
  /\ age' = [s \in Sessions |->
               IF s \in armed THEN Bump(age[s], HeartbeatInterval + MaxLate) ELSE 0]
  /\ step' = [s \in Sessions |->
                IF call[s] = "tryTenant" THEN Bump(step[s], MaxStep) ELSE 0]
  /\ UNCHANGED <<turn, call, armed, crashes>>

Acquiring(s) == TryFleet(s) \/ TryTenant(s) \/ UndoFleet(s)

Releasing(s) == ReleaseFleet(s) \/ ReleaseTenant(s)

Next ==
  \/ \E s \in Sessions :
       \/ StartTurn(s) \/ ContinueReview(s) \/ Synthesize(s) \/ ResumeTurn(s)
       \/ Heartbeat(s) \/ HeartbeatEnds(s)
       \/ Acquiring(s) \/ Releasing(s)
       \/ TurnOutcome(s) \/ ParkTurn(s) \/ ParkedOutcome(s)
       \/ Destroy(s) \/ Crash(s)
  \/ Tick

Spec == Init /\ [][Next]_vars

(* The handler that holds a key goes on, a due heartbeat is delivered and time
   passes.  Every turn reports in the end, and its outcome waits in the key's
   queue, which Restate serves in order, so heartbeats cannot overtake it for
   ever.  Nobody has to start a turn or to reply to a parked one, and a waiter
   has no place in a queue: its attempts only have to go on. *)
Fairness ==
  /\ \A s \in Sessions :
       /\ WF_vars(Acquiring(s))
       /\ WF_vars(Releasing(s))
       /\ WF_vars(Heartbeat(s))
       /\ SF_vars(TurnOutcome(s))
  /\ WF_vars(Tick)

FairSpec == Spec /\ Fairness

--------------------------------------------------------------------------------
(* Properties.                                                                *)

(* The sessions whose turn was let in by admission. *)
Admitted == {s \in Sessions : turn[s] = "running"}

Capacity == INSTANCE TurnCapacity WITH running <- Admitted

HasLeases(s) == fleet[s] > 0 /\ tenant[s] > 0

(* A handler of s waits for capacity. *)
Waits(s) ==
  call[s] \in {"tryFleet", "tryTenant", "undoFleet"} /\ turn[s] # "running"

(* The turn of s has been sent off to run. *)
Dispatched(s) == IsLive(s) \/ (turn[s] = "synthesis" /\ ~Holds(s))

(* The types of the lease sets and of the sessions' progress. *)
TypeOK ==
  /\ fleet \in [Sessions -> 0..LeaseTtl]
  /\ tenant \in [Sessions -> 0..LeaseTtl]
  /\ turn \in [Sessions -> Turns]
  /\ call \in [Sessions -> Calls]
  /\ armed \subseteq Sessions
  /\ age \in [Sessions -> 0..(HeartbeatInterval + MaxLate)]
  /\ step \in [Sessions -> 0..MaxStep]
  /\ crashes \in 0..MaxCrashes

(* The store never holds more live leases than a limit allows, in whatever
   order the sessions' calls interleave, crash, expire or come late. *)
LeasesBounded ==
  /\ Cardinality(Live(fleet)) <= FleetLimit
  /\ \A s \in Sessions : Cardinality(Live(tenant) \cap Cohort(s)) <= TenantLimit

(* A turn that admission let in holds both leases for as long as it is live,
   across every renewal, synthesis and hand-over, provided the heartbeats are
   timely: the TTL never reclaims them.  Turns dispatched without asking
   admission, and synthesis turns over a park, are not among them. *)
AdmittedHoldsLeases == Timely => \A s \in Admitted : HasLeases(s)

(* No path leaks capacity: a session that has no turn or a parked one and waits
   in no handler holds neither lease, whatever crashed on the way, whichever
   turn came before, and whether that turn had been admitted or not. *)
NoLeakedLease ==
  \A s \in Sessions :
    ~Holds(s) /\ turn[s] \in {"new", "idle", "parked"} => fleet[s] = 0 /\ tenant[s] = 0

(* Timely admission keeps the promise of TurnCapacity: a turn is let in only
   while the turns already let in are below both limits. *)
KeepsCapacity == Capacity!Spec

(* Saturation is a wait state, and nothing but other sessions' turns keeps it
   up: a session can wait for ever only if others are let in again and again.
   Leases left behind by a destroyed session, a failed synthesis turn, a crash
   or a rejected attempt never hold it up for good. *)
OnlyTurnsKeepWaiting ==
  \A s \in Sessions :
    <>[]Waits(s) => []<>(\E x \in Sessions \ {s} : turn[x] \in {"running", "synthesis"})

(* What the architecture document says of admission: both leases are held before
   a coordinator turn is dispatched. *)
AcquiresBeforeDispatch ==
  [][\A s \in Sessions : Dispatched(s)' /\ ~Dispatched(s) => HasLeases(s)']_vars
================================================================================
