------------------------------ MODULE TurnCapacity ------------------------------
(***************************************************************************)
(* What shared turn admission promises: a coordinator turn is let in only  *)
(* while fewer than FleetLimit turns that were let in run in the whole     *)
(* fleet and fewer than TenantLimit run for its tenant.                    *)
(***************************************************************************)
EXTENDS Naturals, FiniteSets

CONSTANTS
  Sessions,     \* session ids, which are the lease ids
  TenantOf,     \* the tenant of every session
  FleetLimit,   \* session_limits.turn_admission_fleet_limit
  TenantLimit   \* session_limits.turn_admission_tenant_limit

VARIABLE running  \* the sessions with a turn that was let in

(* The sessions of the tenant of s. *)
Cohort(s) == {x \in Sessions : TenantOf[x] = TenantOf[s]}

Init == running = {}

Start(s) ==
  /\ s \notin running
  /\ Cardinality(running) < FleetLimit
  /\ Cardinality(running \cap Cohort(s)) < TenantLimit
  /\ running' = running \cup {s}

Stop(s) == s \in running /\ running' = running \ {s}

Next == \E s \in Sessions : Start(s) \/ Stop(s)

Spec == Init /\ [][Next]_running
================================================================================
