-------------------------- MODULE TurnAdmissionProofs --------------------------
(***************************************************************************)
(* Proofs about TurnAdmission for any number of sessions and tenants, any  *)
(* limits, any TTL and any amount of crashes.                              *)
(***************************************************************************)
EXTENDS TurnAdmission, FiniteSetTheorems, TLAPS

(* The heartbeat interval is a positive number of ticks. *)
LEMMA IntervalIsPositive == HeartbeatInterval \in Nat \ {0}
BY TtlAssumption DEF HeartbeatInterval

(* Every step preserves the types of the lease sets and of the sessions. *)
LEMMA TypeOKStep == TypeOK /\ [Next]_vars => TypeOK'
<1> USE IntervalIsPositive, TtlAssumption, BoundsAssumption
<1> SUFFICES ASSUME TypeOK, [Next]_vars PROVE TypeOK'
  OBVIOUS
<1>2. ASSUME NEW s \in Sessions, StartTurn(s) \/ ContinueReview(s) \/ Synthesize(s)
                                \/ ResumeTurn(s)
      PROVE  TypeOK'
  BY <1>2 DEF TypeOK, StartTurn, ContinueReview, Synthesize, ResumeTurn, Becomes, Turns,
              Calling, Calls
<1>9. ASSUME NEW s \in Sessions, Heartbeat(s) \/ HeartbeatEnds(s)
      PROVE  TypeOK'
  BY <1>9 DEF TypeOK, Heartbeat, HeartbeatEnds, Disarm, Calling, Calls
<1>3. ASSUME NEW s \in Sessions, TryFleet(s) \/ UndoFleet(s) \/ Releasing(s)
      PROVE  TypeOK'
  BY <1>3 DEF TypeOK, TryFleet, UndoFleet, Releasing, ReleaseFleet,
                    ReleaseTenant, Calling, Calls, Renew, Drop
<1>4. ASSUME NEW s \in Sessions, TryTenant(s)
      PROVE  TypeOK'
  BY <1>4 DEF TypeOK, TryTenant, Becomes, Turns, Calling, Calls, Renew
<1>5. ASSUME NEW s \in Sessions,
             TurnOutcome(s) \/ ParkTurn(s) \/ ParkedOutcome(s) \/ Destroy(s)
      PROVE  TypeOK'
  BY <1>5 DEF TypeOK, TurnOutcome, ParkTurn, ParkedOutcome, Destroy, Becomes, Turns,
              Disarm, Calling, Calls
<1>6. ASSUME NEW s \in Sessions, Crash(s)
      PROVE  TypeOK'
  BY <1>6 DEF TypeOK, Crash, Calling, Calls
<1>7. ASSUME Tick
      PROVE  TypeOK'
  BY <1>7 DEF TypeOK, Tick, Elapse, Bump
<1>8. ASSUME UNCHANGED vars
      PROVE  TypeOK'
  BY <1>8 DEF TypeOK, vars
<1> QED
  BY <1>2, <1>3, <1>4, <1>5, <1>6, <1>7, <1>8, <1>9 DEF Next, Acquiring

(* The type invariant of TurnAdmission holds in every reachable state. *)
THEOREM TypeCorrect == Spec => []TypeOK
<1>1. Init => TypeOK
  BY IntervalIsPositive, TtlAssumption, BoundsAssumption DEF Init, TypeOK, Calls, Turns
<1> QED
  BY <1>1, TypeOKStep, PTL DEF Spec

--------------------------------------------------------------------------------
(* The store respects its limits.                                             *)

(* What a step may do to a lease set: grant one lease, or only lose some. *)
Shrinks(old, new) == Live(new) \subseteq Live(old)

Grants(old, new, scope, s, limit) ==
  Granted(old, scope, s, limit) /\ new = Renew(old, s)

(* A lease set that only loses leases stays within its limit. *)
LEMMA ShrinkingKeepsLimit ==
  ASSUME NEW old, NEW new, NEW scope, NEW limit \in Nat,
         Shrinks(old, new),
         Cardinality(Live(old) \cap scope) <= limit
  PROVE  Cardinality(Live(new) \cap scope) <= limit
<1>1. IsFiniteSet(Live(old) \cap scope)
  BY SessionsAssumption, FS_Subset DEF Live
<1>2. Live(new) \cap scope \subseteq Live(old) \cap scope
  BY DEF Shrinks
<1> QED
  BY <1>1, <1>2, FS_Subset, FS_CardinalityType

(* try_acquire_bounded_lease grants a lease only within the limit. *)
LEMMA GrantingKeepsLimit ==
  ASSUME NEW old \in [Sessions -> Nat], NEW new, NEW scope, NEW s \in scope,
         scope \subseteq Sessions, NEW limit \in Nat,
         Grants(old, new, scope, s, limit),
         Cardinality(Live(old) \cap scope) <= limit
  PROVE  Cardinality(Live(new) \cap scope) <= limit
<1> DEFINE L == Live(old) \cap scope
<1>1. IsFiniteSet(L)
  BY SessionsAssumption, FS_Subset DEF Live
<1>2. Live(new) \cap scope = L \cup {s}
  BY TtlAssumption DEF Grants, Renew, Live
<1>3. CASE s \in L
  <2>1. L \cup {s} = L
    BY <1>3
  <2> QED
    BY <1>2, <2>1
<1>4. CASE s \notin L
  <2>1. Cardinality(L) < limit
    BY <1>4 DEF Grants, Granted, HasRoom, Live
  <2>2. Cardinality(L \cup {s}) = Cardinality(L) + 1
    BY <1>1, <1>4, FS_AddElement
  <2>3. Cardinality(L) \in Nat
    BY <1>1, FS_CardinalityType
  <2> HIDE DEF L
  <2> QED
    BY <1>2, <2>1, <2>2, <2>3
<1> QED
  BY <1>3, <1>4

(* The fleet set is within the fleet limit, each tenant set within the tenant
   limit. *)
FleetBounded == Cardinality(Live(fleet)) <= FleetLimit

TenantBounded ==
  \A s \in Sessions : Cardinality(Live(tenant) \cap Cohort(s)) <= TenantLimit

(* What a step does to the fleet lease set. *)
LEMMA FleetStep ==
  ASSUME TypeOK, [Next]_vars
  PROVE  \/ Shrinks(fleet, fleet')
         \/ \E s \in Sessions : Grants(fleet, fleet', Sessions, s, FleetLimit)
<1>1. ASSUME NEW s \in Sessions, TryFleet(s)
      PROVE  Shrinks(fleet, fleet') \/ Grants(fleet, fleet', Sessions, s, FleetLimit)
  BY <1>1 DEF TryFleet, Grants, Shrinks
<1>2. ASSUME NEW s \in Sessions, UndoFleet(s) \/ ReleaseFleet(s)
      PROVE  Shrinks(fleet, fleet')
  BY <1>2 DEF UndoFleet, ReleaseFleet, Drop, Shrinks, Live, TypeOK
<1>3. ASSUME Tick
      PROVE  Shrinks(fleet, fleet')
  BY <1>3 DEF Tick, Elapse, Shrinks, Live, TypeOK
<1>4. ASSUME UNCHANGED fleet
      PROVE  Shrinks(fleet, fleet')
  BY <1>4 DEF Shrinks
<1> QED
  BY <1>1, <1>2, <1>3, <1>4 DEF Next, Acquiring, Releasing, vars, StartTurn,
     ContinueReview, Synthesize, ResumeTurn, Heartbeat, HeartbeatEnds, TryTenant,
     ReleaseTenant, TurnOutcome, ParkTurn, ParkedOutcome, Destroy, Crash

(* What a step does to the tenant lease sets. *)
LEMMA TenantStep ==
  ASSUME TypeOK, [Next]_vars
  PROVE  \/ Shrinks(tenant, tenant')
         \/ \E s \in Sessions : Grants(tenant, tenant', Cohort(s), s, TenantLimit)
<1>1. ASSUME NEW s \in Sessions, TryTenant(s)
      PROVE  Shrinks(tenant, tenant') \/ Grants(tenant, tenant', Cohort(s), s, TenantLimit)
  BY <1>1 DEF TryTenant, Grants, Shrinks
<1>2. ASSUME NEW s \in Sessions, ReleaseTenant(s)
      PROVE  Shrinks(tenant, tenant')
  BY <1>2 DEF ReleaseTenant, Drop, Shrinks, Live, TypeOK
<1>3. ASSUME Tick
      PROVE  Shrinks(tenant, tenant')
  BY <1>3 DEF Tick, Elapse, Shrinks, Live, TypeOK
<1>4. ASSUME UNCHANGED tenant
      PROVE  Shrinks(tenant, tenant')
  BY <1>4 DEF Shrinks
<1> QED
  BY <1>1, <1>2, <1>3, <1>4 DEF Next, Acquiring, Releasing, vars, StartTurn,
     ContinueReview, Synthesize, ResumeTurn, Heartbeat, HeartbeatEnds, TryFleet,
     UndoFleet, ReleaseFleet, TurnOutcome, ParkTurn, ParkedOutcome, Destroy, Crash

(* No step takes a lease set over its limit. *)
LEMMA LeasesBoundedStep ==
  ASSUME TypeOK, FleetBounded, TenantBounded, [Next]_vars
  PROVE  FleetBounded' /\ TenantBounded'
<1>1. FleetBounded'
  <2>1. \A l : Live(l) \cap Sessions = Live(l)
    BY DEF Live
  <2>2. CASE Shrinks(fleet, fleet')
    BY <2>1, <2>2, ShrinkingKeepsLimit, LimitsAssumption DEF FleetBounded
  <2>3. ASSUME NEW s \in Sessions, Grants(fleet, fleet', Sessions, s, FleetLimit)
        PROVE  FleetBounded'
    <3>1. fleet \in [Sessions -> Nat]
      BY TtlAssumption DEF TypeOK
    <3>2. Cardinality(Live(fleet) \cap Sessions) <= FleetLimit
      BY <2>1 DEF FleetBounded
    <3>3. Cardinality(Live(fleet') \cap Sessions) <= FleetLimit
      BY <2>3, <3>1, <3>2, GrantingKeepsLimit, LimitsAssumption
    <3> QED
      BY <2>1, <3>3 DEF FleetBounded, Live
  <2> QED
    BY <2>2, <2>3, FleetStep
<1>2. TenantBounded'
  <2> SUFFICES ASSUME NEW x \in Sessions
               PROVE  Cardinality(Live(tenant') \cap Cohort(x)) <= TenantLimit
    BY DEF TenantBounded, Live
  <2>1. Cardinality(Live(tenant) \cap Cohort(x)) <= TenantLimit
    BY DEF TenantBounded
  <2>2. CASE Shrinks(tenant, tenant')
    BY <2>1, <2>2, ShrinkingKeepsLimit, LimitsAssumption
  <2>3. ASSUME NEW s \in Sessions, Grants(tenant, tenant', Cohort(s), s, TenantLimit)
        PROVE  Cardinality(Live(tenant') \cap Cohort(x)) <= TenantLimit
    <3>1. tenant \in [Sessions -> Nat]
      BY TtlAssumption DEF TypeOK
    <3>2. CASE Cohort(x) = Cohort(s)
      <4>1. s \in Cohort(s) /\ Cohort(s) \subseteq Sessions
        BY DEF Cohort
      <4> QED
        BY <2>1, <2>3, <3>1, <3>2, <4>1, GrantingKeepsLimit, LimitsAssumption
    <3>3. CASE Cohort(x) # Cohort(s)
      <4>1. s \notin Cohort(x)
        BY <3>3 DEF Cohort
      <4>2. Live(tenant') \cap Cohort(x) = Live(tenant) \cap Cohort(x)
        BY <2>3, <3>1, <4>1 DEF Grants, Renew, Live
      <4> QED
        BY <2>1, <4>2
    <3> QED
      BY <3>2, <3>3
  <2> QED
    BY <2>2, <2>3, TenantStep
<1> QED
  BY <1>1, <1>2


--------------------------------------------------------------------------------
(* A timely session keeps both leases while a turn that was let in runs.      *)

(* The fleet lease was granted at most MaxStep ticks before the heartbeat was
   armed, the tenant lease when it was armed; a renewal that is under way has
   just granted the fleet lease again. *)
Covered(s) ==
  /\ turn[s] = "running" =>
       /\ call[s] \in {"none", "tryFleet", "tryTenant"}
       /\ s \in armed
       /\ fleet[s] + age[s] + MaxStep >= LeaseTtl
       /\ tenant[s] + age[s] >= LeaseTtl
  /\ call[s] = "tryTenant" => fleet[s] + step[s] >= LeaseTtl

AllCovered == \A s \in Sessions : Covered(s)

(* The leases of a covered session are live. *)
LEMMA CoveredIsLive ==
  ASSUME TypeOK, Timely, NEW s \in Sessions, Covered(s)
  PROVE  /\ turn[s] = "running" => fleet[s] > 0 /\ tenant[s] > 0
         /\ call[s] = "tryTenant" => fleet[s] > 0
<1>1. /\ fleet[s] \in Nat /\ tenant[s] \in Nat
      /\ age[s] \in 0..(HeartbeatInterval + MaxLate) /\ step[s] \in 0..MaxStep
  BY TtlAssumption DEF TypeOK
<1>2. HeartbeatInterval + MaxLate + MaxStep < LeaseTtl
  BY TimelyAssumption
<1> QED
  BY <1>1, <1>2, IntervalIsPositive, TtlAssumption, BoundsAssumption DEF Covered

(* Every step of a timely system keeps every session covered. *)
LEMMA AllCoveredStep ==
  ASSUME TypeOK, Timely, AllCovered, [Next]_vars
  PROVE  AllCovered'
<1> USE TtlAssumption, BoundsAssumption, IntervalIsPositive
<1> SUFFICES ASSUME NEW x \in Sessions PROVE Covered(x)'
  BY DEF AllCovered
<1>c. Covered(x)
  BY DEF AllCovered
<1>l. /\ turn[x] = "running" => fleet[x] > 0 /\ tenant[x] > 0
      /\ call[x] = "tryTenant" => fleet[x] > 0
  BY <1>c, CoveredIsLive
<1>t. /\ fleet[x] \in Nat /\ tenant[x] \in Nat /\ age[x] \in Nat
      /\ step[x] \in Nat /\ step[x] <= MaxStep
  BY DEF TypeOK
<1>1. ASSUME NEW s \in Sessions, StartTurn(s) \/ ContinueReview(s) \/ Synthesize(s)
                                \/ ResumeTurn(s)
      PROVE  Covered(x)'
  BY <1>1, <1>c DEF StartTurn, ContinueReview, Synthesize, ResumeTurn, Becomes, Calling,
                    Holds, Covered, TypeOK
<1>9. ASSUME NEW s \in Sessions, Heartbeat(s) \/ HeartbeatEnds(s)
      PROVE  Covered(x)'
  BY <1>9, <1>c DEF Heartbeat, HeartbeatEnds, IsLive, Disarm, Calling, Holds, Covered,
                    TypeOK
<1>2. ASSUME NEW s \in Sessions, TryFleet(s)
      PROVE  Covered(x)'
  BY <1>2, <1>c, <1>t DEF TryFleet, Renew, Calling, Covered, TypeOK
<1>3. ASSUME NEW s \in Sessions, TryTenant(s)
      PROVE  Covered(x)'
  BY <1>3, <1>c, <1>l, <1>t DEF TryTenant, Granted, Renew, Becomes, Calling, Covered,
                                TypeOK
<1>4. ASSUME NEW s \in Sessions, UndoFleet(s) \/ Releasing(s)
      PROVE  Covered(x)'
  BY <1>4, <1>c, <1>t DEF UndoFleet, Releasing, ReleaseFleet, ReleaseTenant, Drop,
                          Calling, Covered, TypeOK
<1>5. ASSUME NEW s \in Sessions,
             TurnOutcome(s) \/ ParkTurn(s) \/ ParkedOutcome(s) \/ Destroy(s)
      PROVE  Covered(x)'
  BY <1>5, <1>c DEF TurnOutcome, ParkTurn, ParkedOutcome, Destroy, Becomes, Disarm,
                    Calling, Covered, Holds, TypeOK
<1>6. ASSUME NEW s \in Sessions, Crash(s)
      PROVE  Covered(x)'
  BY <1>6, <1>c, <1>t DEF Crash, Calling, Covered, TypeOK
<1>7. ASSUME Tick
      PROVE  Covered(x)'
  <2>1. /\ turn[x] = "running" => age[x] < HeartbeatInterval + MaxLate
        /\ call[x] = "tryTenant" => step[x] < MaxStep
    BY <1>7 DEF Tick
  <2>2. /\ turn'[x] = turn[x] /\ call'[x] = call[x] /\ armed' = armed
        /\ fleet'[x] = IF fleet[x] > 0 THEN fleet[x] - 1 ELSE 0
        /\ tenant'[x] = IF tenant[x] > 0 THEN tenant[x] - 1 ELSE 0
    BY <1>7 DEF Tick, Elapse
  <2>3. turn[x] = "running" => age'[x] = age[x] + 1
    BY <1>7, <1>c, <2>1 DEF Tick, Bump, Covered
  <2>4. call[x] = "tryTenant" => step'[x] = step[x] + 1
    BY <1>7, <2>1 DEF Tick, Bump
  <2> QED
    BY <1>c, <1>l, <1>t, <2>2, <2>3, <2>4 DEF Covered
<1>8. ASSUME UNCHANGED vars
      PROVE  Covered(x)'
  BY <1>8, <1>c DEF vars, Covered
<1> QED
  BY <1>1, <1>2, <1>3, <1>4, <1>5, <1>6, <1>7, <1>8, <1>9 DEF Next, Acquiring

(* The invariant all the theorems about timely sessions rest on. *)
TimelyInv == TypeOK /\ FleetBounded /\ TenantBounded /\ (Timely => AllCovered)

LEMMA TimelyInvInit == Init => TimelyInv
<1> SUFFICES ASSUME Init PROVE TimelyInv
  OBVIOUS
<1>1. TypeOK
  BY IntervalIsPositive, TtlAssumption, BoundsAssumption DEF Init, TypeOK, Calls, Turns
<1>2. Live(fleet) = {} /\ Live(tenant) = {}
  BY DEF Init, Live
<1>3. \A S : {} \cap S = {}
  OBVIOUS
<1>4. FleetBounded /\ TenantBounded
  BY <1>2, <1>3, FS_EmptySet, LimitsAssumption DEF FleetBounded, TenantBounded
<1>5. AllCovered
  BY DEF Init, AllCovered, Covered
<1> QED
  BY <1>1, <1>4, <1>5 DEF TimelyInv

LEMMA TimelyInvStep == TimelyInv /\ [Next]_vars => TimelyInv'
BY TypeOKStep, LeasesBoundedStep, AllCoveredStep DEF TimelyInv

(* The store never holds more live leases than either limit allows: for every
   interleaving of the sessions' calls, every crash and every late renewal. *)
THEOREM LeasesNeverExceedLimits == Spec => []LeasesBounded
<1>1. TimelyInv => LeasesBounded
  BY DEF TimelyInv, FleetBounded, TenantBounded, LeasesBounded
<1> QED
  BY <1>1, TimelyInvInit, TimelyInvStep, PTL DEF Spec

(* A turn that admission let in holds both leases for as long as it is live, when
   heartbeats are timely: neither a renewal, a synthesis turn that takes its
   place, a crash nor the review continuations that ask nobody for a lease make
   the TTL of three heartbeat intervals reclaim them. *)
THEOREM AdmittedTurnsHoldLeases == Spec => []AdmittedHoldsLeases
<1>1. TimelyInv => AdmittedHoldsLeases
  BY CoveredIsLive DEF TimelyInv, AllCovered, AdmittedHoldsLeases, Admitted, HasLeases
<1> QED
  BY <1>1, TimelyInvInit, TimelyInvStep, PTL DEF Spec

--------------------------------------------------------------------------------
(* Timely admission implements TurnCapacity.                                  *)

(* The step that admits a turn finds room within both limits. *)
LEMMA AdmissionHasRoom ==
  ASSUME TimelyInv, TimelyInv', Timely, NEW s \in Sessions, TryTenant(s),
         turn[s] # "running", turn'[s] = "running"
  PROVE  Capacity!Start(s)
<1>t. turn \in [Sessions -> Turns]
  BY DEF TimelyInv, TypeOK
<1>1. Admitted' = Admitted \cup {s} /\ s \notin Admitted
  BY <1>t DEF TryTenant, Becomes, Admitted
<1>2. Admitted \cup {s} \subseteq Live(fleet)
  <2>1. \A x \in Admitted : fleet[x] > 0
    BY CoveredIsLive DEF TimelyInv, AllCovered, Admitted
  <2>2. fleet[s] > 0
    BY CoveredIsLive DEF TimelyInv, AllCovered, TryTenant
  <2> QED
    BY <2>1, <2>2 DEF Live, Admitted
<1>3. Admitted' \cap Cohort(s) \subseteq Live(tenant') \cap Cohort(s)
  <2>1. \A x \in Sessions : Covered(x)'
    BY DEF TimelyInv, AllCovered
  <2>2. TypeOK'
    BY DEF TimelyInv
  <2>3. ASSUME NEW x \in Admitted' PROVE tenant'[x] > 0
    <3>1. x \in Sessions /\ turn'[x] = "running"
      BY <2>3 DEF Admitted
    <3>2. tenant'[x] \in Nat /\ age'[x] \in 0..(HeartbeatInterval + MaxLate)
      BY <2>2, <3>1, TtlAssumption DEF TypeOK
    <3>3. tenant'[x] + age'[x] >= LeaseTtl
      BY <2>1, <3>1 DEF Covered
    <3>4. HeartbeatInterval + MaxLate + MaxStep < LeaseTtl
      BY TimelyAssumption
    <3> QED
      BY <3>2, <3>3, <3>4, IntervalIsPositive, TtlAssumption, BoundsAssumption
  <2> QED
    BY <2>3 DEF Live, Admitted
<1>4. Cardinality(Admitted) < FleetLimit
  <2>1. IsFiniteSet(Live(fleet))
    BY SessionsAssumption, FS_Subset DEF Live
  <2>2. Cardinality(Admitted \cup {s}) <= Cardinality(Live(fleet))
    BY <1>2, <2>1, FS_Subset
  <2>3. IsFiniteSet(Admitted)
    BY SessionsAssumption, FS_Subset DEF Admitted
  <2>4. Cardinality(Admitted \cup {s}) = Cardinality(Admitted) + 1
    BY <1>1, <2>3, FS_AddElement
  <2>5. Cardinality(Admitted) \in Nat /\ Cardinality(Live(fleet)) \in Nat
    BY <2>1, <2>3, FS_CardinalityType
  <2>6. Cardinality(Live(fleet)) <= FleetLimit
    BY DEF TimelyInv, FleetBounded
  <2> QED
    BY <2>2, <2>4, <2>5, <2>6, LimitsAssumption
<1>5. Cardinality(Admitted \cap Cohort(s)) < TenantLimit
  <2> DEFINE R == Admitted \cap Cohort(s)
             L == Live(tenant') \cap Cohort(s)
  <2>0. s \in Cohort(s)
    BY DEF Cohort
  <2>1. IsFiniteSet(L)
    BY SessionsAssumption, FS_Subset DEF Live
  <2>2. R \cup {s} \subseteq L
    BY <1>1, <1>3, <2>0
  <2>3. IsFiniteSet(R)
    BY SessionsAssumption, FS_Subset DEF Admitted
  <2>4. Cardinality(R \cup {s}) = Cardinality(R) + 1
    BY <1>1, <2>3, FS_AddElement
  <2>5. Cardinality(R \cup {s}) <= Cardinality(L)
    BY <2>1, <2>2, FS_Subset
  <2>6. Cardinality(L) <= TenantLimit
    BY DEF TimelyInv, TenantBounded, Live
  <2>7. Cardinality(R) \in Nat /\ Cardinality(L) \in Nat
    BY <2>1, <2>3, FS_CardinalityType
  <2> HIDE DEF R, L
  <2>8. Cardinality(R) < TenantLimit
    BY <2>4, <2>5, <2>6, <2>7, LimitsAssumption
  <2> QED
    BY <2>8 DEF R
<1>6. \A S : Capacity!Cardinality(S) = Cardinality(S)
  BY DEF Capacity!Cardinality, Cardinality
<1> QED
  BY <1>1, <1>4, <1>5, <1>6 DEF Capacity!Start, Capacity!Cohort, Cohort

(* Every step of timely admission lets one turn in within the limits, stops one
   of those turns, or leaves them alone. *)
LEMMA CapacityStep ==
  ASSUME TimelyInv, TimelyInv', Timely, [Next]_vars
  PROVE  [Capacity!Next]_Admitted
<1>t. turn \in [Sessions -> Turns]
  BY DEF TimelyInv, TypeOK
<1>1. ASSUME NEW s \in Sessions, TryTenant(s)
      PROVE  [Capacity!Next]_Admitted
  <2>1. CASE turn[s] # "running" /\ turn'[s] = "running"
    BY <1>1, <2>1, AdmissionHasRoom DEF Capacity!Next
  <2>2. CASE ~(turn[s] # "running" /\ turn'[s] = "running")
    BY <1>1, <1>t, <2>2 DEF TryTenant, Becomes, Admitted
  <2> QED
    BY <2>1, <2>2
<1>2. ASSUME NEW s \in Sessions,
             TurnOutcome(s) \/ ParkTurn(s) \/ ParkedOutcome(s) \/ Destroy(s)
      PROVE  [Capacity!Next]_Admitted
  <2>1. Admitted' = Admitted \ {s}
    BY <1>2, <1>t DEF TurnOutcome, ParkTurn, ParkedOutcome, Destroy, Becomes, Admitted
  <2>2. CASE s \in Admitted
    BY <2>1, <2>2 DEF Capacity!Next, Capacity!Stop
  <2>3. CASE s \notin Admitted
    BY <2>1, <2>3
  <2> QED
    BY <2>2, <2>3
<1>3. ASSUME NEW s \in Sessions, ContinueReview(s) \/ Synthesize(s) \/ ResumeTurn(s)
      PROVE  [Capacity!Next]_Admitted
  <2>1. Admitted' = Admitted
    BY <1>3, <1>t DEF ContinueReview, Synthesize, ResumeTurn, Becomes, Admitted
  <2> QED
    BY <2>1
<1>4. ASSUME UNCHANGED turn
      PROVE  [Capacity!Next]_Admitted
  BY <1>4 DEF Admitted
<1> QED
  BY <1>1, <1>2, <1>3, <1>4 DEF Next, Acquiring, Releasing, vars, StartTurn, Heartbeat,
     HeartbeatEnds, TryFleet, UndoFleet, ReleaseFleet, ReleaseTenant, Crash, Tick

(* Timely turn admission implements TurnCapacity: whatever interleaves, crashes,
   expires or runs without having asked, a coordinator turn is let in only while
   the turns let in before it are below both limits. *)
THEOREM AdmissionKeepsCapacity == Timely /\ Spec => KeepsCapacity
<1> SUFFICES ASSUME Timely PROVE Spec => KeepsCapacity
  OBVIOUS
<1>1. Init => Capacity!Init
  BY DEF Init, Capacity!Init, Admitted
<1>2. TimelyInv /\ TimelyInv' /\ [Next]_vars => [Capacity!Next]_Admitted
  BY CapacityStep
<1> QED
  BY <1>1, <1>2, TimelyInvInit, TimelyInvStep, PTL DEF Spec, KeepsCapacity, Capacity!Spec

--------------------------------------------------------------------------------
(* No path leaks capacity.                                                    *)

(* A release is half done between its two calls. *)
Clean(s) ==
  /\ call[s] = "none" /\ turn[s] \in {"new", "idle", "parked"} =>
       fleet[s] = 0 /\ tenant[s] = 0
  /\ call[s] = "releaseTenant" => fleet[s] = 0

AllClean == \A s \in Sessions : Clean(s)

(* Every step keeps every session clean. *)
LEMMA AllCleanStep ==
  ASSUME TypeOK, AllClean, [Next]_vars
  PROVE  AllClean'
<1> SUFFICES ASSUME NEW x \in Sessions PROVE Clean(x)'
  BY DEF AllClean
<1>c. Clean(x)
  BY DEF AllClean
<1>1. ASSUME NEW s \in Sessions, StartTurn(s) \/ ContinueReview(s) \/ Synthesize(s)
                                \/ ResumeTurn(s) \/ Heartbeat(s) \/ HeartbeatEnds(s)
      PROVE  Clean(x)'
  BY <1>1, <1>c DEF StartTurn, ContinueReview, Synthesize, ResumeTurn, Heartbeat,
                    HeartbeatEnds, Becomes, Holds, Calling, Clean, TypeOK
<1>2. ASSUME NEW s \in Sessions, Acquiring(s)
      PROVE  Clean(x)'
  BY <1>2, <1>c DEF Acquiring, TryFleet, TryTenant, UndoFleet, Renew, Drop,
                    Becomes, Calling, Clean, TypeOK
<1>3. ASSUME NEW s \in Sessions, Releasing(s)
      PROVE  Clean(x)'
  BY <1>3, <1>c DEF Releasing, ReleaseFleet, ReleaseTenant, Drop, Calling, Clean,
                    TypeOK
<1>4. ASSUME NEW s \in Sessions,
             TurnOutcome(s) \/ ParkTurn(s) \/ ParkedOutcome(s) \/ Destroy(s)
      PROVE  Clean(x)'
  BY <1>4, <1>c DEF TurnOutcome, ParkTurn, ParkedOutcome, Destroy, Becomes, Holds,
                    Calling, Clean, TypeOK
<1>5. ASSUME NEW s \in Sessions, Crash(s)
      PROVE  Clean(x)'
  BY <1>5, <1>c DEF Crash, Calling, Clean, TypeOK
<1>6. ASSUME Tick
      PROVE  Clean(x)'
  BY <1>6, <1>c DEF Tick, Elapse, Clean
<1>7. ASSUME UNCHANGED vars
      PROVE  Clean(x)'
  BY <1>7, <1>c DEF vars, Clean
<1> QED
  BY <1>1, <1>2, <1>3, <1>4, <1>5, <1>6, <1>7 DEF Next

(* A session that has no turn, or a parked one, and is not in the middle of a call
   holds no lease: neither a rejected attempt, a crashed release, a park nor a
   turn that was dispatched without a lease keeps capacity from the others. *)
THEOREM LeasesAreReturned == Spec => []NoLeakedLease
<1>1. Init => TypeOK /\ AllClean
  BY IntervalIsPositive, TtlAssumption, BoundsAssumption
  DEF Init, TypeOK, Calls, Turns, AllClean, Clean
<1>2. TypeOK /\ AllClean /\ [Next]_vars => TypeOK' /\ AllClean'
  BY TypeOKStep, AllCleanStep
<1>3. AllClean => NoLeakedLease
  BY DEF AllClean, Clean, NoLeakedLease, Holds
<1> QED
  BY <1>1, <1>2, <1>3, PTL DEF Spec
================================================================================
