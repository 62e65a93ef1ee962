SPECIFICATION Spec
CONSTANTS
  s1 = s1
  s2 = s2
  s3 = s3
  t1 = t1
  t2 = t2
  Sessions = {s1, s2, s3}
  TenantOf <- Tenants
  FleetLimit = 2
  TenantLimit = 1
  LeaseTtl = 3
  Timely = TRUE
  MaxLate = 0
  MaxStep = 1
  MaxCrashes = 0
INVARIANT AdmittedHoldsLeases
PROPERTY KeepsCapacity
INVARIANT LeasesBounded
SYMMETRY Symmetry
