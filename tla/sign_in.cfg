SPECIFICATION Spec
CONSTANTS
  p1 = p1
  p2 = p2
  r1 = r1
  r2 = r2
  Process = {p1, p2}
  Request = {r1, r2}
  ProcessOf <- Served
  Redis = Redis
  Capacity = 1
  Refill = 1
  Cost = 1
  Window = 1
  Cooldown = 1
  MaxFailures = 2
  LockTicks = 1
SYMMETRY Symmetry
INVARIANTS LateGuessesBounded
PROPERTY BucketsAreIdeal
