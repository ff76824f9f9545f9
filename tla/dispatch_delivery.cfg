SPECIFICATION Spec
CONSTANTS
  Tasks = {t1}
  Workers = {w1, w2}
  Requests = {r1, r2}
  Replicas = {p1}
  MaxRetries = 0
  MaxDispatch = 1
  MaxCopies = 1
  MaxFaults = 2
  LiveLeaseMayExpire = FALSE
  Free = Free
  Orphan = Orphan
  None = None
SYMMETRY Symmetry
INVARIANTS OneRunnerPerDispatch DeliveredWasSent
PROPERTIES MoveMatchesEvent
