SPECIFICATION Spec
CONSTANTS
  Tasks = {t1}
  Workers = {w1, w2}
  Requests = {r1, r2}
  Replicas = {}
  MaxRetries = 2
  MaxDispatch = 5
  MaxCopies = 1
  MaxFaults = 1
  LiveLeaseMayExpire = TRUE
  Free = Free
  Orphan = Orphan
  None = None
SYMMETRY Symmetry
INVARIANTS RerunsAreCounted CallsAreAuthorised
PROPERTIES ImplementsLifecycle
