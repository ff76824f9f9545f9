SPECIFICATION Spec
CONSTANTS
  Tasks = {t1}
  Workers = {w1, w2}
  Requests = {r1}
  Replicas = {p1}
  MaxRetries = 0
  MaxDispatch = 1
  MaxCopies = 1
  MaxFaults = 1
  LiveLeaseMayExpire = TRUE
  Free = Free
  Orphan = Orphan
  None = None
SYMMETRY Symmetry
PROPERTIES OnlyHolderReleases ImplementsLifecycle
