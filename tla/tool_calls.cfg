SPECIFICATION CallsSpec
CONSTANTS
  Tasks = {t1}
  Workers = {w1}
  Requests = {r1}
  Replicas = {p1}
  MaxRetries = 0
  MaxDispatch = 1
  MaxCopies = 1
  MaxFaults = 2
  LiveLeaseMayExpire = FALSE
  Free = Free
  Orphan = Orphan
  None = None
  Callers = {c1, c2, c3}
  Threshold = 3
  Attempts = 2
INVARIANTS SingleTrial
PROPERTIES RunnableSettles OverdueRetires RowsAreDelivered AdmitsAgain
