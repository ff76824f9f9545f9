SPECIFICATION CountsSpec
CONSTANTS
  Docs = {1, 2}
  Requests = {q1, q2}
  MaxRestarts = 1
  None = None
  Bases = {1}
  Documents = {1, 2}
  BaseOf <- OneBase
  Segments = {1, 2, 3}
  DocOf <- SecondLong
  Runs = {r1}
  Rollbacks = {u1}
  MaxCount = 3
  MaxDeletions = 1
  Gone = Gone
SYMMETRY Symmetry
INVARIANTS DocCountIsExact CompletedIsCounted
PROPERTIES CountedByTransition RepairIsExact OverwritesOnlyReturned
CHECK_DEADLOCK FALSE
