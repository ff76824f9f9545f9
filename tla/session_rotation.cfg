SPECIFICATION Spec
CONSTANTS
  Requests = {r1, r2}
  Families = {f1, f2}
  MaxTokens = 4
  MaxChanges = 1
  None = None
SYMMETRY Symmetry
INVARIANTS OneActivePerFamily NoWaitCycle
PROPERTIES EndingIsThorough ImplementsFamily
