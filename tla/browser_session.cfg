SPECIFICATION BrowserSpec
CONSTANTS
  Tab = {a, b}
  MaxToken = 3
  MaxAttempt = 1
  MaxOrphans = 1
  Nothing = Nothing
SYMMETRY Symmetry
INVARIANTS NoSelfConflict SessionKept
PROPERTIES SentAwayWhenOver
