SPECIFICATION Spec
CONSTANTS
    Turn = {t1, t2}
    MaxCalls = 1
    None = None
SYMMETRY Symmetry
INVARIANTS RecordedBeforeShown OneTaskPerCall HistoryIsWhole
PROPERTY ErrorIsLast
