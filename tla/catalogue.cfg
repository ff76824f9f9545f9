SPECIFICATION Spec
CONSTANTS
    Agent = {a1}
    Kb = {k1}
    App = {x1, x2, x3}
    Dataset = {d1, d2}
    Request = {q1, q2}
    MaxVersion = 3
    None = None
SYMMETRY Symmetry
INVARIANTS LiveHasApp NothingLeftBehind
PROPERTY OfflineStays
