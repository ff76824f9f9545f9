SPECIFICATION Spec
CONSTANTS
    u1 = u1
    Request = {r1, r2}
    Caller = {r1, r2}
    UserOf <- Owner
    MaxSlots = 1
    PerUser = 2
    Refresher = Refresher
    MaxSessions = 3
    None = None
INVARIANTS SlotsConserved
PROPERTIES RetryIsFresh UploadsEnd
