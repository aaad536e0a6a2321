SPECIFICATION Spec
CONSTANTS
    Requests = {q1, q2}
    LoginLimit = 3
    Threshold = 2
    MaxRequests = 6
    MaxSessions = 3
    MaxExpiries = 1
    MaxCrashes = 1
SYMMETRY Interchangeable
INVARIANTS
    OneLiveSession
    LimitsHold
    LockHasClock
CHECK_DEADLOCK FALSE
