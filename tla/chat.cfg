CONSTANTS
    Sockets = {s1, s2}
    Watched = s1
    Earlier = 1
    MaxTurns = 3
SPECIFICATION Spec
INVARIANTS
    TurnsAreWhole
    DoneMeansKept
PROPERTIES
    SpeaksProtocol
    AlwaysSettled
