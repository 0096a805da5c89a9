SPECIFICATION Spec
CONSTANTS
    a = a
    b = b
    c = c
    Paths = {a, b, c}
    Wwids <- Stable
    Blacklisted = {c}
    uid_attrs = TRUE
    MAX_UEVENTS = 2
    MaxEvents = 4
INVARIANTS TypeOK TableAgrees OppositeInOrder DmEventsKept BusyWhileEvents NoEventStranded
SYMMETRY Symmetry
CHECK_DEADLOCK FALSE
