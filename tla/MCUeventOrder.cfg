SPECIFICATION Spec
CONSTANTS
    a = a
    b = b
    c = c
    Paths = {a, b}
    Wwids <- Renamed
    Blacklisted = {}
    uid_attrs = TRUE
    MAX_UEVENTS = 3
    MaxEvents = 3
INVARIANT PathInOrder
CHECK_DEADLOCK FALSE
