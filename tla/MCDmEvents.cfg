SPECIFICATION FairSpec
CONSTANTS
    m1 = m1
    Maps = {m1}
    Creatable = {m1}
    MaxVer <- FourEach
    DmMayFail = TRUE
    UeventsMayBeLost = TRUE
INVARIANTS TypeOK QuiescentInSync
PROPERTIES TableFollows
CHECK_DEADLOCK FALSE
