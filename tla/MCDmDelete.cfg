SPECIFICATION Spec
CONSTANTS
    m1 = m1
    Maps = {m1}
    Creatable = {m1}
    MaxVer <- ThreeEach
    DmMayFail = FALSE
    UeventsMayBeLost = FALSE
INVARIANT DeletedOnlyIfGone
CHECK_DEADLOCK FALSE
