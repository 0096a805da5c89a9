CONSTANTS
    Ctx = {r1, r2}
    MAX_NR_TIMEOUTS = 1
    SysfsUp = {TRUE}
    NULL = NULL
SPECIFICATION AsyncSpec
SYMMETRY Symmetry
INVARIANTS AsyncTypeOK OwnsOnlyRtx PendingHasRunner
