CONSTANTS
    Ctx = {r1}
    MAX_NR_TIMEOUTS = 1
    SysfsUp = {TRUE, FALSE}
    NULL = NULL
SPECIFICATION AsyncFairSpec
PROPERTIES CheckSettles Spec
