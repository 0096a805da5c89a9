CONSTANTS
    Maps = {m1, m2}
    uev_wait_timeout = 1
    MaxCreates = 2
SPECIFICATION FairSpec
INVARIANTS TypeOK DelayHasReason SleeperIsWoken NoWaiterTornDown NotifyConsistent
PROPERTIES ShutdownIsFinal RequestKept RequestServed ShutdownObeyed
