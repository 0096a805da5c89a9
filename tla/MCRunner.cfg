CONSTANT Ctx = {r1}
SPECIFICATION FairSpec
INVARIANTS TypeOK RefsExact CancelTargetsLiveThread CancelAssertHolds
    ResultComplete ReleasedNeverStarts
PROPERTIES FinalStatusStable StartedContextsFreed
