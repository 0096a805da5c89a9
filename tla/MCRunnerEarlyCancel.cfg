CONSTANT Ctx = {r1}
SPECIFICATION FairSpec
PROPERTY EarlyCancelReleased
