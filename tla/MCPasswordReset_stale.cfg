SPECIFICATION FairSpec
CONSTANTS
    MaxCodes = 2
    Reqs = {r1, r2}
    NoReq = NoReq
    MaxAttempts = 2
    MaxLost = 0
INVARIANTS OldCodesDead
