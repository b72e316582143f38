SPECIFICATION Spec
CONSTANTS
    MaxPreps = 1
    MaxWrites = 3
    MaxQueue = 2
    Reqs = {r1, r2}
    NoReq = NoReq
INVARIANTS TypeOK QueueIsOneWrite AnswersAreTrue HundredMeansDone
