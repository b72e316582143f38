SPECIFICATION Spec
CONSTANTS
    MaxCodes = 2
    Reqs = {r1, r2}
    NoReq = NoReq
    MaxAttempts = 2
    MaxLost = 1
SYMMETRY Symmetry
INVARIANTS TypeOK WrongGuessesBounded LiveCodesOverlapped ResendOverlapped NoPasswordAttached
PROPERTIES PromiseSpec
