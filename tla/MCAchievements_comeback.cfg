SPECIFICATION Spec
CONSTANTS
    Questions = {1}
    PassingScore = 1
    MaxPapers = 1
    MaxAttempts = 1
    Reqs = {r1}
    Target = 2
    MaxRows = 4
    MaxBesideExam = 0
    MaxBesideLook = 0
    MaxInFlight = 1
INVARIANTS CatalogueComeback
