SPECIFICATION Spec
CONSTANTS
    Questions = {1, 2}
    PassingScore = 1
    MaxPapers = 2
    MaxAttempts = 2
    Reqs = {r1, r2}
    Target = 2
    MaxRows = 4
    MaxBesideExam = 0
    MaxBesideLook = 1
    MaxInFlight = 2
INVARIANTS
    TypeOK
    GradedByItsPaper
    ReviewAgrees
    OnePassFindsBadges
    UnlockedHasTime
    LicenseIsEarned
PROPERTIES
    LoggingKeepsBadges
SYMMETRY ReqSymmetry
