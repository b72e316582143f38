SPECIFICATION FairSpec
CONSTANTS
    sa = sa
    sb = sb
    NoSlug = NoSlug
    Slugs <- MCSlugs
    Bandeja <- MCBandeja
    Vibora <- MCVibora
    Files <- MCFiles
    Cues = 2
    FreeLessonMax = 1
    Reqs = {r1}
    MaxSeeds = 2
    MaxSaves = 2
INVARIANTS TypeOK ProgressIsEarned ListIsWhole LessonBadgesAreEarned
PROPERTIES SeedIsItsFile RequestsEnd
