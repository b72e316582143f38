SPECIFICATION FairSpec
CONSTANTS
    sa = sa
    sb = sb
    NoSlug = NoSlug
    Slugs <- MCSlugs
    Bandeja <- MCBandeja
    Vibora <- MCVibora
    Files <- MCFiles
    Cues = 2
    FreeLessonMax = 1
    Reqs = {r1}
    MaxSeeds = 1
    MaxSaves = 1
PROPERTIES EverySectionSeeded
