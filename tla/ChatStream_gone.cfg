SPECIFICATION FairSpec
CONSTANTS MaxChunks = 2
CHECK_DEADLOCK FALSE
PROPERTIES SavedEvenIfClientDisconnects
