SPECIFICATION FairChatSpec
CONSTANTS
    MaxChunks = 3
    MaxTurns = 3
    Limits = {1, 2, 3, 4}
    PromptLimit = 4
CHECK_DEADLOCK FALSE
INVARIANTS TypeOK RepliesReadBack HistoryTypeOK NothingSkipped PromptKeepsTurns
PROPERTIES ReplySpec BothEnd PagesGoBack RootReached
