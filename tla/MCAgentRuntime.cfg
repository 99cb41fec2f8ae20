\* One agent run on Postgres: up to three model calls of one or two tokens.
CONSTANTS
    MaxSteps = 3
    TokenBudget = 3
    ToolAttempts = 3
    Usage = {1, 2}
    Replies <- MCReplies
    SqlErrorAborts = TRUE
SPECIFICATION FairSpec
INVARIANTS
    TypeOK
    LedgerComplete
    TraceAddsUp
    AllOrNothing
    ReplyMatchesRecord
    ReplyCountsCalls
    ConversationWellFormed
    SpendingBounded
    ReplayGroups
PROPERTIES
    EveryRunEnds
