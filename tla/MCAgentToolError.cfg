\* Does a failing query leave the run going?
CONSTANTS
    MaxSteps = 2
    TokenBudget = 3
    ToolAttempts = 3
    Usage = {1, 2}
    Replies <- MCReplies
    SqlErrorAborts = TRUE
SPECIFICATION Spec
PROPERTIES
    ToolErrorKeepsRun
