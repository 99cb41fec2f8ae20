\* Three concurrent requests over the shipped rules; foundry always answers.
CONSTANTS
    Provider <- MCProvider
    Context <- DistinctContexts
    Rules <- MCRules
    DefaultProvider = "local"
    MaxAttempts = 3
    FailureThreshold = 2
    ResetTimeout = 2
    Request = {r1, r2, r3}
    Registered = {"local", "bedrock", "foundry"}
    Reliable = {"foundry"}
    Events = {"answered", "overloaded", "unauthorized", "cancelled"}
    MaxTime = 4
SYMMETRY Symmetry
SPECIFICATION Spec
INVARIANTS
    TypeOK
    BreakersConsistent
    CallsPredateOpening
    ReliableProviderServes
    SensitiveStaysLocal
PROPERTIES
    FollowsProtocol
