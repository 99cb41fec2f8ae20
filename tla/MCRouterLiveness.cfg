\* Two concurrent requests; bedrock is a candidate but not registered.
CONSTANTS
    Provider <- MCProvider
    Context <- AllContexts
    Rules <- MCRules
    DefaultProvider = "local"
    MaxAttempts = 3
    FailureThreshold = 1
    ResetTimeout = 2
    Request = {r1, r2}
    Registered = {"local", "foundry"}
    Reliable = {}
    Events = {"answered", "overloaded", "unauthorized", "cancelled"}
    MaxTime = 4
SPECIFICATION FairSpec
PROPERTIES
    EveryRouteEnds
