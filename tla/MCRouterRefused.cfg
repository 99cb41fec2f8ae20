\* Two concurrent requests; every provider registered, and backends
\* do all that the clients tell apart.
CONSTANTS
    Provider <- MCProvider
    Context <- AllContexts
    Rules <- MCRules
    DefaultProvider = "local"
    MaxAttempts = 3
    FailureThreshold = 1
    ResetTimeout = 2
    Request = {r1, r2}
    Registered = {"local", "bedrock", "foundry"}
    Reliable = {}
    Events <- Event
    MaxTime = 4
SPECIFICATION Spec
INVARIANTS
    RefusalSurfaces
