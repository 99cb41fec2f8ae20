SPECIFICATION FairSpec
CONSTANTS
    r1 = r1
    r2 = r2
    r3 = r3
    acme = acme
    globex = globex
    unknown = unknown
    Requests = {r1, r2, r3}
    Tenants = {acme, globex, unknown}
    Configured = {acme, globex}
    Workloads <- MCWorkloads
    Capacity = 2
    Limit = 1
INVARIANTS
    TypeOK
    PoolBalanced
    ReadsRight
PROPERTIES
    EveryRequestEnds
