SPECIFICATION Spec
CONSTANTS
    Suites <- MCSuites
    Categories = {"chats", "agents"}
    ToolNames = {"calculator", "absent"}
    Registered = {"calculator"}
    MaxSteps = 2
    MinPassed = 2
    OutOf = 3
INVARIANTS
    TypeOK
    ScriptFits
    GateSound
