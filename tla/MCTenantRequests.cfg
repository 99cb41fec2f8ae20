SPECIFICATION Spec
CONSTANTS
    r1 = r1
    r2 = r2
    r3 = r3
    Requests = {r1, r2, r3}
    Budget = 2
    Costs = {1, 2}
    Policy <- MCPolicy
    Bodies <- MCBodies
    Answers <- MCAnswers
    MaxAnswers = 2
    MaxMonth = 1
SYMMETRY MCSymmetry
INVARIANTS
    TypeOK
    LedgerBalances
    AnswersCharged
    StopsAudited
PROPERTIES
    OvershootInFlight
    StopsAreFinal
    KeepsLedger
