SPECIFICATION Spec
CONSTANTS
    r1 = r1
    r2 = r2
    r3 = r3
    r4 = r4
    k0 = k0
    k1 = k1
    k2 = k2
    k3 = k3
    Request = {r1, r2, r3, r4}
    Key = {k0, k1, k2, k3}
    NoKey = NoKey
    Bootstrap = k0
    Nobody = Nobody
    Grants = {"developer"}
SYMMETRY MCSymmetry
INVARIANTS
    TypeOK
    NoLateAccess
    ReplacedIsRevoked
    AnswersHold
PROPERTIES
    KeepsLifecycle
