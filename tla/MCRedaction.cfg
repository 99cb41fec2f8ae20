\* All texts of four characters, by where three patterns match in them.
CONSTANTS
    Length = 4
    Entities <- MCEntities
    Patterns = {"email", "credit_card", "phone"}
    Width <- MCWidth
SPECIFICATION Spec
INVARIANTS
    TypeOK
    RedactsExactly
    NothingLeft
    OffsetsValid
