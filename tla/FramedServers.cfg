SPECIFICATION FairSpec
CONSTANTS
    Base = 4
    MaxLength = 4
    MaxBytes = 6
INVARIANTS
    StreamPreserved
    CopiesFit
    NothingHeldBack
PROPERTIES
    ImplementsFramedEcho
CHECK_DEADLOCK FALSE
