SPECIFICATION FairSpec
CONSTANTS
    Names <- MCNames
    Definitions <- MCDefinitions
INVARIANTS
    TypeOK
    NoFillWithoutInput
    SecretsForgotten
    CodeTypedOnce
PROPERTIES
    Answered
    FollowsProtocol
CHECK_DEADLOCK FALSE
