SPECIFICATION Spec
CONSTANTS
    Kinds <- MCKinds
    SessionsOf <- MCSessionsOf
    MaxLinks = 3
    MaxMcpBytes = 4
INVARIANTS
    AnsweredInOrder
    ReadsRight
    KeysGoToTheirVendor
    NothingInVain
    ForetellsTrue
\* The server ends with its input, and a command when it has printed its card.
CHECK_DEADLOCK FALSE
