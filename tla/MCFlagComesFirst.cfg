SPECIFICATION Spec
CONSTANTS
    Kinds <- OnlyCommands
    SessionsOf <- MCSessionsOf
    MaxLinks = 3
    MaxMcpBytes = 4
INVARIANT FlagComesFirst
\* A command ends when it has printed its card.
CHECK_DEADLOCK FALSE
