SPECIFICATION Spec
CONSTANTS
    Moving <- MCMoving
    MaxChanges = 2
    Windows = {0, 4, 16}
    Advertised = {0, 2, 8, 32}
INVARIANTS
    ReportsAgree
    ExitTwoIsEarned
PROPERTIES
    UnfinishedNeverPromotes
    BetterAnswersBetterCard
