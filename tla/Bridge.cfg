SPECIFICATION BridgeSpec
CONSTANTS
    MaxLate = 1
    MaxRestarts = 1
    MaxSlices = 2
    MayClose = TRUE
INVARIANTS
    AnswersAreCurrent
    HintIsNoFact
PROPERTIES
    InterruptIsServed
    CommandIsTaken
CHECK_DEADLOCK FALSE
