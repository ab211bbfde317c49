\* Three members, nobody dies: lost votes are asked for and carried.
SPECIFICATION Spec
CONSTANTS
    m1 = m1
    m2 = m2
    m3 = m3
    Keys = {case}
    Senders <- Three
    Authors <- Three
    Epochs = {}
    Times = {}
    MaxSequence = 3
    Depth = 3
    Start <- Uneven
    Openers = {m1}
    Speaking = {}
    DoubleVoters = {}
    Liars = {}
    Replayers = {}
    Attempts = 1
    RepairRounds = 1
    Budget = 4000
    MaxCrashes = 0
    MaxRefusals = 0
INVARIANTS
    EndorsementIsBacked
CHECK_DEADLOCK FALSE
