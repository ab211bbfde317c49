\* A crash between hearing an early vote and counting it, on a radio that delivers everything.
SPECIFICATION DeliveredSpec
CONSTANTS
    m1 = m1
    m2 = m2
    m3 = m3
    Keys = {case}
    Senders <- Two
    Authors <- Two
    Epochs = {}
    Times = {}
    MaxSequence = 6
    Depth = 3
    Start <- FromOne
    Openers <- Two
    Speaking = {}
    DoubleVoters = {}
    Liars = {}
    Replayers = {}
    Attempts = 1
    RepairRounds = 1
    Budget = 4000
    MaxCrashes = 1
    MaxRefusals = 0
PROPERTIES
    HeldVotesAreOffered
CHECK_DEADLOCK FALSE
