\* A member that votes twice, lies in its acknowledgements and replays.
SPECIFICATION LoopSpec
CONSTANTS
    m1 = m1
    m2 = m2
    m3 = m3
    Keys = {case}
    Senders <- Ends
    Authors <- Ends
    Epochs = {}
    Times = {}
    MaxSequence = 4
    Depth = 3
    Start <- Uneven
    Openers = {m1}
    Speaking = {"Consultation"}
    DoubleVoters = {m3}
    Liars = {m3}
    Replayers = {m3}
    Attempts = 2
    RepairRounds = 0
    Budget = 4000
    MaxCrashes = 0
    MaxRefusals = 0
INVARIANTS
    CountsWhatItWitnessed
PROPERTIES
    HeldVotesAreOffered
CHECK_DEADLOCK FALSE
