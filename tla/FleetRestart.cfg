\* Two members, two crashes and a failed write anywhere: reserve, commit, transmit, witness, restore.
SPECIFICATION Spec
CONSTANTS
    m1 = m1
    m2 = m2
    m3 = m3
    Keys = {case}
    Senders <- Two
    Authors <- Two
    Epochs = {}
    Times = {}
    MaxSequence = 4
    Depth = 3
    Start <- FromOne
    Openers = {m1}
    Speaking = {}
    DoubleVoters = {}
    Liars = {}
    Replayers = {}
    Attempts = 1
    RepairRounds = 1
    Budget = 4000
    MaxCrashes = 2
    MaxRefusals = 1
INVARIANTS
    NoncesUnique
    OneBindingFrame
    CountedIsCommitted
    RestoredIsCounted
    AcknowledgedIsDurable
CHECK_DEADLOCK FALSE
