\* The file implements the abstract journal across power cuts, and memory agrees with it.
SPECIFICATION Spec
CONSTANTS
    k1 = k1
    k2 = k2
    s1 = s1
    a1 = a1
    Keys <- OneKey
    Senders <- OneSender
    Authors <- OneAuthor
    Epochs = {0, 1}
    Times = {}
    MaxSequence = 2
    Starts = {1}
    Threshold = 3
    Inodes = {1, 2}
    CrashKinds = {"power"}
    Faults = {"refused"}
    MaxCrashes = 1
    MaxFaults = 1
INVARIANTS
    LiveMatchesLog
    ReplayIsFold
PROPERTIES
    ImplementsJournal
