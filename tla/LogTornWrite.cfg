\* A write that fails half-way, then appends after it.
SPECIFICATION Spec
CONSTANTS
    k1 = k1
    k2 = k2
    s1 = s1
    a1 = a1
    Keys <- OneKey
    Senders <- NoMembers
    Authors <- NoMembers
    Epochs = {}
    Times = {}
    MaxSequence = 3
    Starts = {1}
    Threshold = 9
    Inodes = {1, 2}
    CrashKinds = {"kill", "power"}
    Faults = {"torn"}
    MaxCrashes = 1
    MaxFaults = 1
INVARIANTS
    SequenceNeverReused
