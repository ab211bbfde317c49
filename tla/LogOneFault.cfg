\* Any one failed file-system call, on a log that is rewritten after every record.
SPECIFICATION Spec
CONSTANTS
    k1 = k1
    k2 = k2
    s1 = s1
    a1 = a1
    Keys <- OneKey
    Senders <- NoMembers
    Authors <- NoMembers
    Epochs = {}
    Times = {1, 2}
    MaxSequence = 3
    Starts = {1}
    Threshold = 0
    Inodes = {1, 2, 3, 4}
    CrashKinds = {"kill", "power"}
    Faults = {"refused", "torn", "unsynced", "no-rewrite", "no-dir-sync", "no-reopen"}
    MaxCrashes = 2
    MaxFaults = 1
INVARIANTS
    SequenceNeverReused
    OneVotePerCase
    EveryCrashKeepsPromises
