SPECIFICATION PartsSpec
CONSTANTS
    Depth = 3
    MaxSequence = 6
    long = long
    brief = brief
    f1 = f1
    f2 = f2
    f3 = f3
    f4 = f4
    Offered <- MCOffered
    max_items = 2
    max_bytes = 3
    DISTRESS_BURST = 2
    MAX_DEDUP_ENTRIES = 4
    Instants = {2}
    DUTY_CYCLE_BUDGET_MS = 4
    DUTY_CYCLE_WINDOW_MS = 3
    Priors = {0, 3}
    Airtimes = {1, 2}
    MaxTime = 8
INVARIANTS
    IndInv
    RememberedIsSeen
    BytesExact
    FairShare
    QueuedIsRemembered
    DutyCycle
SYMMETRY Alike
CHECK_DEADLOCK FALSE
