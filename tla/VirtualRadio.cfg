SPECIFICATION Spec
CONSTANTS
    near = near
    level = level
    far = far
    self = self
    Others <- MCOthers
    Vessel = self
    Rssi <- MCRssi
    Airtime <- MCAirtime
    Cut = {far}
    isolate = 2
    Retention = 5
    MayLose = TRUE
    MaxOthers = 2
    MaxOwn = 2
    MaxTime = 4
    lead_symbols = 1
    locked_symbols = 2
    header_end_symbols = 3
    capture_threshold_db = 6
    SENSITIVITY_DBM = 5
    OWN_DBM = 100
    tolerance = 1
INVARIANTS
    JudgedAgainstAll
    HeardWhole
    ReportedOnce
    WrecksAreTelemetry

    
