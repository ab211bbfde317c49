SPECIFICATION ProvisioningSpec
CONSTANTS
    Manifests <- MCManifests
    Budgets <- MCBudgets
    Ratios <- MCRatios
    Observers = {1, 2}
    CAPACITY = 2
    Drafts <- MCDrafts
    Replacements <- MCReplacements
    Admins = {"admin", "other"}
    Trusted = "admin"
    Vessel <- MCVessel
    Clock = {0, 1, 2, 3}
    MaxEdits = 2
INVARIANTS
    QuorumsShareHonest
    HonestMajority
    MinSignersIsLeast
    SignedIsLoadable
    RunsWhatWasSigned
CHECK_DEADLOCK FALSE
