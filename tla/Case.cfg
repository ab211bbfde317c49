SPECIFICATION Spec
CONSTANTS
    MaxSecond = 10
    Skew = 2
    Nodes = {n1, n2}
    Authors = {a1}
    Subjects = {s1, s2}
    Subject = s1
    CutoffSeconds = 3
    Expiries <- MCExpiries
INVARIANTS
    IndInv
    OneVotePerAuthor
    AllMayCloseBeforeBindingSlots
PROPERTIES
    VoteInEveryWindow
    FrozenConsultation
    ConsultationCloses
CHECK_DEADLOCK FALSE
