SPECIFICATION MCSpec
CONSTANTS
    d1 = d1 d2 = d2 t1 = t1 t2 = t2 m1 = m1 m2 = m2 p1 = p1 p2 = p2 r1 = r1 r2 = r2
    None = None
    Draft <- TwoDrafts
    Reviewer <- TwoSlots
    Curator <- TwoSlots
    Learning <- ThreeLearnings
    Topic <- TwoTopics
    Mark <- TwoMarks
    Project <- TwoProjects
    ProjectOf <- Apart
    Submitted <- Says
    Edits <- Rewrite
    ByHand <- Hand
    Instance = {"review", "curate", "client"}
CHECK_DEADLOCK FALSE
SYMMETRY Symmetry
INVARIANT OncePerDraft
INVARIANT EvidenceKept
INVARIANT ChainsEnd
INVARIANT NoSilentDuplicate
INVARIANT OneFlagPerLesson
