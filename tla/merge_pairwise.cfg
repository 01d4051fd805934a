SPECIFICATION Spec
CONSTANTS
    MAX_TEMPLATES = 4
    Score <- Scores
INVARIANTS EnrollMinPairwise
CHECK_DEADLOCK FALSE
