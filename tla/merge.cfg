SPECIFICATION Spec
CONSTANTS
    MAX_TEMPLATES = 4
    Score <- Scores
INVARIANTS TypeOK PairwiseGate RoundTrip
CHECK_DEADLOCK FALSE
