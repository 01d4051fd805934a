SPECIFICATION Spec
CONSTANTS
    t1 = t1 t2 = t2 t3 = t3 t4 = t4
    Template = {t1, t2, t3, t4}
    Score <- Scores
    min_score = 50
INVARIANTS AcceptedAbove90
SYMMETRY TemplateSymmetry
CHECK_DEADLOCK FALSE
