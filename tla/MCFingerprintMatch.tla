--------------------------- MODULE MCFingerprintMatch --------------------------
EXTENDS FingerprintMatch, TLC
CONSTANTS t1, t2, t3, t4
Scores == {-40, 49, 50, 93}
TemplateSymmetry == Permutations(Template)
================================================================================
