--------------------------- MODULE MCFingerprintMerge --------------------------
EXTENDS FingerprintMerge
Scores == {-40, -20, 0, 70}
================================================================================
