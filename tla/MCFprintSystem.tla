----------------------------- MODULE MCFprintSystem ----------------------------
EXTENDS FprintSystem

CONSTANTS c1, u1, f1, l1, w1, w2

OneUser == [c \in Client |-> u1]
================================================================================
