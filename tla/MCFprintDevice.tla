----------------------------- MODULE MCFprintDevice ----------------------------
EXTENDS FprintDevice, TLC

CONSTANTS c1, c2, u1, u2, f1, f2, l1, l2, l3, w1, w2, w3

MCUserOf == [c \in Client |-> IF c = c1 THEN u1 ELSE u2]
OneUser  == [c \in Client |-> u1]
TaskSymmetry == Permutations(Listener) \cup Permutations(Worker)
================================================================================
