---------------------------- MODULE MCPrintStorage -----------------------------
EXTENDS PrintStorage
CONSTANTS u1, u2, f1, k1, k2
================================================================================
