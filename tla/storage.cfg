SPECIFICATION Spec
CONSTANTS
    u1 = u1 u2 = u2 f1 = f1 k1 = k1 k2 = k2
    User = {u1, u2}
    Finger = {f1}
    Key = {k1, k2}
    NoFile = NoFile
    MaxFaults = 2
INVARIANTS Synced
PROPERTIES ImplementsStore
CHECK_DEADLOCK FALSE
