SPECIFICATION Spec
CONSTANTS
    c1 = c1 c2 = c2 u1 = u1 u2 = u2 f1 = f1 f2 = f2
    l1 = l1 l2 = l2 l3 = l3 w1 = w1 w2 = w2 w3 = w3
    None = None AnyFinger = AnyFinger
    Client = {c1, c2}
    User = {u1, u2}
    Finger = {f1}
    Listener = {l1, l2}
    Worker = {w1}
    UserOf <- MCUserOf
    Root = {c2}
    MAX_TEMPLATES = 2
    Method = {"Claim", "ListEnrolledFingers", "DeleteEnrolledFingers",
              "DeleteEnrolledFinger", "EnrollStart", "VerifyStart", "DeleteEnrolledFingers2"}
    Username = {None, u1, u2}
    Polite = FALSE
    MaxCalls = 2
    MaxEvents = 2
    MaxSignals = 0
INVARIANTS ClaimEntitled
 
SYMMETRY TaskSymmetry
CHECK_DEADLOCK FALSE
