SPECIFICATION FairSpec
CONSTANTS
    c1 = c1 c2 = c2 u1 = u1 u2 = u2 f1 = f1 f2 = f2
    l1 = l1 l2 = l2 l3 = l3 w1 = w1 w2 = w2 w3 = w3
    None = None AnyFinger = AnyFinger
    Client = {c1, c2}
    User = {u1}
    Finger = {}
    Listener = {l1, l2}
    Worker = {w1}
    UserOf <- OneUser
    Root = {}
    MAX_TEMPLATES = 1
    Method = {"Claim", "Release"}
    Username = {None}
    Polite = FALSE
    MaxCalls = 2
    MaxEvents = 0
    MaxSignals = 1
INVARIANTS GoneOnce
PROPERTIES ClaimWatched ClaimEnds DiesOnly DisconnectReleases CallsServed
CHECK_DEADLOCK FALSE
