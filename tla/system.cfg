SPECIFICATION FairSystemSpec
CONSTANTS
    c1 = c1 u1 = u1 f1 = f1 l1 = l1 w1 = w1 w2 = w2
    None = None AnyFinger = AnyFinger
    Client = {c1}
    User = {u1}
    Finger = {}
    Listener = {l1}
    Worker = {w1}
    UserOf <- OneUser
    Root = {}
    MAX_TEMPLATES = 2
    Method = {"Claim", "EnrollStart", "EnrollStop"}
    Username = {None}
    Polite = TRUE
    MaxCalls = 3
    MaxEvents = 2
    MaxSignals = 0
PROPERTIES ImplementsDevice StopReachesSensor ReportReaches
CHECK_DEADLOCK FALSE
