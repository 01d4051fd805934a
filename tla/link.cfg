SPECIFICATION FairSpec
CONSTANTS
    HEADER = 2
    PACKET = 3
    BUFFER = 6
    ClearLength = {3, 6}
    TLSLength = {8}
    InnerLength = {2, 7}
    HANDSHAKE = 7
    MaxEvents = 3
    MaxSecure = 2
INVARIANTS TidyAccepted SentInOrder
PROPERTIES ImplementsChannel EventsArrive
CHECK_DEADLOCK FALSE
