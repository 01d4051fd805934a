SPECIFICATION FairSpec
CONSTANTS
    MaxPlugs = 2
    MaxReports = 3
    MaxOrders = 2
INVARIANTS OneControl KeyBeforeTLS NoEarlyImages IdleArmed DeviceListed
PROPERTIES OrdersServed GoneNoticed
CHECK_DEADLOCK FALSE
