SPECIFICATION Spec
CONSTANTS
    Requests = {r1, r2}
    Ips = {ip1}
    Window = 2
    MaxFailures = 2
    SessionTtl = 1
    MaxKeys = 2
    MaxDeviceKeys = 2
    MaxSessions = 1
CHECK_DEADLOCK FALSE
INVARIANTS
    GuessRate
    DeadStaysDead
    
PROPERTIES
    LockEnds
