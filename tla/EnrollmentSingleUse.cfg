SPECIFICATION Spec
CONSTANTS
    d1 = d1
    d2 = d2
    Devices <- MCDevices
    Registered <- MCRegistered
    Nonces = {n1}
    Requests = {r1, r2}
    NonceTTL = 1
    MaxClock = 3
INVARIANT NonceSingleUse
CHECK_DEADLOCK FALSE
