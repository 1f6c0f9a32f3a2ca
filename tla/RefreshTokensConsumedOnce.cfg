\* Two calls at a time on one token; a second has two ticks. A
\* revocation covers the life of a token.
SPECIFICATION Spec
CONSTANTS
    Tokens = {j1}
    Calls = {c1, c2}
    AccessTTL = 1
    RefreshTTL = 2
    RevokeTTLs = {2}
    TicksPerSecond = 2
    MaxClock = 5
SYMMETRY Symmetry
INVARIANT ConsumedOnce
\* Once every jti is taken, none handed out and the clock stopped, nothing is left to call.
CHECK_DEADLOCK FALSE
