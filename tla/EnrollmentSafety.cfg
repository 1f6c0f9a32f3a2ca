\* Three overlapping verify requests over two nonces; nonces live for one tick.
SPECIFICATION Spec
CONSTANTS
    d1 = d1
    d2 = d2
    Devices <- MCDevices
    Registered <- MCRegistered
    Nonces = {n1, n2}
    Requests = {r1, r2, r3}
    NonceTTL = 1
    MaxClock = 3
SYMMETRY Symmetry
INVARIANTS
    TypeOK
    CertRequiresSpentNonce
    DeliveredCertIsOwn
PROPERTIES
    SealedNonceStaysSealed
    ImplementsContract
\* Requests are finitely many and the clock stops at MaxClock.
CHECK_DEADLOCK FALSE
