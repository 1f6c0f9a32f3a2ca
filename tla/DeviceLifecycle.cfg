\* Two enrollments beside one call at a time on two devices; nonces live until
\* the clock ticks.  No symmetry: it is not sound for liveness.
SPECIFICATION FairSpec
CONSTANTS
    d1 = d1
    d2 = d2
    n1 = n1
    n2 = n2
    r1 = r1
    r2 = r2
    u1 = u1
    Devices = {d1, d2}
    Users = {u1}
    Owner <- MCOwner
    Tokens = {j1}
    Calls = {c1}
    MaxVersion = 1
    NoSerial = NoSerial
    Nonces = {n1, n2}
    Requests = {r1, r2}
    NonceTTL = 0
    MaxClock = 1
    Bodies <- MCBodies
INVARIANTS
    TypeOK
    HeldCertOnRecord
    TokenTracesToNonce
PROPERTIES
    ImplementsAccessContract
    SealedNonceStaysSealed
    EveryNonceSealed
CHECK_DEADLOCK FALSE
