\* Two calls at a time on two devices and one serial, three where only one of
\* the devices has been touched (Overlap).
SPECIFICATION Spec
CONSTANTS
    u1 = u1
    u2 = u2
    Devices = {d1, d2}
    Users <- MCUsers
    Owner <- MCOwner
    Serials = {s1}
    NoSerial = NoSerial
    Tokens = {j1}
    Calls = {c1, c2, c3}
    MaxVersion = 2
CONSTRAINT Overlap
SYMMETRY Symmetry
INVARIANTS
    TypeOK
    NoTokenOutlivesRevocation
PROPERTIES
    ImplementsContract
    SuspensionSticks
    BlacklistHolds
