\* Every route, by every bearer, with what an earlier request has stored.
SPECIFICATION Spec
CONSTANTS
    u1 = u1
    u2 = u2
    d1 = d1
    d2 = d2
    p1 = p1
    p2 = p2
    Users = {u1, u2}
    Devices = {d1, d2}
    Serials = {s1}
    ReportIds = {p1, p2}
    Undefined = Undefined
SYMMETRY Symmetry
INVARIANTS
    TypeOK
    HandlersFindTheirFields
    UploadsHaveABearer
    ClosedRoutes
PROPERTIES
    OwnersOnly
