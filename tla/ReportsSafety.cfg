\* Three calls at a time, two users, names for two uploads.
SPECIFICATION Spec
CONSTANTS
    Owners = {o1, o2}
    Devices = {d1}
    FileNames = {f1, f2, f3, f4}
    Ids = {i1, i2}
    Calls = {c1, c2, c3}
    NoFile = NoFile
    NoDevice = NoDevice
SYMMETRY Symmetry
INVARIANTS
    TypeOK
    FilesOfRows
    NoSilentOrphans
PROPERTY ImplementsContract
