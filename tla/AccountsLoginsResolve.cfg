\* Two calls at a time and up to two users, of three names.
SPECIFICATION Spec
CONSTANTS
    bob = bob
    Bob = Bob
    eve = eve
    kim = kim
    Absent = absent
    Names = {bob, Bob, eve}
    Lower <- MCLower
    Words = {w1}
    Ids = {u1, u2}
    Calls = {c1, c2}
SYMMETRY Symmetry
INVARIANTS
    LoginsResolve
