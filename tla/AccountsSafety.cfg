\* Two calls at a time and up to three users, of four names and two passwords.
SPECIFICATION Spec
CONSTANTS
    bob = bob
    Bob = Bob
    eve = eve
    kim = kim
    Absent = absent
    Names = {bob, Bob, eve, kim}
    Lower <- MCLower
    Words = {w1, w2}
    Ids = {u1, u2, u3}
    Calls = {c1, c2}
SYMMETRY Symmetry
INVARIANTS
    TypeOK
    OneAccountPerAddress
    TokensOfRegulars
PROPERTY ImplementsContract
