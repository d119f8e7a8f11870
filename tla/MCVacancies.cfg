SPECIFICATION Spec
CONSTANTS
    s1 = s1
    s2 = s2
    a = a
    b = b
    r1 = r1
    r2 = r2
    r3 = r3
    r4 = r4
    Section = {s1, s2}
    Seat = {a, b}
    NoTable = NoTable
    Request = {r1, r2, r3, r4}
    Wanted <- WantedSeats
    Filler = {f1, f2}
INVARIANTS
    TypeOK
    TableIsExact
    RefusalIsHonest
    DoubleGrantsAreRaces
