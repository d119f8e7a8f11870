SPECIFICATION FairSpec
CONSTANTS
    s1 = s1
    x1 = x1
    alice = alice
    bob = bob
    a = a
    b = b
    r1 = r1
    r2 = r2
    Schedule = {s1}
    Seat = {x1}
    Address = {a, b}
    NoOne = NoOne
    User = {alice}
    Reservation = {r1}
    Reserver <- OneUser
    ReservedTicket <- SameSeat
    Worker = {w1, w2}
    Publisher = {p1}
    Nobody = Nobody
    Capacity = 1
    MaxFaults = 2
    MaxWallets = 1
PROPERTIES
    ConfirmedIsSettled
    CancelInTimeIsFinal
