SPECIFICATION Spec
CONSTANTS
    Command = {c1, c2}
    Schedule = {s, t}
    Seat = {x, y}
    Cover = {k}
    NoHash = NoHash
SYMMETRY Interchangeable
INVARIANTS
    TypeOK
    PublishedIsComplete
    SuccessIsPublished
PROPERTIES
    NeverUnpublished
