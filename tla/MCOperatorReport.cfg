SPECIFICATION Spec
CONSTANTS
    Command = {c1}
    Schedule = {s}
    Seat = {x}
    Cover = {k}
    NoHash = NoHash
SYMMETRY Interchangeable
INVARIANTS
    ReportedIsPublished
