SPECIFICATION Spec
CONSTANTS
    Width = 2
    Address = {alice, bob}
    NoOne = NoOne
    Url = {NoUrl, url}
    NoUrl = NoUrl
    Time = {0, 1}
CONSTRAINT NoDefaultContent
SYMMETRY Holders
INVARIANTS
    TypeOK
    SeatsShareOutTickets
    IndexAgreesWithOwner
PROPERTIES
    ImplementsLedger
    SpecialContentStays
    MarksOneTicket
