SPECIFICATION FairSpec
CONSTANTS
    User = {u1, u2, u3}
    Limit = 2
    Nobody = Nobody
    MaxVisits = 3
    MaxFaults = 1
CHECK_DEADLOCK FALSE
INVARIANTS
    TypeOK
    LimitHolds
    FirstComeFirstServed
    NobodyIsForgotten
PROPERTIES
    EverybodyGetsATurn
    ImplementsTurnstile
