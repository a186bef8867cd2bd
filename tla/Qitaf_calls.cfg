\* Two requests at once, one failure; every outcome of every call.
SPECIFICATION Spec

CONSTANTS
    Requests = {r1, r2}
    Invoices = {"inv1"}
    UpdateMaxRetries = 3
    MaxIds = 4
    MaxOtps = 1
    MaxFailures = 1

INVARIANTS
    TypeOK
    RewardedOncePerCall
    StandingIsLogged

PROPERTY ImplementsAccount

\* A run ends when its GlobalIds are used up.
CHECK_DEADLOCK FALSE
