\* Two handlers of either API, interleaved at every await; one may die half-way.
CONSTANTS
    r1 = r1
    r2 = r2
    Requests = {r1, r2}
    MaxInFlight = 2
    Tenants <- Mixed
    TTL = 1
    InitialPoints = 250
    Amounts = {2}
    BurnPoints = {0, 2, 4}
    Invoices = {"inv1"}
    Limit = 3
    Factor = 100
    Percent = 50
    MinAmount = 1
    MaxTx = 3
    MaxOtp = 0
    MaxTime = 0
    MaxFailures = 1
SPECIFICATION Spec
SYMMETRY Slots
INVARIANTS
    TypeOK
    AvailableNeverNegative
    PointsNeverVanish
    BurningRespectsRule
