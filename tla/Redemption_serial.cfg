\* One handler at a time, with one-time passwords; one may die half-way.
CONSTANTS
    r1 = r1
    Requests = {r1}
    MaxInFlight = 1
    Tenants <- AnyWithOtp
    TTL = 2
    InitialPoints = 250
    Amounts = {2}
    BurnPoints = {0, 2, 4}
    Invoices = {"inv1"}
    Limit = 3
    Factor = 100
    Percent = 50
    MinAmount = 1
    MaxTx = 2
    MaxOtp = 3
    MaxTime = 3
    MaxFailures = 1
SPECIFICATION Spec
\* The rows and the clock run out (MaxTx, MaxOtp, MaxTime): the model stops.
CHECK_DEADLOCK FALSE
INVARIANTS
    EveryBurnHasItsCode
    CheckoutLedgerBalanced
