\* The checkout API, one handler at a time: refunds of one invoice.
CONSTANTS
    r1 = r1
    Requests = {r1}
    MaxInFlight = 1
    Tenants <- CheckoutOnly
    TTL = 1
    InitialPoints = 300
    Amounts = {2}
    BurnPoints = {2}
    Invoices = {"inv1"}
    Limit = 3
    Factor = 100
    Percent = 50
    MinAmount = 1
    MaxTx = 3
    MaxOtp = 0
    MaxTime = 0
    MaxFailures = 0
SPECIFICATION Spec
INVARIANTS
    RefundedOnce
