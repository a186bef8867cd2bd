CONSTANTS
    ann = ann
    bob = bob
    Customers = {ann, bob}
    Requests = {r1, r2}
    People <- MCPeople
    TierIds = {"base", "gold"}
    Languages = {"en", "ar"}
    TierForms <- MCTierForms
    Totals = {4, 5}
    Discounts <- MCDiscounts
    Bills = {40}
    Rates <- MCRates
    Sent <- MCSent
    Lower <- MCLower
    Simple <- MCSimple
    Complex <- MCComplex
    MaxCalls = 4
SPECIFICATION EligibilitySpec
INVARIANTS
    NextTierFollows
    PaidAsEntitled
    CriteriaSuffice
    EchoIsAccepted
CHECK_DEADLOCK FALSE
