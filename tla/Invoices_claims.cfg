\* Three invoices that arrive in any order, two requests at once.
SPECIFICATION Spec

CONSTANTS
    Invoices = {i1, i2, i3}
    NumberOf <- MCNumberOf
    DateOf <- MCDateOf
    AmountOf <- MCAmountOf
    MayLackPhone = {i2}
    PaidByQitaf = {n2}
    MinAmount = 2
    Reward = 1
    TierRate = 2
    Workers = {w1, w2}
    AssignJob = TRUE
    MaxRuns = 3
    MaxDisturbances = 1
    i1 = i1
    i2 = i2
    i3 = i3
    n1 = n1
    n2 = n2
    w1 = w1
    w2 = w2

SYMMETRY Symmetry

INVARIANTS
    PaidOnce
    ClaimedIsPaid
    BalanceExplained
    NothingSkipped

CHECK_DEADLOCK FALSE
