\* Two accounts of a number, two referrers, two requests at once.
SPECIFICATION AccountsSpec

CONSTANTS
    MaxCustomers = 2
    Requests = {r1, r2}
    Referrers = {p1, p2}
    Once = {"sign_up", "email_addition", "referral"}
    MaxCodes = 2
    MaxCalls = 6
    MaxRacing = 3
    MaxDisturbances = 1
    r1 = r1
    r2 = r2
    p1 = p1
    p2 = p2

SYMMETRY Symmetry

INVARIANTS
    WelcomedOnce
    OneAccount
    ReferredOnce

CHECK_DEADLOCK FALSE
