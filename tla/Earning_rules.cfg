\* Two requests at once, two days of two years, one disturbance.
SPECIFICATION Spec

CONSTANTS
    Requests = {r1, r2}
    Rules <- MCRules
    CampaignRate = 150
    BurnRules <- MCBurnRules
    BurnLists <- MCBurnLists
    Amounts = {3}
    Year = 2
    Days = 2
    InitialPoints = 300
    MaxTxs = 3
    MaxDisturbances = 1
    r1 = r1
    r2 = r2

SYMMETRY Symmetry

INVARIANTS
    TypeOK
    
    OncePerPeriod
    NeverOverdrawn

\* A run ends when its requests are used up.
CHECK_DEADLOCK FALSE
