\* One instance, its two crons and the requests of one customer, interleaved.
SPECIFICATION FairSpec

CONSTANTS
    Requests = {r1}
    Instances = {i1}
    EarnPoints = {250}
    BurnPoints = {150, 2000}
    Validities = {0}
    MaxEntries = 2
    MaxTx = 5
    MaxDay = 4
    MaxFailures = 1
    r1 = r1
    i1 = i1
    Settings <- AllSettings

INVARIANTS
    TypeOK
    OneExpiryPerEarn
    LedgerConserved

PROPERTIES
    StatusMovesForward
    PendingEventuallyUnlocked
    EventPointsEventuallyExpire
