\* Two customers, two requests at once: edits of the catalogue, or uses of a coupon.
SPECIFICATION EditsSpec

CONSTANTS
    Requests = {r1, r2}
    r1 = r1
    r2 = r2
    Customers = {1, 2}
    Segments = {s1, s2, s3}
    s1 = s1
    s2 = s2
    s3 = s3
    Members <- MCMembers
    CampaignForms <- MCCampaignForms
    RuleForms <- MCRuleForms
    OfferForms <- MCOfferForms
    MaxCalls = 4
    Users = {c1, c2}
    c1 = c1
    c2 = c2
    SegmentMembers = {c1}
    CampaignAudience = {c1}
    CampaignSegmented = FALSE
    Terms <- MCTerms
    LastDay = 0
    Days = 1
    MaxCredits = 3
    MaxDisturbances = 1

SYMMETRY Symmetry

INVARIANTS
    AsAsked
    OneCodeEach
    IssuedWhereLinked
    TraceFollowsCredit

PROPERTIES
    RemovedStaysRemoved
    LimitsKept

CHECK_DEADLOCK FALSE
