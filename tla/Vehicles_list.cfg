\* Two requests at once on two cars, and two accounts of the number.
SPECIFICATION Spec

CONSTANTS
    Requests = {r1, r2}
    Plates = {car1, car2}
    MaxRows = 3
    MaxAccounts = 2
    MaxListings = 2
    MaxStarts = 4
    MaxFailures = 1
    r1 = r1
    r2 = r2
    car1 = car1
    car2 = car2

SYMMETRY Symmetry

INVARIANTS
    OneActivePerPlate
    HiddenOnceDeleted

PROPERTIES
    NothingLost

CHECK_DEADLOCK FALSE
