CONSTANTS
    Keys = {k1, k2, k3}
    Requests = {r1, r2}
    Node = {n1, n2}
    Manager = Manager
    NULL = NULL
    Locations <- MCLocations
    MaxFiles = 1
    MaxCrashes = 1
SPECIFICATION Spec
SYMMETRY Symmetry
INVARIANTS
    TypeOK
    NodesHeld
    UpdateOwned
CHECK_DEADLOCK FALSE
