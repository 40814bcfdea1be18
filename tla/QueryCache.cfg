CONSTANTS
    Caller = {c1, c2}
    Key = {k1, k2}
    Requests <- SingleKeys
    TTL = 2
    MaxFetch = 1
    Horizon = 3
SPECIFICATION Spec
SYMMETRY Symmetry
INVARIANTS
    TypeOK
    NoFabricatedVanish
    FewFetches
PROPERTIES
    ImplementsOracle
