SPECIFICATION Spec
CONSTANTS
    Clients = {c1, c2}
    Names = {a, b}
    Base = base
    Paths = {p}
    MaxLayers = 3
SYMMETRY Interchangeable
INVARIANTS
    TreeIntact
    OneBaseLayer
    ParentsReadonly
PROPERTIES
    RefinesLayerTree
    ChainsFixed
