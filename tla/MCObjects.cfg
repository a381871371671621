SPECIFICATION Spec
CONSTANTS
    Ids = {i1, i2}
    Entities = {e1, e2}
    NotSaved = {e2}
    Blocks = {b1, b2}
    None = None
    Clients = {c1}
    FarApart <- Nowhere
    MaxObjectsPerBlock = 8
    Races = {}
    MaxChanges = 3
SYMMETRY Alike
INVARIANTS
    OneCopy
    StaticEntries
    IdsKept
