SPECIFICATION Metadata
CONSTANTS
    Code = {c}
    Image = {i1, i2}
    Profile = {p1, p2}
    Job = {j1, j2, j3}
    None = None
    RowId = {1, 2, 3}
    SortKey = {0, 1}
    Holder = {"t", "u"}
    Value = {"x", "y"}
    ScopeOf <- MCScope
    Labelling <- MCLabelling
    Queries <- MCQueries
    Limit = 1
    CountCap = 2
    MaxChanges = 2
    Operator = "operator"
    KeyId = {1, 2, 3}
    Secret = {s1, s2}
    Admin = {a, b}
    Foreign <- MCForeign
    NoDoc = NoDoc
    Variant = {v1, v2}
    Namespace = {n1, n2}
    Word = {x}
    Window = 2
    MaxSeconds = 3
    NoneGiven = NoneGiven
    Mode = {"pixelate", "solid"}
    Odd = "odd"
    Null = Null
    Omitted = Omitted
    Side = 50
    MaxSide = 30
    Expands = {40, 50}
    Grain = 4
    c = c
    i1 = i1
    i2 = i2
    p1 = p1
    p2 = p2
    j1 = j1
    j2 = j2
    j3 = j3
    s1 = s1
    s2 = s2
    a = a
    b = b
    v1 = v1
    v2 = v2
    n1 = n1
    n2 = n2
    x = x
SYMMETRY Alike
CHECK_DEADLOCK FALSE
INVARIANTS
    MetadataTypeOK
    CodeNamesArtifact
    SteadyListedOnce
    BackendsAgree
    RevokedStaysRevoked
    ReadsAgree
    ModesAreGated
    BoxesAreCovered
PROPERTIES
    CodesKeepPromises
    DoneIsBound
