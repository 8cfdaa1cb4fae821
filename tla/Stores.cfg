SPECIFICATION Stores
CONSTANTS
    Image = {i1, i2}
    Tenant = {global, t1}
    Global = global
    Processor = {w1, w2}
    Sweeper = {s}
    Reader = {r}
    Deleter = {d}
    NoImage = NoImage
    Cap = 1
    Stored = {i1}
    Request <- MCRequest
    Overlapping = FALSE
    MaxJobs = 2
    MaxDeletes = 1
    MaxFaults = 1
    Sha = {x1, x2}
    Claimant = {t1, t2}
    Together = FALSE
    t2 = t2
    ExternalId = {c1}
    Owner <- MCOwner
    Owned = t1
    Writer = {w1, w2}
    MaxDeaths = 1
    Nothing = Nothing
    x1 = x1
    x2 = x2
    c1 = c1
    i1 = i1
    i2 = i2
    global = global
    t1 = t1
    w1 = w1
    w2 = w2
    s = s
    r = r
    d = d
    Region = {r1, r2}
    Editor = {e}
    Runner = {w1, w2}
    MaxRows = 2
    MaxSlips = 1
    Absent = Absent
    r1 = r1
    r2 = r2
    e = e
    Blob = {b1}
    Mover = {w1, w2}
    Careful = FALSE
    MaxVersions = 2
    NoBytes = NoBytes
    b1 = b1
SYMMETRY AlikeImages
CHECK_DEADLOCK FALSE
INVARIANTS
    StoresTypeOK
    LiveRowHasBlob
    LiveOriginalHasSource
    ObjectsAccounted
    CapOvershoot
    ProjectionCurrent
    PointersHaveImage
    RegionsBurned
    MovesLoseNothing
PROPERTIES
    OthersKeepLabels
