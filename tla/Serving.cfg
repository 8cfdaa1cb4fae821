SPECIFICATION Serving
CONSTANTS
    Cli = {}
    Mortal = {i1}
    Worker = {w1}
    Big = {}
    MaxBytes = 2
    QueueMax = 1
    Shareable = TRUE
    Transactional = TRUE
    Overlap = TRUE
    Stalling = {i1, i2}
    Instance = {i1, i2}
    Job = {s1}
    Uploads = {s1}
    None = None
    i1 = i1
    w1 = w1
    i2 = i2
    s1 = s1
    Size <- MCSize
    Starter = {p1, p2, p3}
    Elsewhere = {p3}
    Slow = {p3}
    Nobody = Nobody
    p1 = p1
    p2 = p2
    p3 = p3
    Thread = {t1, t2}
    Sweeper = sweeper
    Bucket = {b1}
    t1 = t1
    t2 = t2
    sweeper = sweeper
    b1 = b1
    OneLimit = 1
    Limit <- MCLimit
    Last = 2
    MaxHits = 2
    PruneWorks = TRUE
    MaxPids = 3
    Stranger = Stranger
    NoPid = NoPid
    Memories = {64, 128, 200, 248, 249, 250, 251, 256, 265, 266, 267, 300, 360, 400, 512, 750, 1024, 1500, 2048}
    Cpus = {5, 20, 40, 160}
    Unknown = Unknown
CHECK_DEADLOCK FALSE
INVARIANTS
    ServingTypeOK
    UploadHeldOnce
    NoLostUpload
    OneMigrator
    StartsSucceed
    LimitExact
    RefusedAccounted
    RecordedIsFound
    AutoFits
PROPERTIES
    UploadsSettle
    LabelsKept
    StartsEnd
    BurstSurfaces
