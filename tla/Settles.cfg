SPECIFICATION Settles
CONSTANTS
    Cli = {c}
    Mortal = {c, i1}
    Worker = {w1}
    Big = {}
    MaxBytes = 2
    QueueMax = 1
    Shareable = FALSE
    Transactional = TRUE
    Overlap = FALSE
    Stalling = {}
    Instance = {c, i1, i2}
    Job = {u1, s1}
    Uploads = {s1}
    None = None
    i1 = i1
    c = c
    w1 = w1
    i2 = i2
    u1 = u1
    s1 = s1
    Size <- MCSize
    Image = {i1}
    Tenant = {global, t1}
    Global = global
    Processor = {w1, w2}
    Sweeper = {s}
    Reader = {r}
    Deleter = {d}
    NoImage = NoImage
    Cap = 1
    Stored = {i1}
    Request <- MCRequest
    Overlapping = FALSE
    MaxJobs = 2
    MaxDeletes = 1
    MaxFaults = 1
    global = global
    t1 = t1
    w2 = w2
    s = s
    r = r
    d = d
PROPERTIES
    JobsSettle
    DueIsPruned
