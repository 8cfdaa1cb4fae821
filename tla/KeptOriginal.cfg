SPECIFICATION ImagesSpec
CONSTANTS
    Image = {i1}
    Tenant = {global, t1}
    Global = global
    Processor = {w1, w2}
    Sweeper = {s}
    Reader = {r}
    Deleter = {d}
    NoImage = NoImage
    Cap = 1
    Stored = {i1}
    Request <- MCRequest
    Overlapping = FALSE
    MaxJobs = 2
    MaxDeletes = 1
    MaxFaults = 0
    i1 = i1
    global = global
    t1 = t1
    w1 = w1
    w2 = w2
    s = s
    r = r
    d = d
PROPERTY
    DeleteTakesOriginal
