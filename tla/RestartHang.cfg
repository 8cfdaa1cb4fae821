SPECIFICATION FairSpec
CONSTANTS
    Instance = {i1, i2}
    Mortal = {i1}
    Job = {u1, u2}
    Uploads = {}
    Cli = {}
    QueueMax = 1
    Shareable = FALSE
    Transactional = TRUE
    Overlap = FALSE
    Stalling = {}
    Worker = {w1}
    Big = {}
    MaxBytes = 2
    None = None
    w1 = w1
    i1 = i1
    i2 = i2
    u1 = u1
    u2 = u2
    Size <- MCSize
PROPERTY
    StartCompletes
CHECK_DEADLOCK FALSE
