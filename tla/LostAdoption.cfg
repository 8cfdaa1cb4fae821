SPECIFICATION Spec
CONSTANTS
    Instance = {i1, i2}
    Mortal = {i1}
    Job = {u1}
    Uploads = {}
    Cli = {}
    QueueMax = 2
    Shareable = TRUE
    Transactional = TRUE
    Overlap = TRUE
    Stalling = {}
    Worker = {w1}
    Big = {}
    MaxBytes = 2
    None = None
    w1 = w1
    i1 = i1
    i2 = i2
    u1 = u1
    Size <- MCSize
INVARIANT
    AdoptedIsQueued
