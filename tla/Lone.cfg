SPECIFICATION Spec
CONSTANTS
    Cli = {i1}
    Mortal = {i1, i2}
    Worker = {w1, w2}
    Big = {b1}
    MaxBytes = 2
    QueueMax = 1
    Shareable = FALSE
    Transactional = TRUE
    Overlap = FALSE
    Stalling = {i3}
    Instance = {i1, i2, i3}
    Job = {u1, s1, b1}
    Uploads = {s1, b1}
    None = None
    i1 = i1
    i3 = i3
    w1 = w1
    w2 = w2
    i2 = i2
    u1 = u1
    b1 = b1
    s1 = s1
    Size <- MCSize
SYMMETRY Alike
INVARIANTS
    TypeOK
    RunsOnce
    NoLostJob
    BytesCounted
    PayloadsHeld
