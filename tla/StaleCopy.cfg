SPECIFICATION Moves
CONSTANTS
    Blob = {b1}
    Mover = {m1}
    Careful = TRUE
    MaxVersions = 2
    NoBytes = NoBytes
    b1 = b1
    m1 = m1
PROPERTY
    FlipServesTheSame
