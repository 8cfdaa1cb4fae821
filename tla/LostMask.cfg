SPECIFICATION Review
CONSTANTS
    Region = {r1, r2}
    Editor = {e1, e2}
    Runner = {w1}
    MaxRows = 1
    MaxSlips = 0
    Absent = Absent
    r1 = r1
    r2 = r2
    e1 = e1
    e2 = e2
    w1 = w1
CHECK_DEADLOCK FALSE
PROPERTY
    EditsOnlyMask
