SPECIFICATION Spec
CONSTANTS
    Photo = {p1, p2}
    Sweep = {s1, s2, s3}
    DocId = {1, 2}
    MaxRestarts = 1
SYMMETRY Renaming
CONSTRAINTS UploadsAlone
INVARIANTS TypeOK   SweepKeepsYoung 
CHECK_DEADLOCK FALSE
