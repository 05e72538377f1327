SPECIFICATION Spec
CONSTANTS
    Photo = {p1, p2}
    Sweep = {s1, s2, s3}
    DocId = {1, 2}
    MaxRestarts = 0
CONSTRAINTS UploadsAlone
PROPERTIES ExpiredIsDeleted
CHECK_DEADLOCK FALSE
