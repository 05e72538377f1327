SPECIFICATION Spec
CONSTANTS
    Private = Private
    User = {a, b}
    Group = {g}
    Members <- OneGroup
    Message = {m1, m2, m3}
    CardId = {1, 2}
    PrivateId = 1
    MaxKills = 1
    MaxTaps = 2
    MaxEffort = 4
SYMMETRY Renaming
CONSTRAINT Effort
INVARIANTS TypeOK CardKeepsToItsGroup NewestOnEveryCard StatusNamesTypist
CHECK_DEADLOCK FALSE
