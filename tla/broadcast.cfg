SPECIFICATION Spec
CONSTANTS
    x = x
    y = y
    NoCard = NoCard
    Contact = {x, y}
    Cards <- BothKnown
    Broadcast = {one, two}
    Text = {s, t, u}
    MaxPicks = 3
    MaxPages = 2
    MaxKills = 1
    MaxEffort = 8
SYMMETRY Renaming
CONSTRAINT Effort
INVARIANTS TypeOK ListIsChosen  TwiceOnlyAfterTwoSends EveryMemberIsTold
CHECK_DEADLOCK FALSE
