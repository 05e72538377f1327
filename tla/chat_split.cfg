SPECIFICATION Spec
CONSTANTS
    NoChat = NoChat
    User = {a, b}
    Message = {m1, m2}
    CardId = {1, 2}
    MaxKills = 0
SYMMETRY Renaming
CONSTRAINTS FewMarks
INVARIANTS OneChatPerPair
CHECK_DEADLOCK FALSE
