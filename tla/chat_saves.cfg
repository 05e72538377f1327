SPECIFICATION Spec
CONSTANTS
    NoChat = NoChat
    User = {a, b}
    Message = {m1, m2}
    CardId = {1, 2}
    MaxKills = 1
SYMMETRY Renaming
CONSTRAINTS FewMarks
INVARIANTS ChatInv  CardShowsPeer CardAnnouncesPosted SenderKeepsCard OneCardPerChat
PROPERTIES KeepsConversation
CHECK_DEADLOCK FALSE
