SPECIFICATION FairSpec
CONSTANTS
    a = a
    b = b
    gone = gone
    User = {a, b, gone}
    CallId = {call}
    Caller <- ByA
    Receivers <- CreatorLast
    Gone = {gone}
    DocId = {1, 3, 4}
    Stamp <- StampOne
    Home = Home
    MaxKills = 1
    MaxWrites = 4
CONSTRAINT FewWrites
INVARIANTS TypeOK RingIsOwn OwnRingEnds
PROPERTY EveryMemberRings
CHECK_DEADLOCK FALSE
