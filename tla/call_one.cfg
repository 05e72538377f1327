SPECIFICATION FairSpec
CONSTANTS
    a = a
    b = b
    Home = Home
    User = {a, b}
    CallId = {audio, video}
    Caller <- OneCaller
    Receiver <- OneReceiver
    Video = {video}
    DocId = {1}
    MaxFaults = 0
CONSTRAINTS OneCall
INVARIANTS TypeOK RejectedByReceiver AnsweredOrCrossed EndedHasCause EndCallRemovesCall SettledCallIsOver
PROPERTIES HangUpStopsRing PeerHangUpIsReported
CHECK_DEADLOCK FALSE
