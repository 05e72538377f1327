SPECIFICATION Spec
CONSTANTS
    a = a
    b = b
    Home = Home
    User = {a, b}
    CallId = {c1}
    Caller <- OneCaller
    Receiver <- OneReceiver
    Video = {}
    DocId = {1}
    MaxFaults = 0
INVARIANTS HangUpLeavesChannel
CHECK_DEADLOCK FALSE
