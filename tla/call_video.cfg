SPECIFICATION Spec
CONSTANTS
    a = a
    b = b
    Home = Home
    User = {a, b}
    CallId = {c1}
    Caller <- OneCaller
    Receiver <- OneReceiver
    Video = {c1}
    DocId = {1}
    MaxFaults = 1
 
PROPERTIES VideoKeepsStart
CHECK_DEADLOCK FALSE
