SPECIFICATION Spec
CONSTANTS
    a = a
    b = b
    x = x
    c1 = c1
    c2 = c2
    Home = Home
    User = {a, b, x}
    CallId = {c1, c2}
    Caller <- CrossingCaller
    Receiver <- CrossingReceiver
    Video = {c1, c2}
    DocId = {1, 2}
    MaxFaults = 0
    MaxTaps = 2
    MaxPending = 3
CONSTRAINTS FewTaps FewWrites
INVARIANTS CallInv
PROPERTIES DocsRemovedOnBehalf
CHECK_DEADLOCK FALSE
