SPECIFICATION FairSpec
CONSTANTS
    w1 = w1
    w2 = w2
    Workers = {w1, w2}
    Handler = Handler
    k1 = k1
    k2 = k2
    k3 = k3
    Keys = {k1, k2, k3}
    n0 = n0
    n1 = n1
    Nodes = {n0, n1}
    NoNode = n0
    Objects = {o1, o2}
    NoObject = NoObject
    NoItem = NoItem
    MaxCalls = 4
INVARIANTS TypeOK SetMatchesItems HandedOutOnce
PROPERTIES OrderKept CallsReturn
\* The calls run out.
CHECK_DEADLOCK FALSE
