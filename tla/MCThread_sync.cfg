SPECIFICATION Spec
CONSTANTS
    Consumer = {c1, c2}
    Producer = {p1}
    Impatient = {c2}
    Nobody = Nobody
    Modes = {"latch", "signal", "broadcast"}
    MaxGoods = 2
    MaxSignals = 2
    MaxDepth = 2
    MaxWaiters = 3
    Caller = {c1, c2, p1}
    NoCaller = NoCaller
    t1 = t1
    t2 = t2
    Owner = {t1, t2}
    Key = {1, 2, 3}
    Node = {n1, n2, n3, n4}
    Null = Null
    Iterations = 2
    MaxGen <- TheGens
    MaxSets <- TheSets
    NsPerMs = 3
    MsPerSec = 4
    Dword = 16
    PollMs = 2
    MaxSec = 2
INVARIANTS
    LocksSound
    OnceBeforeUse
    ValuesDestroyed
    DeadlinesKept
PROPERTY WaitersServed
CHECK_DEADLOCK FALSE
