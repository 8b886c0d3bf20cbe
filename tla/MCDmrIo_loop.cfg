SPECIFICATION FairSpec
CONSTANTS
    Id = {a1, a2, a3}
    Nil = Nil
    Fd <- TheFds
    readable = readable
    poll = poll
    error = error
    slot = slot
    stop = stop
    accept = accept
    Cb = {readable, poll, error, slot, stop, accept}
    Regs <- LoopRegs
    Dels <- LoopDels
INVARIANTS
    LoopRunsForWork
    WatchedFdsHaveEntries
    DanglingOnlyIfCut
PROPERTY CloseEndsLoop
CHECK_DEADLOCK FALSE
