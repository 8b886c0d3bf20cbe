SPECIFICATION Spec
CONSTANTS
    Id = {a1, a2, a3}
    Nil = Nil
    Fd <- TheFds
    readable = readable
    poll = poll
    error = error
    slot = slot
    stop = stop
    accept = accept
    Cb = {readable, poll, error, slot, stop, accept}
    Regs <- HttpRegs
    Dels <- HttpDels
SYMMETRY Symmetry
INVARIANT NoDanglingEntry
CHECK_DEADLOCK FALSE
