\* A callback may be slower than the slot timeout: slot_timer frees slots.
CONSTANTS
    Protos = {hb, mmdvm}
    Streams = {s1, s2}
    NoStream = NoStream
    Timeout = 2
    MaxElapsed = 3
    MaxLag = 3
    MaxTimers = 4
SPECIFICATION Spec
INVARIANT TimersMatchCalls
PROPERTY SlotsSpec
