\* Sources fall silent in the middle of a call.
CONSTANTS
    Protos = {hb, mmdvm}
    Streams = {s1}
    NoStream = NoStream
    Timeout = 2
    MaxElapsed = 3
    MaxLag = 2
    MaxTimers = 2
SPECIFICATION FairSpec
PROPERTY SilentSlotsAreFreed
