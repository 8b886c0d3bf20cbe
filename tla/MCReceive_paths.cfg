SPECIFICATION ReceiveSpec
CONSTANTS
    FreesQueued = FALSE
    MaxFrames = 4
    MaxWire = 3
    FRAME_MAX = 16
    FRAME_START = 16
    GET_VERSION = 0
    GET_STATUS = 1
    DMR_DATA1 = 8
    DMR_DATA2 = 10
    ACK = 12
    SET_MAX = 5
    SERIAL_AT = 6
    RXQ_AT = 7
    FRAME_AT = 9
    POINTER_SIZE = 1
    StatusEvery = 2
    MaxReceived = 3
    MaxUnpolled = 2
    ModemFrames <- TheFrames
INVARIANTS
    RelayedAsReceived
    FramesAsSent
    DvmegaPolled
PROPERTIES
    EveryFrameRelayed
    LineDrains
CHECK_DEADLOCK FALSE
