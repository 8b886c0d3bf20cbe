SPECIFICATION Spec
CONSTANTS
    None = None
    FullLcs <- TheCalls
    Syncs = {"BS_SOURCED_VOICE", "BS_SOURCED_DATA", "MS_SOURCED_RC", "DIRECT_DATA_TS2"}
    SlotTypes <- TheSlotTypes
    Embs <- TheEmbs
    StackBits <- TheStack
    FlipAt <- TheChannel
    MaxFlips = 3
    EmbLcs <- TheEmbLcs
    UnsetBits <- TheUnset
    HeapCells <- TheHeap
    FlipCells = {0, 11, 15, 20, 83, 115, 127}
    MaxCellFlips = 2
    MaxFragments = 5
    Headers <- TheHeaders
    HeaderFlips <- TheHeaderFlips
    Blocks <- TheBlocks
    MiddleBits <- TheStack
    Undecoded = Undecoded
    VoiceBits <- TheVoiceBits
    RowErrors <- TheRowErrors
    Pitches = {2, 3, 5}
    InitialBands = 3
    MaxBand = 6
    MaxVoice = 6
INVARIANTS
    BurstReadBack
    LcNeverWrong
    EmbLcReadBack
    HeaderNeverWrong
    VoiceBitsPlaced
    VoiceReadBack
    RightFrameHeard
CHECK_DEADLOCK FALSE
