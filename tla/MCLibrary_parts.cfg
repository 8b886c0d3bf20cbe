SPECIFICATION Spec
CONSTANTS
    ULLONG_MAX = 255
    HTTP_MAX_HEADER_SIZE = 100
    HTTPD_MAX_RESPONS = 200
    REQUEST_PATH = 4
    PATH_MAX = 6
    Wires <- TheWires
    ReadSizes = {1, 2, 7, 40}
    UrlSeeds <- TheUrlSeeds
    UrlAlphabet = {"a", "7", "/", ":", "?", "#", "@", "]", "%"}
    MaxTyped = 4
    Requests <- TheRequests
    Files <- TheFiles
    Directories <- TheDirectories
    AddressBits = {1, 2, 3}
    Elements = {{1}, {2}, {1, 2}}
    Heads = {{2, 3}, {1, 2, 3}}
    Kinds = {"SLIST", "LIST", "SIMPLEQ", "XSIMPLEQ", "TAILQ"}
    Cookies = {{1, 3}}
    Ids = {1, 2, 3, 4, 5, 6, 7}
    Names <- TheNames
    Keys = {1, 2, 3, 4}
    MaxOps = 7
    RawSizes = {0, 4}
    RawWords <- TheWords
    RawTexts <- TheTexts
    MaxRaw = 4
    Buffers = {1, 2, 3, 4}
    RawLimits = {0, 2}
    Packets <- ThePackets
    RepeaterIds = {204342}
    Digest <- TheDigest
    Texts <- TheFieldTexts
    MAX_PROTOS = 2
    Values = {0, 60}
    KeyChoice <- TheKeys
    SectionChoice = {"repeater", "dmrid", "httpd", "homebrew", "mbe", "mmdvm"}
    MaxLines = 7
    LogThreads = {"s", "t"}
    Lowest = 1
    Asked <- TheAsked
    Errnos = {1, 2, 255}
INVARIANTS
    StreamReadBack
    AnyInputHandled
    UrlFieldsRight
    ClientsAnswered
    QueuesAsSequences
    TreesKeepKeys
    RawSound
    FramesReadBack
    ConfigAsGiven
    ReportsRight
CHECK_DEADLOCK FALSE
