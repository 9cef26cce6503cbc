CONSTANTS
    HeaderLen = 2
    CrcLen = 1
    FixedLen = 4
    MaxFrame = 7
    MaxStream = 3
    NameLens = {1}
    MaxMessages = 2
    MaxFrames = 3
    Tokens <- MCTokens
    UuidOf <- MCUuidOf
    Hyphenated = {"u1", "u2"}
    Ports = {"80"}
    Paths = {"/echo"}
    Bodies = {"null", "value"}
    Cases <- MCCases
    Talkers <- MCTalkers
    Numbers = {0, 99, 100, 599, 600, 65635, 65636, 66135, 66136}
    NotFound = 404
SPECIFICATION Session
INVARIANTS
    StreamInv
    StreamIntact
    UrlRoundTrip
    MessageRoundTrip
CHECK_DEADLOCK FALSE
