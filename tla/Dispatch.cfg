SPECIFICATION FairSpec
CONSTANTS
    a = a
    b = b
    a1 = a1
    b1 = b1
    b2 = b2
    ch1 = ch1
    ch2 = ch2
    Conns = {a1, b1, b2}
    Names = {a, b}
    NameOf <- MCNameOf
    Channels = {ch1, ch2}
    Script <- MCScript
    WorkerNumber = 2
    Hash <- MCHash
    Cap = 1
    NoConn = NoConn
INVARIANTS
    DispatchInv
    ChannelOrder
PROPERTIES
    ImplementsLink
    FramesDealtWith
CHECK_DEADLOCK FALSE
