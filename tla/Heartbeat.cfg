SPECIFICATION FairSpec
CONSTANTS
    Conns = {c1, c2}
    MaxPending = 2
    NoConn = NoConn
INVARIANT HeartbeatInv
PROPERTIES
    ClosedWasSilent
    SilentIsClosed
