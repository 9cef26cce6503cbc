SPECIFICATION FairSpec
CONSTANTS
    r1 = r1
    Clients = {c1}
    Rooms = {r1}
    Loaded = {r1}
    WantOf <- MCWantOf
    Genuine = {c1}
    NoClient = NoClient
    NoRoom = NoRoom
PROPERTY CloseEnds
CHECK_DEADLOCK FALSE
