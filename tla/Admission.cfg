SPECIFICATION FairSpec
CONSTANTS
    r1 = r1
    Clients = {c1, c2, c3}
    Rooms = {r1}
    Loaded = {}
    WantOf <- MCWantOf
    Genuine = {c1, c2}
    NoClient = NoClient
    NoRoom = NoRoom
INVARIANTS
    EachHasOneKeeper
    MembersAreGenuine
    ClosedNodeIsQuiet
    AdmissionInv
PROPERTIES
    ImplementsHalls
    ExaminedInTime
    CloseEndsOrStuck
CHECK_DEADLOCK FALSE
