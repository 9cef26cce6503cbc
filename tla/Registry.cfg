SPECIFICATION Spec
CONSTANTS
    t1 = t1
    Rooms = {r1, r2}
    Titles = {t1}
    TitleOf <- MCTitleOf
    Removes = {m1, m2}
    MaxStarts = 3
    NoRoom = NoRoom
SYMMETRY MCSymmetry
INVARIANTS
    AckedIsKept
    RemovedIsErased
    StoredIsServed
    RoomsAreOpen
    OpenIsReachable
    OneCloser
    RegInv
