SPECIFICATION Spec
CONSTANTS
    t1 = t1
    Rooms = {r1}
    Titles = {t1}
    TitleOf <- MCTitleOf
    Removes = {m1}
    MaxStarts = 1
    NoRoom = NoRoom
SYMMETRY MCSymmetry
INVARIANTS
    RemovedIsClosed
