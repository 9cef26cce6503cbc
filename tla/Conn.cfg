SPECIFICATION FairSpec
CONSTANTS
    Writes = {w1, w2, w3}
    Closes = {c1, c2}
    Chunks = 2
    NoCall = NoCall
INVARIANTS
    WellFramed
    NothingAfterFin
    ConnInv
PROPERTIES
    ImplementsSink
    CallsReturn
    CloseTakesEffect
