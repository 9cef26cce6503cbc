SPECIFICATION ThreadedSpec
CONSTANTS
    n1 = n1
    s1 = s1
    Conns = {c1, c2}
    Names = {n1}
    NameOf <- MCNameOf
    ShardOf <- MCShardOf
    Workers = {w1, w2}
    Cap = 1
    Malformed = {}
    NoConn = NoConn
    Threads = 2
INVARIANT SomeThreadRuns
CHECK_DEADLOCK FALSE
