SPECIFICATION Spec
CONSTANTS
    n1 = n1
    s1 = s1
    Conns = {c1, c2}
    Names = {n1}
    NameOf <- MCNameOf
    ShardOf <- MCShardOf
    Workers = {w1}
    Cap = 1
    Malformed = {c1}
    NoConn = NoConn
INVARIANT EmptyBeforeClear
