CONSTANTS
    c1 = c1
    c2 = c2
    s1 = s1
    s2 = s2
    s3 = s3
    NoOne = NoOne
    Coro = {c1, c2}
    Streams = {s1, s2, s3}
    Fds = {1, 2, 3}
    Kind <- KindDef
    Ops <- WordOps
    Capacity = 2
    Room = 1
    Delim = {1}
    MaxSent = 3
    Plans <- WordPlans
SPECIFICATION Spec
INVARIANTS BytesInOrder
CHECK_DEADLOCK FALSE
