SPECIFICATION ChanSpec
CONSTANTS
    c1 = c1
    c2 = c2
    c3 = c3
    c4 = c4
    Coro = {c1, c2, c3}
    Main = Main
    Nil = Nil
    Tasks = {}
    MaxLimit = 0
INVARIANT PutMeetsReader
CHECK_DEADLOCK FALSE
