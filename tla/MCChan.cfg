SPECIFICATION FairChanSpec
CONSTANTS
    c1 = c1
    c2 = c2
    c3 = c3
    c4 = c4
    Coro = {c1, c2, c3, c4}
    Main = Main
    Nil = Nil
    Tasks = {c1, c2}
    MaxLimit = 2
INVARIANTS
    WaitersSound
    NoLostWakeup
    HandedOver
PROPERTIES
    TasksSeeClose
CHECK_DEADLOCK FALSE
