SPECIFICATION FairMgrSpec
CONSTANTS
    c1 = c1
    c2 = c2
    c3 = c3
    Coro = {c1, c2}
    Main = Main
    Nil = Nil
    MaxHeld = 2
    MaxNested = 1
    MaxScheduled = 2
    DestructorOps = {"resume"}
INVARIANTS
    LoopSound
    NoIoAfterShutdown

    
