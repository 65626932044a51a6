SPECIFICATION Spec
CONSTANTS
    c1 = c1
    c2 = c2
    c3 = c3
    Coro = {c1, c2, c3}
    Main = Main
    Nil = Nil
    MaxHeld = 1
    MaxNested = 2
    DestructorOps = {"resume"}
SYMMETRY CoroSymmetry
INVARIANTS
    TypeOK
    ReturnsToResumer
    Accounted
    NoPanic
    ExceptionScoped
PROPERTIES
    FreesEndedStacks
    CallStackSpec
