CONSTANTS
    Mach <- Intel64Machine
    Names <- MCNames
    Classes <- MCClasses
    WordSize = 8
    Givers <- MCGivers
    Integers64 <- MCIntegers
    Wide <- MCWide
    Doubles <- MCDoubles
    Makers <- MCMakers
    Functions <- MCFunctions
    Sources <- MCSources
    Snippets <- MCSnippets
    Depth = 3
SPECIFICATION CompilerSpec
INVARIANTS
    BackendTypeOK
    CodeMeansTree
    ReferencesBalanced
    ObjectsAlive
    RegistersApart
    
    LivenessExact
    MachineCodeFaithful
