CONSTANTS
    Inputs <- MCInputs
    MaxQueries = 2
SPECIFICATION CheckingSpec
INVARIANTS
    CheckingTypeOK
    
    AcceptedIsSound
    
CHECK_DEADLOCK FALSE
