CONSTANTS
    Inputs <- MCInputs
SPECIFICATION SyntaxSpec
INVARIANTS
    SyntaxTypeOK
    
    AcceptsGrammar
    

    
CHECK_DEADLOCK FALSE
