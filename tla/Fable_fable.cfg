SPECIFICATION Spec
CONSTANTS
    Types <- MCTypes
    Inputs <- MCInputs
    KeyOrder <- MCKeyOrder
    MaxReads = 3
PROPERTIES AllOrNothing 
CHECK_DEADLOCK FALSE
