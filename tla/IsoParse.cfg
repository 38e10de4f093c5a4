SPECIFICATION Spec
CONSTANTS
    IsoLen <- MCIsoLen
    Tpdu <- MCTpdu
    Defs <- MCDefs
    Messages <- MCMessages
    Fields = {2, 19, 36, 64, 103, 127}
INVARIANTS InBounds MeasuresExactly
CHECK_DEADLOCK FALSE
