SPECIFICATION Spec
CONSTANTS
    IsoLen <- MCIsoLen
    Tpdu <- MCTpdu
    Defs <- MCDefs
    Messages <- MCMessages
    Fields = {2, 65, 127, 128}
INVARIANT CountsField128
CHECK_DEADLOCK FALSE
