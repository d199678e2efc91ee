SPECIFICATION Spec
CONSTANTS
    String <- Strings
    Inputs <- HelperInputs
INVARIANTS
    ChildrenKeepOriginals
