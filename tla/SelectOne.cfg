SPECIFICATION Spec
CONSTANTS
    User = {"T", "M", "L"}
    Instance = {"q", "m", "l", "l1", "l2"}
    Level <- MCLevel
    Inputs <- SelectOne
    Letter <- MCLetter
    Spellings <- MCSpellings
INVARIANT
    PortsMatch
