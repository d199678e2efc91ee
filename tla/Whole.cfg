SPECIFICATION FairSpec
CONSTANTS
    User = {"T", "M", "L"}
    Instance = {"q", "m", "l", "l1", "l2"}
    Level <- MCLevel
    Inputs <- AllDesigns
    Letter <- MCLetter
    Spellings <- MCSpellings
INVARIANTS
    TypeOK
    NoDanglingCells
    PortsMatch
    NamesFresh
    WorkersIndependentByDefault
    ProtectionAsDocumented
    RegistersVoted
PROPERTIES
    OriginalsUntouched
    BlackboxesUntouched
    Termination
