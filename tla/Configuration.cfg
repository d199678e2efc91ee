SPECIFICATION FairSpec
CONSTANTS
    String <- Strings
    Inputs <- AllInputs
INVARIANTS
    TypeOK
    Validated
    TemplatesExempt
    GlobalConfigKept
PROPERTIES
    ConfigurationAsDocumented
    Termination
