SPECIFICATION Spec
CONSTANTS
    Designs <- NestedErrors
INVARIANT ErrorsReachTop
