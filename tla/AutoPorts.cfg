SPECIFICATION Spec
CONSTANTS
    Designs <- AutoPorts
INVARIANT ErrorsReachTop
