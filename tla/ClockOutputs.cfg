SPECIFICATION Spec
CONSTANTS
    Designs <- ClockOutputs
INVARIANT DrivenOnce
