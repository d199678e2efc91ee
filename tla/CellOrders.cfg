SPECIFICATION Spec
CONSTANTS
    Designs <- CellOrders
INVARIANT NeverAborts
