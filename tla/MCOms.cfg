\* Two orders: enough for an adopted one beside a submitted one.  Quantities
\* 1..3 and fills of 0, 1 and 2 give partial, completing, empty and excess fills.
SPECIFICATION Spec
CONSTANTS
    ClientOrderIds = {o1, o2}
    FillIds = {0, 1, 2}
    Quantities = {1, 2, 3}
    FillQty <- MCFillQty
    AdoptableStates = {"Acked", "PartiallyFilled"}
INVARIANTS
    TypeOK
    OpenCountMatches
    FilledWithinQuantity
    AppliedFillsCounted
PROPERTIES
    ImplementsLifecycle
CHECK_DEADLOCK FALSE
