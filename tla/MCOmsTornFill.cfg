\* One order is enough: a fill that follows a terminal status update.
SPECIFICATION Spec
CONSTANTS
    ClientOrderIds = {o1}
    FillIds = {0, 1, 2}
    Quantities = {1, 2, 3}
    FillQty <- MCFillQty
    AdoptableStates = {"Acked", "PartiallyFilled"}
PROPERTIES
    FilledOnlyWithRecordedFill
CHECK_DEADLOCK FALSE
