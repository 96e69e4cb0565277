\* The instance of MCAccounting.cfg.
SPECIFICATION AccountingSpec
CONSTANTS
    Keys = {yes, no}
    Prices = {3, 4}
    FillSizes = {0, 1, 3}
    Fees = {0, 1}
    MaxFills = 4
    MaxDays = 2
INVARIANTS
    DailyLossResetAtMidnight
CHECK_DEADLOCK FALSE
