\* Prices 3 and 4 average to fractions; fills of 0, 1 and 3 contracts add, reduce,
\* close and flip; two days let the bucket roll, and be skipped, once each.
SPECIFICATION AccountingSpec
CONSTANTS
    Keys = {yes, no}
    Prices = {3, 4}
    FillSizes = {0, 1, 3}
    Fees = {0, 1}
    MaxFills = 4
    MaxDays = 2
INVARIANTS
    AccountingTypeOK
    BooksBalance
    DailyLossIsOfItsDay
    CashLossIsRecorded
CHECK_DEADLOCK FALSE
