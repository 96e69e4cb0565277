\* Capacities 0, 1 and 2: refusal, shedding at once, and shedding with two
\* lanes holding a head.  Five intents over two clock values give ties,
\* a cancel behind a full backlog and two sheds in a row.
SPECIFICATION Spec
CONSTANTS
    Capacities = {0, 1, 2}
    MaxIntents = 5
    MaxTime = 1
INVARIANTS
    TypeOK
    NonCancelBounded
    EveryIntentAccountedFor
    CancelsNeverShed
    LanesAreFifo
PROPERTIES
    CancelsDrainFirst
    ShedsTheOldest
CHECK_DEADLOCK FALSE
