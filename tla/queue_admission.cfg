\* Two processes, two starts and two audited mutations, any two of the
\* disturbances.
SPECIFICATION LiveSpec
CONSTANTS
    Procs = {p1, p2}
    Heads = {h1, h2}
    Bases = {b1, b2}
    NONE = NONE
    MaxRuns = 2
    MaxId = 2
    MaxEvents = 2
CHECK_DEADLOCK FALSE
INVARIANTS LedgerTrue RetryFenced
PROPERTIES HoldReturns EntrySettles
