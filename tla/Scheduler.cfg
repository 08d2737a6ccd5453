CONSTANTS
    e1 = e1
    e2 = e2
    job = job
    NoEntry = NoEntry
    Names <- MCNames
    Entries <- MCEntries
    Boot <- MCBoot
    Runners = {g1, g2, g3}
    Callers = {c1, c2}
    MaxCalls = 4
SPECIFICATION FairSpec
INVARIANTS OneGoroutineEach EnabledRuns
PROPERTIES CancelledEnds
CHECK_DEADLOCK FALSE
