CONSTANTS
    Runs = {1, 2}
    Variants = 2
    Slots = 2
    Cap = 2
    MostCost = 1
    Settings <- MCSettings
    Passes = {1, 2}
    JudgeSlots = 2
    JudgeCap = 2
SPECIFICATION FairSpec
INVARIANTS PanicReachesAll CapOvershoot RunAddsUp
PROPERTIES TerminalIsLast EvalEnds
CHECK_DEADLOCK FALSE
