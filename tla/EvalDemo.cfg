CONSTANTS
    Runs = {1, 2}
    Variants = 2
    Slots = 2
    Cap = 5
    MostCost = 1
    Settings <- MCDemoSettings
    Passes = {1, 2}
    JudgeSlots = 2
    JudgeCap = 5
SPECIFICATION Spec
INVARIANTS JudgeCostIsSpend JudgeSlotsReturn
CHECK_DEADLOCK FALSE
