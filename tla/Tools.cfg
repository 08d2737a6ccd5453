CONSTANTS
    Names <- MCNames
    Ids = {1, 2, 3, 4, 5}
    Callers = {x}
    Lists <- MCLists
    Settled <- MCSettled
    Targets <- MCTargets
    Adds <- MCAdds
    Edits <- MCEdits
    Helds <- MCHelds
    Unset = Unset
    Settings <- MCSettings
    MaxTools = 3
    Quick = 1
    Retries = 1
SPECIFICATION FairSpec
INVARIANTS NothingLeaks RoutesAsAdvertised SavedAsRunning
PROPERTIES CallsDrainFirst ServersComeBack
CHECK_DEADLOCK FALSE
