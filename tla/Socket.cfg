CONSTANTS
    Sessions = {1, 2}
    Capacity = 2
    Conns = {1, 2}
    Requests = {1, 2}
    SendBuffer = 2
    Settings <- MCSettings
SPECIFICATION FairSocket
INVARIANTS AnsweredOnce
PROPERTIES ReplayCompletes LostIsReleasedOrStuck
CHECK_DEADLOCK FALSE
