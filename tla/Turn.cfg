CONSTANTS
    t1 = t1
    read = read
    write = write
    chat = chat
    NoCall = NoCall
    Turns <- MCTurns
    Chats = {chat}
    ChatOf <- MCChatOf
    Calls <- MCCalls
    ReadOnly = {read}
    Idempotent = {read}
    MaxRounds = 2
    MaxFan = 2
    Stoppers = {s1, s2}
    MaxStops = 2
SYMMETRY Symmetry
SPECIFICATION Spec
INVARIANTS
    RequestsAnswered StopWithinOneCall StopIsSelfScoping
    SpendIsBounded SavedAsApplied StoppedTurnAnswers
CHECK_DEADLOCK FALSE
