\* Two messages of one chat, two agents; the run loop and an API caller make up to two calls.
SPECIFICATION Spec
CONSTANTS
    a1 = a1  a2 = a2  w = w  s = s
    tg = tg  ws = ws  cron = cron
    Turns = {a1, a2}
    Origin <- OriginOfTurn
    Chats = {tg, ws, cron}
    ChatOf <- ChatOfTurn
    NoTurn = NoTurn
    Engines = {e1, e2}
    Callers = {loop, api}
    Loop = loop
    Loads <- Together
    MaxCalls = 2
INVARIANTS KilledForAReason StopReachesChat
SYMMETRY Alike
CHECK_DEADLOCK FALSE
