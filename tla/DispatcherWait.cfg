\* A message and a scheduled turn, or a WebSocket turn; two calls; liveness.
SPECIFICATION FairSpec
CONSTANTS
    a1 = a1  a2 = a2  w = w  s = s
    tg = tg  ws = ws  cron = cron
    Turns = {a1, w, s}
    Origin <- OriginOfTurn
    Chats = {tg, ws, cron}
    ChatOf <- ChatOfTurn
    NoTurn = NoTurn
    Engines = {e1}
    Callers = {loop, api}
    Loop = loop
    Loads <- Apart
    MaxCalls = 2
PROPERTIES StopsTakeEffect
CHECK_DEADLOCK FALSE
