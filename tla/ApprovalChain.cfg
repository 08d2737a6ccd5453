\* A supervised call with one retry; one operator call, one store failure or expiry.
SPECIFICATION ChainFairSpec
CONSTANTS
  c1 = c1  shell = shell
  Requests = {1, 2}  MaxAttempts = 2  NoRequest = 0
  Engine = engine  Threads = {engine, operator}
  Convs = {c1}  Tools = {shell}
  ConvOf <- OneConv  ToolOf <- AllShell
  RuleScopes = {"session"}
  MaxCalls = 1  MaxEnds = 1  MaxFaults = 1
INVARIANTS RunsOnlyWhenGranted OneOpenRow AnswerStands
PROPERTY CallEnds
CHECK_DEADLOCK FALSE
