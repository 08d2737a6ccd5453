\* One attempt and one operator: what a timed-out call may be reported for.
SPECIFICATION ChainSpec
CONSTANTS
  c1 = c1  shell = shell
  Requests = {1}  MaxAttempts = 1  NoRequest = 0
  Engine = engine  Threads = {engine, operator}
  Convs = {c1}  Tools = {shell}
  ConvOf <- OneConv  ToolOf <- AllShell
  RuleScopes = {"session"}
  MaxCalls = 1  MaxEnds = 0  MaxFaults = 0
PROPERTY TimeoutMeansNoAnswer
CHECK_DEADLOCK FALSE
