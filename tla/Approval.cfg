\* Two requests for one tool, reached by two goroutines; one of them alone also
\* with permanent rules, a store failure, an expiry and a restart.
SPECIFICATION Spec
CONSTANTS
  c1 = c1  c2 = c2  shell = shell
  Requests = {r1, r2}  NoRequest = NoRequest  Threads = {t1, t2}
  Convs = {c1}  Tools = {shell}
  ConvOf <- OneConv  ToolOf <- AllShell
  RuleScopes = {"session", "permanent"}
  MaxCalls = 2  MaxEnds = 1  MaxFaults = 1
SYMMETRY Symmetry
CONSTRAINT Focus
INVARIANTS DecisionIsReported NoLostWakeup SweepLeavesNothingQueued
PROPERTIES ContractKept
CHECK_DEADLOCK FALSE
