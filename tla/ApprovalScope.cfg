\* Two conversations: how far the sweep of a session rule reaches.
SPECIFICATION Spec
CONSTANTS
  c1 = c1  c2 = c2  shell = shell
  Requests = {r1, r2}  NoRequest = NoRequest  Threads = {t1}
  Convs = {c1, c2}  Tools = {shell}
  ConvOf <- TwoConvs  ToolOf <- AllShell
  RuleScopes = {"session"}
  MaxCalls = 1  MaxEnds = 0  MaxFaults = 0
INVARIANT SessionRuleStaysInConversation
CHECK_DEADLOCK FALSE
