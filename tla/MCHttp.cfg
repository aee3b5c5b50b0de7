CONSTANTS
  r1 = r1
  r2 = r2
  r3 = r3
  r4 = r4
  Reqs = {r1, r2, r3, r4}
  UrlOf <- Url4
  HostOf <- Host4
  http_max_conns = 1
  FDs = {3, 4}
  May = {"reload", "stop", "unviewable", "error"}
SPECIFICATION Spec
INVARIANTS BranchesTogether SlotsCounted NoLeak OwnDescriptor NobodyForgotten
CHECK_DEADLOCK FALSE
