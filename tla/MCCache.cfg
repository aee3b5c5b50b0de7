CONSTANTS
  Urls = {u, v}
  Keys = {k1, k2, k3}
  MaxData = 2
  RedirectLimit = 2
  May = {"reload", "stop", "fail", "headerless", "mismatch", "moved", "found"}
SPECIFICATION Spec
SYMMETRY Symmetry
INVARIANTS NoDangling RefsBalanced FedFromCache
PROPERTY ClosedHaveAll
CHECK_DEADLOCK FALSE
