CONSTANTS
  D_DNS_MAX_SERVERS = 1
  Hosts = {a, b, c}
  Clients = {k1, k2, k3}
  Threads = {t1, t2}
  NULL = NULL
  Waiting = Waiting
  CreateFails = FALSE
SPECIFICATION MCFairSpec
PROPERTY EveryRequestAnswered
