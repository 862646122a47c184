\* Shutdown ends the daemon.
CONSTANTS
  k1 = k1
  v1 = v1
  NULL = NULL
  Main = m
  Clients = {c}
  Threads = {m, c}
  Keys = {k1}
  Values = {v1}
  NumBuckets = 1
  HashMin <- MCHashMin
  Strscpy <- MCStrscpy
  KeysOf <- AllKeys
  Capacities = {0, 1}
SPECIFICATION DaemonFairSpec
PROPERTY ShutdownCompletes
