\* A second signal during the final snapshot.
CONSTANTS
  k1 = k1
  k2 = k2
  v1 = v1
  v2 = v2
  NULL = NULL
  Main = m
  Clients = {c}
  Threads = {m, c}
  Keys = {k1}
  Values = {v1}
  NumBuckets = 1
  HashMin <- MCHashMin
  Strscpy <- MCStrscpy
  KeysOf <- AllKeys
  Capacities = {0, 1}
SPECIFICATION PersistSpec
INVARIANT FlushDespiteSignals
