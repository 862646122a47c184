\* Snapshots, signals, kills, reloads and restarts; main and one client.
CONSTANTS
  k1 = k1
  k2 = k2
  v1 = v1
  v2 = v2
  NULL = NULL
  Main = m
  Clients = {c}
  Threads = {m, c}
  Keys = {k1, k2}
  Values = {v1, v2}
  NumBuckets = 1
  HashMin <- MCHashMin
  Strscpy <- MCStrscpy
  KeysOf <- AllKeys
  Capacities = {0, 1, 2}
SPECIFICATION PersistSpec
CONSTRAINT OneKeyOrSequential
SYMMETRY ValueSymmetry
INVARIANTS DaemonTypeOK QuietSnapshot RestoreExact
PROPERTY RestoreKeepsLive
