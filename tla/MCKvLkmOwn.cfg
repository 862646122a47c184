\* Two clients, each with keys of its own.
CONSTANTS
  k1 = k1
  k2 = k2
  k3 = k3
  v1 = v1
  v2 = v2
  t1 = t1
  t2 = t2
  NULL = NULL
  Keys = {k1, k2, k3}
  Values = {v1, v2}
  Threads = {t1, t2}
  NumBuckets = 2
  HashMin <- MCHashMin
  Strscpy <- MCStrscpy
  KeysOf <- OwnKeys
  Capacities = {0, 1, 2}
SPECIFICATION Spec
INVARIANTS TypeOK SnapshotInBounds
PROPERTY ImplementsStore
