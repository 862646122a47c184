\* Every call returns, on one CPU or two.
CONSTANTS
  k1 = k1
  k3 = k3
  v1 = v1
  NULL = NULL
  Keys = {k1, k3}
  Values = {v1}
  Threads = {t1, t2}
  Ptrs = {p1, p2}
  NumBuckets = 2
  HashMin <- MCHashMin
  Strscpy <- MCStrscpy
  Caps = {1}
  CpuCounts = {1, 2}
SPECIFICATION SpinSpec
PROPERTY CallReturns
CHECK_DEADLOCK FALSE
