\* A writer against a second writer, a lookup or a walk, on a shared chain
\* and a second bucket: safety, refinement, and what the walks return.
CONSTANTS
  k1 = k1
  k2 = k2
  k3 = k3
  v1 = v1
  v2 = v2
  long = long
  cut = cut
  t1 = t1
  t2 = t2
  NULL = NULL
  Keys = {k1, k2, k3}
  Values = {v1, v2, long, cut}
  Threads = {t1, t2}
  Ptrs = {p1, p2, p3}
  NumBuckets = 2
  HashMin <- MCHashMin
  Strscpy <- MCStrscpy
  Caps = {0, 2}
SPECIFICATION WalkSpec
CONSTRAINT Bounded
SYMMETRY Symmetry
INVARIANTS TypeOK StringsOwned OneEntryPerKey FoundStillLinked
           SnapshotSound SnapshotComplete SnapshotFits CountBounds
PROPERTY ImplementsMap
