\* What kv_hash_destroy promises to free.
CONSTANTS
  Users = {u1, u2}
  NumBuckets = 2
  MaxEntries = 1
SPECIFICATION Spec
INVARIANT DestroyFreesAll
