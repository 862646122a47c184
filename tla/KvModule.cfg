\* Loading with failures, unloading, and two processes that use the device.
CONSTANTS
  Users = {u1, u2}
  NumBuckets = 2
  MaxEntries = 1
SPECIFICATION Spec
INVARIANTS TypeOK ReadyForUsers Survives
 
