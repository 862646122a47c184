------------------------------- MODULE KvBase -------------------------------
(***************************************************************************)
(* What every kernel-side module of the key-value store shares: the        *)
(* parameters of the hash table (kernel/kv_hash.h, include/kv_ioctl.h),    *)
(* the bucket function and the result codes.                               *)
(*                                                                         *)
(* A stored string is a member of Values.  Its characters do not matter,   *)
(* only whether it fits a buffer of MAX_VALUE_LEN bytes: Strscpy[v] is the *)
(* string that strscpy(dst, v, MAX_VALUE_LEN) leaves in dst, so v fits     *)
(* when Strscpy[v] = v.                                                    *)
(***************************************************************************)
EXTENDS Integers, FiniteSets

CONSTANTS
  Threads,     \* the tasks that are inside the module (one per client thread)
  Keys,        \* hash_key_t
  Values,      \* NUL-terminated strings
  NumBuckets,  \* 1U << ht->bits
  HashMin,     \* hash_min(key, bits) of linux/hashtable.h
  Strscpy,     \* strscpy(_, v, MAX_VALUE_LEN) of linux/string.h
  NULL         \* the C null pointer; in a map, "no entry for this key"

Buckets == 0 .. (NumBuckets - 1)

ASSUME NumBucketsAssumption == NumBuckets \in Nat \ {0}
ASSUME HashMinAssumption == HashMin \in [Keys -> Buckets]
ASSUME StrscpyAssumption ==
  /\ Strscpy \in [Values -> Values]
  /\ \A v \in Values : Strscpy[Strscpy[v]] = Strscpy[v]
ASSUME KeysFiniteAssumption == IsFiniteSet(Keys)
ASSUME NULLAssumption == NULL \notin Threads \cup Values

(* The bucket of a key. *)
kv_bucket(k) == HashMin[k]

(* strlen(v) + 1 <= MAX_VALUE_LEN *)
Fits(v) == Strscpy[v] = v

(* Return codes of the kv_hash_* functions: 0 (or a length, or a count) is  *)
(* "OK", the others are the negated errno.                                  *)
Codes == {"OK", "ENOENT", "ENOSPC", "ENOMEM", "EINVAL"}

(* What kv_hash_lookup returns on a table that holds the map m. *)
LookupCode(m, k) ==
  IF m[k] = NULL THEN "ENOENT" ELSE IF Fits(m[k]) THEN "OK" ELSE "ENOSPC"

(***************************************************************************)
(* The calls the table offers, as the callers in kvlkm.c make them.  Caps  *)
(* is the set of max_entries values a snapshot is asked for.               *)
(***************************************************************************)
KeyedFns == {"add", "remove", "lookup"}
WalkFns  == {"count", "snapshot"}

Requests(Caps) ==
       [fn : {"add"}, key : Keys, value : Values]
  \cup [fn : {"remove", "lookup"}, key : Keys]
  \cup [fn : {"count"}]
  \cup [fn : {"snapshot"}, max : Caps]

=============================================================================
