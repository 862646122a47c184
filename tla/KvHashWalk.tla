----------------------------- MODULE KvHashWalk -----------------------------
(***************************************************************************)
(* What kv_hash_count and kv_hash_snapshot return while other threads keep *)
(* changing the table.  They hold one bucket lock at a time, so their      *)
(* result need not be the contents of the table at any one moment.  Two    *)
(* history variables record, for the call that each thread has in          *)
(* progress, what the table held since the call began.  They never guard   *)
(* or change a step of KvHash.                                             *)
(***************************************************************************)
EXTENDS KvHash

VARIABLES
  always,  \* always[t]: the pairs that have been in the table all along
  ever     \* ever[t]: the pairs that have been in the table at some time

walkVars == <<vars, always, ever>>

(* The table as a set of key-string pairs. *)
Contents ==
  UNION {{<<e.key, str[e.value]>> : e \in buckets[b]} : b \in Buckets}

WalkInit ==
  /\ Init
  /\ always = [t \in Threads |-> {}]
  /\ ever = [t \in Threads |-> {}]

(* A walk is in progress before and after the step. *)
Walking(t) == pc[t] # "idle" /\ req[t].fn \in WalkFns

(* A history variable h starts from the contents c when a walk begins, is   *)
(* extended by grow while it lasts and forgotten when it returns.           *)
Record(h, c, grow(_, _)) ==
  [t \in Threads |-> IF ~ Walking(t)' THEN {}
                     ELSE IF ~ Walking(t) THEN c
                     ELSE IF pc[t] = "done" THEN h[t]
                     ELSE grow(h[t], c)]

Meet(a, c) == a \cap c
Join(a, c) == a \cup c

WalkNext ==
  /\ Next
  /\ always' = Record(always, Contents', Meet)
  /\ ever' = Record(ever, Contents', Join)

WalkSpec == WalkInit /\ [][WalkNext]_walkVars

-----------------------------------------------------------------------------

(* The message that a snapshot makes of a pair. *)
AsMessage(pair) == [key |-> pair[1], value |-> Strscpy[pair[2]]]

Finished(t, fn) == pc[t] = "done" /\ req[t].fn = fn /\ ret[t] = "OK"

(* A snapshot never invents or mixes: each message it has filled in is a    *)
(* pair the table held, key with that string, at some time during the call  *)
(* (kv_hash.c:287-291, under the lock of the bucket).                       *)
SnapshotSound ==
  \A t \in Threads : Walking(t) => out[t] \subseteq {AsMessage(c) : c \in ever[t]}

(* A snapshot that did not use up its array misses nothing that was there   *)
(* all the time: whatever other threads do to other keys, the loop passes   *)
(* over no bucket and no entry (kv_hash.c:276-296).                         *)
SnapshotComplete ==
  \A t \in Threads : Finished(t, "snapshot") /\ cnt[t] < req[t].max =>
    {AsMessage(c) : c \in always[t]} \subseteq out[t]

(* The array is never overrun, each slot below count was filled, and no key *)
(* is in it twice, even if it was removed and added again during the walk   *)
(* (kv_hash.c:281).                                                         *)
SnapshotFits ==
  \A t \in Threads : Walking(t) /\ req[t].fn = "snapshot" =>
    /\ cnt[t] <= req[t].max
    /\ cnt[t] = Cardinality(out[t])
    /\ \A m1, m2 \in out[t] : m1.key = m2.key => m1 = m2

(* A count is at least the number of entries that stayed in the table and   *)
(* at most the number that were ever in it (kv_hash.c:241-248).             *)
CountBounds ==
  \A t \in Threads : Finished(t, "count") =>
    /\ Cardinality(always[t]) <= cnt[t]
    /\ cnt[t] <= Cardinality(ever[t])

=============================================================================
