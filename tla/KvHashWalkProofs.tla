-------------------------- MODULE KvHashWalkProofs --------------------------
(***************************************************************************)
(* Machine-checked proofs of what kv_hash_count and kv_hash_snapshot       *)
(* return while other threads change the table, for every number of        *)
(* threads, keys, strings and buckets.                                     *)
(*                                                                         *)
(* The argument is about the chains that a walk has behind it: those below *)
(* Progress(t).  Their entries were there when the walk held their lock,   *)
(* so the result covers what was always in them and nothing that was never *)
(* there, and different chains have different keys.                        *)
(***************************************************************************)
EXTENDS KvHashWalk, KvHashProofs

(* The first chain that the walk of t has not been through. *)
Progress(t) ==
  IF pc[t] = "unlock" THEN bkt[t] + 1
  ELSE IF pc[t] = "done" THEN NumBuckets ELSE bkt[t]

(* The pairs of a history that belong to these chains. *)
Behind(t, pairs) == {c \in pairs : kv_bucket(c[1]) < Progress(t)}

(* A walk starts with nothing. *)
Start(t) == pc[t] \in {"idle", "enter"} => bkt[t] = 0 /\ cnt[t] = 0 /\ out[t] = {}

(* The histories: finite, and around the contents until the walk is over. *)
History(t) ==
  /\ IsFiniteSet(always[t]) /\ always[t] \subseteq Keys \X Values
  /\ IsFiniteSet(ever[t]) /\ ever[t] \subseteq Keys \X Values
  /\ pc[t] # "done" => always[t] \subseteq Contents /\ Contents \subseteq ever[t]

(* The array: as long as the count, without repeated keys, from the chains  *)
(* behind the walk.                                                         *)
Array(t) ==
  /\ IsFiniteSet(out[t])
  /\ cnt[t] = Cardinality(out[t])
  /\ cnt[t] <= req[t].max
  /\ \A m1, m2 \in out[t] : m1.key = m2.key => m1 = m2
  /\ pc[t] \notin {"leave", "done"} => \A m \in out[t] : kv_bucket(m.key) < Progress(t)

(* The array covers what was always there and has nothing that never was. *)
Covers(t) ==
  /\ out[t] \subseteq {AsMessage(c) : c \in ever[t]}
  /\ cnt[t] < req[t].max => \A c \in Behind(t, always[t]) : AsMessage(c) \in out[t]

(* So does the count. *)
Counts(t) ==
  /\ Cardinality(Behind(t, always[t])) <= cnt[t]
  /\ cnt[t] <= Cardinality(Behind(t, ever[t]))

Going(t) ==
  /\ History(t)
  /\ pc[t] = "leave" => req[t].fn = "snapshot" /\ cnt[t] = req[t].max
  /\ req[t].fn = "snapshot" => Array(t) /\ Covers(t)
  /\ req[t].fn = "count" => Counts(t) /\ out[t] = {}

WalkOK(t) == Start(t) /\ (Walking(t) => Going(t))

WInv == IInv /\ \A t \in Threads : WalkOK(t)

-----------------------------------------------------------------------------
(* Facts about the contents of the table. *)

(* The pairs that a set of entries stands for. *)
Pairs(S) == {<<e.key, str[e.value]>> : e \in S}

(* Entries of one chain have a key, a string and the chain of their key. *)
LEMMA EntryTypes ==
  ASSUME IInv, NEW b \in Buckets, NEW e \in buckets[b]
  PROVE  /\ e.key \in Keys /\ str[e.value] \in Values /\ kv_bucket(e.key) = b
         /\ \A d \in buckets[b] : d.key = e.key => d = e
<1>1. e \in Entries /\ str[e.value] # NULL
  BY DEF IInv, TypeOK, StringsOwned, NoDangling
<1>2. e.key \in Keys /\ str[e.value] \in Values
  BY <1>1 DEF IInv, TypeOK, Entries
<1> QED
  BY <1>2 DEF IInv, OneEntryPerKey

(* A part of a chain stands for as many pairs, and makes as many messages,  *)
(* as it has entries.                                                       *)
LEMMA ChainSizes ==
  ASSUME IInv, NEW b \in Buckets, NEW S \in SUBSET buckets[b]
  PROVE  /\ IsFiniteSet(S) /\ Cardinality(S) \in Nat
         /\ IsFiniteSet(Pairs(S)) /\ Cardinality(Pairs(S)) = Cardinality(S)
         /\ IsFiniteSet({Copy(e) : e \in S})
         /\ Cardinality({Copy(e) : e \in S}) = Cardinality(S)
<1>1. IsFiniteSet(S) /\ Cardinality(S) \in Nat
  BY FS_Subset, FS_CardinalityType DEF IInv, FiniteChains
<1>2. \A d, e \in S : d.key = e.key => d = e
  BY EntryTypes
<1>3. ExistsBijection(S, Pairs(S))
  <2> DEFINE f == [e \in S |-> <<e.key, str[e.value]>>]
  <2>1. f \in Bijection(S, Pairs(S))
    BY <1>2 DEF Bijection, Injection, Surjection, IsInjective, Pairs
  <2> QED
    BY <2>1 DEF ExistsBijection
<1>4. ExistsBijection(S, {Copy(e) : e \in S})
  <2> DEFINE f == [e \in S |-> Copy(e)]
  <2>1. \A d, e \in S : Copy(d) = Copy(e) => d = e
    BY <1>2 DEF Copy
  <2>2. f \in Bijection(S, {Copy(e) : e \in S})
    BY <2>1 DEF Bijection, Injection, Surjection, IsInjective
  <2> QED
    BY <2>2 DEF ExistsBijection
<1> QED
  BY <1>1, <1>3, <1>4, FS_Bijection

(* The messages that a snapshot makes of a part of a chain. *)
LEMMA CopyFacts ==
  ASSUME IInv, NEW b \in Buckets, NEW S \in SUBSET buckets[b], NEW m \in {Copy(e) : e \in S}
  PROVE  /\ m.key \in Keys /\ kv_bucket(m.key) = b
         /\ \E c \in Pairs(S) : m = AsMessage(c)
         /\ \A n \in {Copy(e) : e \in S} : n.key = m.key => n = m
<1>1. PICK e \in S : m = Copy(e)
  OBVIOUS
<1>2. m = AsMessage(<<e.key, str[e.value]>>) /\ <<e.key, str[e.value]>> \in Pairs(S)
  BY <1>1 DEF Copy, AsMessage, Pairs
<1>3. m.key = e.key
  BY <1>1 DEF Copy
<1>4. \A d \in S : Copy(d).key = e.key => d = e
  BY EntryTypes DEF Copy
<1> QED
  BY <1>1, <1>2, <1>3, <1>4, EntryTypes

(* The contents are a finite set of pairs, and its part for one chain is    *)
(* what the entries of the chain stand for.                                 *)
LEMMA ContentsFacts ==
  ASSUME IInv
  PROVE  /\ IsFiniteSet(Contents) /\ Contents \subseteq Keys \X Values
         /\ \A b \in Buckets : {c \in Contents : kv_bucket(c[1]) = b} = Pairs(buckets[b])
<1>1. Contents = UNION {Pairs(buckets[b]) : b \in Buckets}
  BY DEF Contents, Pairs
<1>2. IsFiniteSet(Contents)
  <2> DEFINE T == {Pairs(buckets[b]) : b \in Buckets}
             f == [b \in Buckets |-> Pairs(buckets[b])]
  <2>1. IsFiniteSet(Buckets)
    BY FS_Interval, NumBucketsAssumption DEF Buckets
  <2>2. f \in Surjection(Buckets, T)
    BY DEF Surjection
  <2>3. IsFiniteSet(T)
    BY <2>1, <2>2, FS_Surjection
  <2>4. \A P \in T : IsFiniteSet(P)
    BY ChainSizes
  <2> QED
    BY <1>1, <2>3, <2>4, FS_UNION
<1>3. \A b \in Buckets : \A c \in Pairs(buckets[b]) : c \in Keys \X Values /\ kv_bucket(c[1]) = b
  BY EntryTypes DEF Pairs
<1> QED
  BY <1>1, <1>2, <1>3

-----------------------------------------------------------------------------
(* What a step does to a walk. *)

(* The histories: they start from the contents, stand still once the walk   *)
(* is over and follow the contents in between.                              *)
LEMMA HistoryStep ==
  ASSUME WalkNext, NEW u \in Threads, Walking(u)'
  PROVE  /\ ~ Walking(u) => always'[u] = Contents' /\ ever'[u] = Contents'
         /\ Walking(u) /\ pc[u] = "done" => always'[u] = always[u] /\ ever'[u] = ever[u]
         /\ Walking(u) /\ pc[u] # "done" => /\ always'[u] = always[u] \cap Contents'
                                            /\ ever'[u] = ever[u] \cup Contents'
BY DEF WalkNext, Record, Meet, Join

(* A step that reads no chain: the walk stays where it is, or ends because  *)
(* its array is full.                                                       *)
Passes(u) ==
  /\ req'[u] = req[u] /\ cnt'[u] = cnt[u] /\ out'[u] = out[u]
  /\ pc[u] = "done" => pc'[u] = "done"
  /\ \/ Progress(u)' = Progress(u) /\ (pc'[u] = "leave" <=> pc[u] = "leave")
     \/ req[u].fn = "snapshot" /\ cnt[u] = req[u].max /\ pc'[u] = "done"

Reads(u) == CountBucket(u) \/ SnapshotBucket(u) \/ SnapshotFull(u)

(* What the step of any thread is for the walk of u. *)
LEMMA StepOf ==
  ASSUME WInv, Next, NEW u \in Threads, Walking(u)'
  PROVE  \/ pc[u] = "idle" /\ pc'[u] = "enter" /\ UNCHANGED <<bkt, cnt, out>>
         \/ Walking(u) /\ Reads(u)
         \/ Walking(u) /\ Passes(u)
<1> USE DEF WInv, IInv, TypeOK, Goto, Result, Walking, Passes, Progress, ControlOK, Control
<1>1. ASSUME NEW t \in Threads, NEW r \in Requests(Caps), Call(t, r)
      PROVE  \/ pc[u] = "idle" /\ pc'[u] = "enter" /\ UNCHANGED <<bkt, cnt, out>>
             \/ Walking(u) /\ Passes(u)
  BY <1>1 DEF Call
<1>2. ASSUME NEW t \in Threads, Return(t) PROVE Walking(u) /\ Passes(u)
  BY <1>2 DEF Return
<1>3. ASSUME NEW t \in Threads, Lock(t) PROVE Walking(u) /\ Passes(u)
  BY <1>3 DEF Lock
<1>4. ASSUME NEW t \in Threads, t # u, Step(t) PROVE Walking(u) /\ Passes(u)
  BY <1>4 DEF Step, AddDup, AddDupNoMem, KeyedEnter, WalkEnter, SnapshotInvalid, Scan,
              AddUpdate, AddNew, AddNewNoMem, RemoveFound, LookupFound, NotFound,
              CountBucket, SnapshotBucket, SnapshotFull, UnlockReturn, UnlockNext
<1>5. CASE WalkEnter(u)
  BY <1>5 DEF WalkEnter
<1>6. CASE SnapshotInvalid(u)
  BY <1>6 DEF SnapshotInvalid, WalkOK, Start
<1>7. CASE UnlockReturn(u)
  BY <1>7 DEF UnlockReturn, WalkOK, Going
<1>8. CASE UnlockNext(u)
  BY <1>8, NumBucketsAssumption DEF UnlockNext, Buckets
<1>9. ASSUME AddDup(u) \/ AddDupNoMem(u) \/ KeyedEnter(u) \/ Scan(u) \/ AddUpdate(u)
             \/ AddNew(u) \/ AddNewNoMem(u) \/ RemoveFound(u) \/ LookupFound(u) \/ NotFound(u)
      PROVE  FALSE
  BY <1>9 DEF AddDup, AddDupNoMem, KeyedEnter, Scan, AddUpdate, AddNew, AddNewNoMem,
              RemoveFound, LookupFound, NotFound, Acting, KeyedFns, WalkFns
<1>10. ASSUME Reads(u) PROVE Walking(u)
  BY <1>10 DEF Reads, CountBucket, SnapshotBucket, SnapshotFull, WalkFns
<1> QED
  BY <1>1, <1>2, <1>3, <1>4, <1>5, <1>6, <1>7, <1>8, <1>9, <1>10 DEF Next, Step, Reads

(* The contents are finite and well typed after a step, too. *)
LEMMA ContentsNext == IInv' => (IsFiniteSet(Contents) /\ Contents \subseteq Keys \X Values)'
<1>1. IInv => IsFiniteSet(Contents) /\ Contents \subseteq Keys \X Values
  BY ContentsFacts
<1> QED
  BY <1>1, PTL

(* A walk that has just begun is behind no chain. *)
LEMMA WalkBegins ==
  ASSUME WInv, IInv', WalkNext, NEW u \in Threads, Walking(u)',
         pc[u] = "idle", pc'[u] = "enter", UNCHANGED <<bkt, cnt, out>>
  PROVE  Going(u)'
<1>1. always'[u] = Contents' /\ ever'[u] = Contents'
  BY HistoryStep DEF Walking
<1>2. bkt'[u] = 0 /\ cnt'[u] = 0 /\ out'[u] = {} /\ Progress(u)' = 0
  BY DEF WInv, WalkOK, Start, Progress
<1>3. History(u)'
  BY <1>1, ContentsNext DEF History
<1>4. \A c \in Contents' : ~ (kv_bucket(c[1]) < 0)
  BY ContentsNext, HashMinAssumption DEF kv_bucket, Buckets
<1>5. Behind(u, Contents)' = {}
  BY <1>2, <1>4 DEF Behind, kv_bucket
<1>6. req'[u].fn = "snapshot" => Array(u)' /\ Covers(u)'
  <2> SUFFICES ASSUME req'[u].fn = "snapshot" PROVE Array(u)' /\ Covers(u)'
    OBVIOUS
  <2>1. req'[u].max \in Nat
    BY RequestShape DEF IInv, ControlOK, Control
  <2>2. Array(u)'
    BY <1>2, <2>1, FS_EmptySet DEF Array
  <2>3. Behind(u, always[u])' = {}
    BY <1>1, <1>5 DEF Behind
  <2> QED
    BY <1>2, <2>2, <2>3 DEF Covers
<1>7. Counts(u)'
  BY <1>1, <1>2, <1>5, FS_EmptySet DEF Counts, Behind
<1> QED
  BY <1>2, <1>3, <1>6, <1>7 DEF Going

(* A larger history has more pairs behind the walk, a smaller one fewer. *)
LEMMA BehindGrows ==
  ASSUME NEW t, NEW A, NEW B, A \subseteq B, IsFiniteSet(B)
  PROVE  /\ Cardinality(Behind(t, A)) <= Cardinality(Behind(t, B))
         /\ Cardinality(Behind(t, A)) \in Nat /\ Cardinality(Behind(t, B)) \in Nat
<1>1. Behind(t, A) \subseteq Behind(t, B) /\ Behind(t, B) \subseteq B
  BY DEF Behind
<1>2. IsFiniteSet(Behind(t, B)) /\ IsFiniteSet(Behind(t, A))
  BY <1>1, FS_Subset
<1> QED
  BY <1>1, <1>2, FS_Subset, FS_CardinalityType

(* What other threads do, and steps between two chains, keep the invariant. *)
LEMMA WalkPasses ==
  ASSUME WInv, IInv', WalkNext, NEW u \in Threads, Walking(u)', Walking(u), Passes(u)
  PROVE  Going(u)'
<1> USE DEF Passes
<1>1. Going(u) /\ cnt[u] \in Nat
  BY DEF WInv, WalkOK, IInv, TypeOK
<1>2. /\ always'[u] \subseteq always[u] /\ ever[u] \subseteq ever'[u]
      /\ IsFiniteSet(always[u]) /\ IsFiniteSet(ever'[u])
      /\ History(u)'
  <2>1. CASE pc[u] = "done"
    BY <1>1, <2>1, HistoryStep DEF Going, History
  <2>2. CASE pc[u] # "done"
    <3>1. always'[u] = always[u] \cap Contents' /\ ever'[u] = ever[u] \cup Contents'
      BY <2>2, HistoryStep
    <3>2. IsFiniteSet(always'[u]) /\ IsFiniteSet(ever'[u])
      <4>1. IsFiniteSet(always[u]) /\ IsFiniteSet(ever[u]) /\ IsFiniteSet(Contents')
        BY <1>1, ContentsNext DEF Going, History
      <4>2. IsFiniteSet(always[u] \cap Contents') /\ IsFiniteSet(ever[u] \cup Contents')
        BY <4>1, FS_Union, FS_Intersection
      <4> QED
        BY <3>1, <4>2, Zenon
    <3>3. always'[u] \subseteq Keys \X Values /\ ever'[u] \subseteq Keys \X Values
      BY <1>1, <3>1, ContentsNext DEF Going, History
    <3>4. always'[u] \subseteq Contents' /\ Contents' \subseteq ever'[u]
      BY <3>1
    <3>5. always'[u] \subseteq always[u] /\ ever[u] \subseteq ever'[u]
      BY <3>1
    <3> QED
      BY <1>1, <3>2, <3>3, <3>4, <3>5 DEF Going, History
  <2> QED
    BY <2>1, <2>2
<1>3. CASE Progress(u)' = Progress(u) /\ (pc'[u] = "leave" <=> pc[u] = "leave")
  <2>1. \A A : Behind(u, A)' = Behind(u, A)
    BY <1>3 DEF Behind, kv_bucket
  <2>2. req[u].fn = "snapshot" => Array(u)'
    BY <1>1, <1>3 DEF Going, Array, kv_bucket
  <2>3. req[u].fn = "snapshot" => Covers(u)'
    BY <1>1, <1>2, <1>3 DEF Going, Covers, Behind, kv_bucket, AsMessage
  <2>4. req[u].fn = "count" => Counts(u)'
    <3>1. /\ Behind(u, always[u])' = Behind(u, always'[u])
          /\ Behind(u, ever[u])' = Behind(u, ever'[u])
      BY <1>3 DEF Behind, kv_bucket
    <3>2. /\ Cardinality(Behind(u, always'[u])) <= Cardinality(Behind(u, always[u]))
          /\ Cardinality(Behind(u, always'[u])) \in Nat
          /\ Cardinality(Behind(u, always[u])) \in Nat
      BY <1>2, BehindGrows
    <3>3. /\ Cardinality(Behind(u, ever[u])) <= Cardinality(Behind(u, ever'[u]))
          /\ Cardinality(Behind(u, ever[u])) \in Nat
          /\ Cardinality(Behind(u, ever'[u])) \in Nat
      BY <1>2, BehindGrows
    <3> QED
      BY <1>1, <3>1, <3>2, <3>3 DEF Going, Counts
  <2> QED
    BY <1>1, <1>2, <1>3, <2>2, <2>3, <2>4 DEF Going
<1>4. CASE req[u].fn = "snapshot" /\ cnt[u] = req[u].max /\ pc'[u] = "done"
  <2>1. Array(u)'
    BY <1>1, <1>4 DEF Going, Array
  <2>2. Covers(u)'
    BY <1>1, <1>2, <1>4 DEF Going, Covers, AsMessage
  <2> QED
    BY <1>1, <1>2, <1>4, <2>1, <2>2 DEF Going
<1> QED
  BY <1>3, <1>4

(* When a walk reads chain b, the pairs behind it grow by those of chain b. *)
LEMMA ReadBehind ==
  ASSUME WInv, IInv', WalkNext, NEW u \in Threads, Walking(u)', Walking(u), Reads(u)
  PROVE  /\ bkt[u] \in Buckets /\ pc[u] = "walk" /\ Progress(u) = bkt[u]
         /\ UNCHANGED <<req, bkt, Contents>> /\ always'[u] = always[u] /\ ever'[u] = ever[u]
         /\ Going(u) /\ History(u)'
<1>1. bkt[u] \in Buckets /\ pc[u] = "walk" /\ Going(u)
  BY DEF WInv, WalkOK, IInv, TypeOK, Reads, CountBucket, SnapshotBucket, SnapshotFull
<1>2. UNCHANGED <<req, bkt, buckets, str>>
  BY DEF Reads, CountBucket, SnapshotBucket, SnapshotFull, shared
<1>3. Contents' = Contents
  BY <1>2 DEF Contents
<1>4. always'[u] = always[u] /\ ever'[u] = ever[u]
  <2>1. always'[u] = always[u] \cap Contents /\ ever'[u] = ever[u] \cup Contents
    BY <1>1, <1>3, HistoryStep
  <2>2. always[u] \subseteq Contents /\ Contents \subseteq ever[u]
    BY <1>1 DEF Going, History
  <2> QED
    BY <2>1, <2>2
<1>5. History(u)'
  BY <1>1, <1>3, <1>4 DEF Going, History
<1> QED
  BY <1>1, <1>2, <1>3, <1>4, <1>5 DEF Progress

(* A count adds the size of the chain. *)
LEMMA WalkCounts ==
  ASSUME WInv, IInv', WalkNext, NEW u \in Threads, Walking(u)', Walking(u), CountBucket(u)
  PROVE  Going(u)'
<1> DEFINE b == bkt[u]
           P == Pairs(buckets[b])
           A == {c \in always[u] : kv_bucket(c[1]) = b}
<1>1. /\ b \in Buckets /\ pc[u] = "walk" /\ Progress(u) = b
      /\ req'[u] = req[u] /\ always'[u] = always[u] /\ ever'[u] = ever[u]
      /\ Going(u) /\ History(u)'
  BY ReadBehind DEF Reads
<1>2. pc'[u] = "unlock" /\ Progress(u)' = b + 1 /\ req[u].fn = "count"
      /\ cnt'[u] = cnt[u] + Cardinality(buckets[b]) /\ cnt[u] \in Nat
  BY DEF CountBucket, Goto, Progress, WInv, IInv, TypeOK
<1>3. \A c \in always[u] \cup ever[u] : kv_bucket(c[1]) \in Nat
  BY <1>1, HashMinAssumption DEF Going, History, kv_bucket, Buckets
<1>4. b \in Nat
  BY <1>1 DEF Buckets
<1>5. /\ A \subseteq P /\ P \subseteq ever[u] /\ IsFiniteSet(P)
      /\ Cardinality(P) = Cardinality(buckets[b]) /\ Cardinality(P) \in Nat
      /\ \A c \in P : kv_bucket(c[1]) = b
  <2>1. IInv /\ always[u] \subseteq Contents /\ Contents \subseteq ever[u]
    BY <1>1 DEF WInv, Going, History
  <2>2. {c \in Contents : kv_bucket(c[1]) = b} = P
    BY <1>1, <2>1, ContentsFacts
  <2>3. IsFiniteSet(P) /\ Cardinality(P) = Cardinality(buckets[b]) /\ Cardinality(P) \in Nat
    BY <1>1, <2>1, ChainSizes
  <2> QED
    BY <2>1, <2>2, <2>3
<1> HIDE DEF P
<1>6. Behind(u, always[u])' = Behind(u, always[u]) \cup A
  BY <1>1, <1>2, <1>3, <1>4 DEF Behind, kv_bucket
<1>7. Behind(u, ever[u]) \cup P \subseteq Behind(u, ever[u])'
  BY <1>1, <1>2, <1>3, <1>4, <1>5 DEF Behind, kv_bucket
<1>8. Behind(u, ever[u]) \cap P = {}
  BY <1>1, <1>4, <1>5 DEF Behind
<1> HIDE DEF A, b
<1>9. /\ IsFiniteSet(Behind(u, always[u])) /\ IsFiniteSet(Behind(u, ever[u]))
      /\ IsFiniteSet(Behind(u, ever[u])')
  <2>1. Behind(u, always[u]) \subseteq always[u] /\ Behind(u, ever[u]) \subseteq ever[u]
        /\ Behind(u, ever[u])' \subseteq ever[u]
    BY <1>1 DEF Behind
  <2> QED
    BY <1>1, <2>1, FS_Subset DEF Going, History
<1>10. Cardinality(Behind(u, always[u])') <= cnt'[u]
  <2>1. IsFiniteSet(A) /\ Cardinality(A) <= Cardinality(P) /\ Cardinality(A) \in Nat
    BY <1>5, FS_Subset, FS_CardinalityType
  <2>2. Cardinality(Behind(u, always[u]) \cup A)
          = Cardinality(Behind(u, always[u])) + Cardinality(A)
              - Cardinality(Behind(u, always[u]) \cap A)
    BY <1>9, <2>1, FS_Union
  <2>3. /\ Cardinality(Behind(u, always[u]) \cap A) \in Nat
        /\ Cardinality(Behind(u, always[u])) \in Nat
    BY <1>9, <2>1, FS_Intersection, FS_CardinalityType
  <2>4. Cardinality(Behind(u, always[u])) <= cnt[u]
    BY <1>1, <1>2 DEF Going, Counts
  <2>5. Cardinality(Behind(u, always[u]) \cup A) <= cnt'[u]
    BY <1>2, <1>5, <2>1, <2>2, <2>3, <2>4
  <2> QED
    BY <1>6, <2>5, Zenon
<1>11. cnt'[u] <= Cardinality(Behind(u, ever[u])')
  <2>1. Cardinality(Behind(u, ever[u]) \cup P)
          = Cardinality(Behind(u, ever[u])) + Cardinality(P)
              - Cardinality(Behind(u, ever[u]) \cap P)
    BY <1>5, <1>9, FS_Union
  <2>2. Cardinality(Behind(u, ever[u]) \cap P) = 0
    BY <1>8, FS_EmptySet
  <2>3. /\ Cardinality(Behind(u, ever[u]) \cup P) <= Cardinality(Behind(u, ever[u])')
        /\ Cardinality(Behind(u, ever[u])') \in Nat /\ Cardinality(Behind(u, ever[u])) \in Nat
    BY <1>7, <1>9, FS_Subset, FS_CardinalityType
  <2>4. cnt[u] <= Cardinality(Behind(u, ever[u]))
    BY <1>1, <1>2 DEF Going, Counts
  <2> QED
    BY <1>2, <1>5, <2>1, <2>2, <2>3, <2>4
<1> QED
  <2>1. out'[u] = out[u]
    BY DEF CountBucket
  <2> QED
    BY <1>1, <1>2, <1>10, <1>11, <2>1 DEF Going, Counts

(* A snapshot adds messages for the entries of the chain, or for the part S *)
(* of them: new keys, and pairs that the table holds.                       *)
LEMMA CopiesMore ==
  ASSUME IInv, NEW u \in Threads, NEW b \in Buckets, pc[u] = "walk", Progress(u) = b,
         Going(u), req[u].fn = "snapshot",
         NEW S \in SUBSET buckets[b], out'[u] = out[u] \cup {Copy(e) : e \in S}
  PROVE  /\ IsFiniteSet(out'[u]) /\ Cardinality(out'[u]) = cnt[u] + Cardinality(S)
         /\ \A m1, m2 \in out'[u] : m1.key = m2.key => m1 = m2
         /\ \A m \in out'[u] : kv_bucket(m.key) < b + 1
         /\ out'[u] \subseteq {AsMessage(c) : c \in ever[u]}
<1> DEFINE C == {Copy(e) : e \in S}
<1>1. /\ IsFiniteSet(out[u]) /\ cnt[u] = Cardinality(out[u])
      /\ \A m1, m2 \in out[u] : m1.key = m2.key => m1 = m2
      /\ \A m \in out[u] : kv_bucket(m.key) < b
      /\ out[u] \subseteq {AsMessage(c) : c \in ever[u]}
      /\ Contents \subseteq ever[u]
  BY DEF Going, Array, Covers, History
<1>2. /\ IsFiniteSet(C) /\ Cardinality(C) = Cardinality(S) /\ Cardinality(S) \in Nat
      /\ \A m \in C : kv_bucket(m.key) = b
      /\ \A m1, m2 \in C : m1.key = m2.key => m1 = m2
  BY ChainSizes, CopyFacts
<1>3. C \subseteq {AsMessage(c) : c \in ever[u]}
  <2>1. Pairs(S) \subseteq Contents
    BY DEF Pairs, Contents
  <2>2. \A m \in C : \E c \in Pairs(S) : m = AsMessage(c)
    BY CopyFacts
  <2> HIDE DEF C
  <2> QED
    BY <1>1, <2>1, <2>2
<1>4. b \in Nat /\ cnt[u] \in Nat /\ \A m \in out[u] : kv_bucket(m.key) \in Nat
  BY HashMinAssumption DEF IInv, TypeOK, Messages, Buckets, kv_bucket
<1> HIDE DEF C
<1>5. out[u] \cap C = {}
  BY <1>1, <1>2, <1>4
<1>6. IsFiniteSet(out[u] \cup C) /\ Cardinality(out[u] \cup C) = cnt[u] + Cardinality(S)
  <2>1. /\ IsFiniteSet(out[u] \cup C)
        /\ Cardinality(out[u] \cup C)
             = Cardinality(out[u]) + Cardinality(C) - Cardinality(out[u] \cap C)
    BY <1>1, <1>2, FS_Union
  <2>2. Cardinality(out[u] \cap C) = 0
    BY <1>5, FS_EmptySet
  <2> QED
    BY <1>1, <1>2, <1>4, <2>1, <2>2
<1>7. out'[u] = out[u] \cup C
  BY DEF C
<1>8. IsFiniteSet(out'[u]) /\ Cardinality(out'[u]) = cnt[u] + Cardinality(S)
  BY <1>6, <1>7, Zenon
<1>9. \A m \in out'[u] : kv_bucket(m.key) < b + 1
  BY <1>1, <1>2, <1>4, <1>7
<1>10. \A m1, m2 \in out'[u] : m1.key = m2.key => m1 = m2
  <2> SUFFICES ASSUME NEW m1 \in out'[u], NEW m2 \in out'[u], m1.key = m2.key PROVE m1 = m2
    OBVIOUS
  <2>1. kv_bucket(m1.key) = kv_bucket(m2.key)
    OBVIOUS
  <2>2. (m1 \in out[u] /\ m2 \in out[u]) \/ (m1 \in C /\ m2 \in C)
    BY <1>1, <1>2, <1>4, <1>7, <2>1
  <2> QED
    BY <1>1, <1>2, <2>2
<1> QED
  BY <1>1, <1>3, <1>7, <1>8, <1>9, <1>10

(* A snapshot with room for the chain copies all of it. *)
LEMMA WalkCopies ==
  ASSUME WInv, IInv', WalkNext, NEW u \in Threads, Walking(u)', Walking(u), SnapshotBucket(u)
  PROVE  Going(u)'
<1> DEFINE b == bkt[u]
<1>1. /\ b \in Buckets /\ pc[u] = "walk" /\ Progress(u) = b
      /\ req'[u] = req[u] /\ always'[u] = always[u] /\ ever'[u] = ever[u]
      /\ Going(u) /\ History(u)' /\ IInv
  BY ReadBehind DEF Reads, WInv
<1>2. /\ pc'[u] = "unlock" /\ Progress(u)' = b + 1 /\ req[u].fn = "snapshot"
      /\ out'[u] = out[u] \cup {Copy(e) : e \in buckets[b]}
      /\ cnt'[u] = cnt[u] + Cardinality(buckets[b])
      /\ cnt[u] \in Nat /\ Cardinality(buckets[b]) <= req[u].max - cnt[u]
  BY DEF SnapshotBucket, Goto, Progress, WInv, IInv, TypeOK, Room
<1>3. Cardinality(buckets[b]) \in Nat /\ req[u].max \in Nat
  BY <1>1, <1>2, ChainSizes, RequestShape DEF IInv, ControlOK, Control
<1>4. /\ IsFiniteSet(out'[u]) /\ Cardinality(out'[u]) = cnt[u] + Cardinality(buckets[b])
      /\ \A m1, m2 \in out'[u] : m1.key = m2.key => m1 = m2
      /\ \A m \in out'[u] : kv_bucket(m.key) < b + 1
      /\ out'[u] \subseteq {AsMessage(c) : c \in ever[u]}
  <2>1. buckets[b] \in SUBSET buckets[b]
    OBVIOUS
  <2> HIDE DEF b
  <2> QED
    BY <1>1, <1>2, <2>1, CopiesMore
<1>5. Array(u)'
  BY <1>1, <1>2, <1>3, <1>4 DEF Array, kv_bucket
<1>6. ASSUME cnt'[u] < req[u].max, NEW c \in always[u], kv_bucket(c[1]) < b + 1
      PROVE  AsMessage(c) \in out'[u]
  <2>1. c \in Contents /\ kv_bucket(c[1]) \in Nat /\ b \in Nat
    BY <1>1, HashMinAssumption DEF Going, History, kv_bucket, Buckets
  <2>2. CASE kv_bucket(c[1]) = b
    <3>1. c \in Pairs(buckets[b])
      BY <1>1, <2>1, <2>2, ContentsFacts
    <3>2. PICK e \in buckets[b] : c = <<e.key, str[e.value]>>
      BY <3>1 DEF Pairs
    <3>3. AsMessage(c) = Copy(e)
      BY <3>2 DEF AsMessage, Copy
    <3> QED
      BY <1>2, <3>3
  <2>3. CASE kv_bucket(c[1]) # b
    <3>1. c \in Behind(u, always[u])
      BY <1>1, <1>6, <2>1, <2>3 DEF Behind
    <3>2. cnt[u] < req[u].max
      BY <1>2, <1>3, <1>6
    <3> QED
      BY <1>1, <1>2, <3>1, <3>2 DEF Going, Covers
  <2> QED
    BY <2>2, <2>3
<1>7. Covers(u)'
  BY <1>1, <1>2, <1>4, <1>6 DEF Covers, Behind, kv_bucket, AsMessage
<1> QED
  BY <1>1, <1>2, <1>5, <1>7 DEF Going

(* A snapshot without room for the chain fills its array and stops. *)
LEMMA WalkFills ==
  ASSUME WInv, IInv', WalkNext, NEW u \in Threads, Walking(u)', Walking(u), SnapshotFull(u)
  PROVE  Going(u)'
<1> DEFINE b == bkt[u]
<1>1. /\ b \in Buckets /\ pc[u] = "walk" /\ Progress(u) = b
      /\ req'[u] = req[u] /\ always'[u] = always[u] /\ ever'[u] = ever[u]
      /\ Going(u) /\ History(u)' /\ IInv
  BY ReadBehind DEF Reads, WInv
<1>2. PICK S \in SUBSET buckets[b] : /\ Cardinality(S) = req[u].max - cnt[u]
                                     /\ out'[u] = out[u] \cup {Copy(e) : e \in S}
  BY DEF SnapshotFull, Room, WInv, IInv, TypeOK
<1>3. pc'[u] = "leave" /\ req[u].fn = "snapshot" /\ cnt'[u] = req[u].max /\ cnt[u] \in Nat
  BY DEF SnapshotFull, Goto, WInv, IInv, TypeOK
<1>4. req[u].max \in Nat
  BY <1>1, <1>3, RequestShape DEF IInv, ControlOK, Control
<1>5. /\ IsFiniteSet(out'[u]) /\ Cardinality(out'[u]) = cnt[u] + Cardinality(S)
      /\ \A m1, m2 \in out'[u] : m1.key = m2.key => m1 = m2
      /\ out'[u] \subseteq {AsMessage(c) : c \in ever[u]}
  <2> HIDE DEF b
  <2> QED
    BY <1>1, <1>2, <1>3, CopiesMore
<1>6. Cardinality(out'[u]) = req[u].max
  BY <1>2, <1>3, <1>4, <1>5
<1>7. Array(u)'
  BY <1>1, <1>3, <1>4, <1>5, <1>6 DEF Array
<1>8. Covers(u)'
  BY <1>1, <1>3, <1>4, <1>5 DEF Covers, AsMessage
<1> QED
  BY <1>1, <1>3, <1>7, <1>8 DEF Going

(* The locals of a call are reset before the next one. *)
LEMMA StartStep ==
  ASSUME WInv, [Next]_vars, NEW u \in Threads
  PROVE  Start(u)'
<1> USE DEF WInv, IInv, TypeOK, WalkOK, Start, Goto
<1>1. CASE UNCHANGED vars
  BY <1>1 DEF vars
<1>2. ASSUME NEW t \in Threads, NEW r \in Requests(Caps), Call(t, r) PROVE Start(u)'
  BY <1>2 DEF Call
<1>3. ASSUME NEW t \in Threads, Return(t) PROVE Start(u)'
  BY <1>3 DEF Return
<1>4. ASSUME NEW t \in Threads, Lock(t) \/ Step(t) PROVE Start(u)'
  <2>1. t # u => pc'[u] = pc[u] /\ bkt'[u] = bkt[u] /\ cnt'[u] = cnt[u] /\ out'[u] = out[u]
    BY <1>4 DEF Lock, Step, AddDup, AddDupNoMem, KeyedEnter, WalkEnter, SnapshotInvalid, Scan,
              AddUpdate, AddNew, AddNewNoMem, RemoveFound, LookupFound, NotFound,
              CountBucket, SnapshotBucket, SnapshotFull, UnlockReturn, UnlockNext
  <2>2. t = u => pc'[u] \notin {"idle", "enter"}
    BY <1>4 DEF Lock, Step, AddDup, AddDupNoMem, KeyedEnter, WalkEnter, SnapshotInvalid, Scan,
              AddUpdate, AddNew, AddNewNoMem, RemoveFound, LookupFound, NotFound,
              CountBucket, SnapshotBucket, SnapshotFull, UnlockReturn, UnlockNext
  <2> QED
    BY <2>1, <2>2
<1> QED
  BY <1>1, <1>2, <1>3, <1>4 DEF Next

(* The invariant of the walks holds in every reachable state. *)
LEMMA WalkInvariance == WalkSpec => []WInv
<1>1. WalkInit => WInv
  <2> SUFFICES ASSUME WalkInit PROVE WInv
    OBVIOUS
  <2>1. IInv
    BY InitInv DEF WalkInit
  <2>2. \A t \in Threads : WalkOK(t)
    BY DEF WalkInit, Init, WalkOK, Start, Walking
  <2> QED
    BY <2>1, <2>2 DEF WInv
<1>2. WInv /\ [WalkNext]_walkVars => WInv'
  <2> SUFFICES ASSUME WInv, [WalkNext]_walkVars PROVE WInv'
    OBVIOUS
  <2>1. [Next]_vars
    BY DEF WalkNext, walkVars
  <2>2. IInv'
    BY <2>1, TypeStep, ControlStep, LockStep, ChainsStep, KeysStep, StringsStep, FoundStep
    DEF WInv, IInv
  <2>3. CASE UNCHANGED walkVars
    <3>1. ASSUME NEW u \in Threads PROVE WalkOK(u)'
      <4> USE <2>3 DEF walkVars, vars
      <4>1. Contents' = Contents /\ Progress(u)' = Progress(u)
        BY DEF Contents, Progress
      <4>2. History(u)' = History(u)
        BY <4>1 DEF History
      <4>3. Array(u)' = Array(u)
        BY <4>1 DEF Array, kv_bucket
      <4>4. /\ Behind(u, always[u])' = Behind(u, always[u])
            /\ Behind(u, ever[u])' = Behind(u, ever[u])
        BY <4>1 DEF Behind, kv_bucket
      <4>5. Covers(u)' = Covers(u)
        BY <4>4 DEF Covers, AsMessage
      <4>6. Counts(u)' = Counts(u)
        BY <4>4 DEF Counts
      <4> QED
        BY <4>2, <4>3, <4>5, <4>6 DEF WInv, WalkOK, Start, Walking, Going
    <3> QED
      BY <2>2, <3>1 DEF WInv
  <2>4. CASE WalkNext
    <3>1. ASSUME NEW u \in Threads, Walking(u)' PROVE Going(u)'
      <4>1. CASE pc[u] = "idle" /\ pc'[u] = "enter" /\ UNCHANGED <<bkt, cnt, out>>
        BY <2>2, <2>4, <3>1, <4>1, WalkBegins
      <4>2. CASE Walking(u) /\ Reads(u)
        BY <2>2, <2>4, <3>1, <4>2, WalkCounts, WalkCopies, WalkFills DEF Reads
      <4>3. CASE Walking(u) /\ Passes(u)
        BY <2>2, <2>4, <3>1, <4>3, WalkPasses
      <4> QED
        BY <2>4, <3>1, <4>1, <4>2, <4>3, StepOf DEF WalkNext
    <3> QED
      BY <2>1, <2>2, <3>1, StartStep DEF WInv, WalkOK
  <2> QED
    BY <2>3, <2>4
<1> QED
  BY <1>1, <1>2, PTL DEF WalkSpec

-----------------------------------------------------------------------------

(* A snapshot never invents or mixes: each message is a pair that the table *)
(* held during the call (kv_hash.c:287-291).                                *)
THEOREM SnapshotTellsTruth == WalkSpec => []SnapshotSound
<1>1. WInv => SnapshotSound
  <2> SUFFICES ASSUME WInv, NEW t \in Threads, Walking(t)
               PROVE  out[t] \subseteq {AsMessage(c) : c \in ever[t]}
    BY DEF SnapshotSound
  <2>1. Going(t) /\ req[t].fn \in {"count", "snapshot"}
    BY DEF WInv, WalkOK, Walking, WalkFns
  <2> QED
    BY <2>1 DEF Going, Covers
<1> QED
  BY <1>1, WalkInvariance, PTL

(* All chains are behind a walk that has returned. *)
LEMMA AllBehind ==
  ASSUME WInv, NEW t \in Threads, Walking(t), pc[t] = "done"
  PROVE  Behind(t, always[t]) = always[t] /\ Behind(t, ever[t]) = ever[t]
<1>1. \A c \in always[t] \cup ever[t] : kv_bucket(c[1]) \in Buckets
  BY HashMinAssumption DEF WInv, WalkOK, Going, History, kv_bucket
<1>2. Progress(t) = NumBuckets
  BY DEF Progress
<1> QED
  BY <1>1, <1>2, NumBucketsAssumption DEF Behind, Buckets

(* A snapshot with room to spare misses nothing that was in the table from  *)
(* its beginning to its end (kv_hash.c:276-296).                            *)
THEOREM SnapshotMissesNothing == WalkSpec => []SnapshotComplete
<1>1. WInv => SnapshotComplete
  <2> SUFFICES ASSUME WInv, NEW t \in Threads, Finished(t, "snapshot"), cnt[t] < req[t].max
               PROVE  {AsMessage(c) : c \in always[t]} \subseteq out[t]
    BY DEF SnapshotComplete
  <2>1. Walking(t) /\ pc[t] = "done" /\ req[t].fn = "snapshot"
    BY DEF Finished, Walking, WalkFns
  <2>2. \A c \in Behind(t, always[t]) : AsMessage(c) \in out[t]
    BY <2>1 DEF WInv, WalkOK, Going, Covers
  <2> QED
    BY <2>1, <2>2, AllBehind
<1> QED
  BY <1>1, WalkInvariance, PTL

(* The array is never overrun, and no key is in it twice (kv_hash.c:281). *)
THEOREM SnapshotInArray == WalkSpec => []SnapshotFits
<1>1. WInv => SnapshotFits
  BY DEF WInv, WalkOK, Going, Array, SnapshotFits
<1> QED
  BY <1>1, WalkInvariance, PTL

(* A count is between the number of entries that stayed in the table and    *)
(* the number that were ever in it during the call (kv_hash.c:241-248).     *)
THEOREM CountIsBounded == WalkSpec => []CountBounds
<1>1. WInv => CountBounds
  <2> SUFFICES ASSUME WInv, NEW t \in Threads, Finished(t, "count")
               PROVE  Cardinality(always[t]) <= cnt[t] /\ cnt[t] <= Cardinality(ever[t])
    BY DEF CountBounds
  <2>1. Walking(t) /\ pc[t] = "done" /\ req[t].fn = "count"
    BY DEF Finished, Walking, WalkFns
  <2>2. Counts(t)
    BY <2>1 DEF WInv, WalkOK, Going
  <2> QED
    BY <2>1, <2>2, AllBehind DEF Counts
<1> QED
  BY <1>1, WalkInvariance, PTL

=============================================================================
