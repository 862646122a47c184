--------------------------- MODULE KvPersistProofs ---------------------------
(***************************************************************************)
(* Machine-checked proofs about the daemon and its snapshot file, for any  *)
(* number of clients, keys, strings and buckets.                           *)
(*                                                                         *)
(* Seen from the kernel every step of the daemon is a step of KvLkm, or a  *)
(* reload of the module while no call is running (Projects), so that the   *)
(* invariant of KvLkm holds here too.  DaemonInv adds where the threads    *)
(* can be (Threading).  On top of it a restore needs how far it has come   *)
(* (RestoreInv) and that its lookups stay right (LiveInv), and a snapshot  *)
(* that nothing disturbs how far it has come (SavingInv).                  *)
(***************************************************************************)
EXTENDS KvPersist, KvLkmRefinement

-----------------------------------------------------------------------------
(* The kernel: what the daemon relies on beyond the invariant of KvLkm. *)

Below(b) == {k \in Keys : kv_bucket(k) < b}

(* No two entries of S are for the same key. *)
Unique(S) == \A d, e \in S : d.key = e.key => d = e

(* A walk starts at the first bucket, and has counted no more keys than     *)
(* there are in the buckets behind it; a snapshot has no key twice.         *)
Walk(t) ==
  /\ pc[t] \in {"idle", "dispatch"} => bkt[t] = 0 /\ cnt[t] = 0
  /\ pc[t] \in {"count", "verify", "copy"} => cnt[t] <= Cardinality(Below(bkt[t]))
  /\ pc[t] = "verify" => bkt[t] = NumBuckets
  /\ cnt[t] <= Cardinality(Keys)
  /\ Unique(out[t])

KernelInv == IInv /\ \A t \in Threads : Walk(t)

(* Where the threads of the daemon can be, in user space and in the kernel. *)
InKernel == {"counting", "snapping", "restoring", "op"}

Starting == {"load", "restore", "restoring", "network"}

Threading ==
  /\ \A t \in Threads :
       /\ upc[t] \in InKernel => pc[t] # "idle"
       /\ upc[t] \notin InKernel \cup {"down"} => pc[t] = "idle"
       /\ upc[t] = "counting" => call[t].cmd = "COUNT"
       /\ upc[t] = "snapping" => call[t].cmd = "SNAPSHOT" /\ call[t].capacity = snap[t].capacity
       /\ upc[t] = "restoring" => call[t].cmd = "INSERT"
       /\ upc[t] = "down" <=> upc[Main] = "down"
       /\ snap[t].capacity \in 0 .. Cardinality(Keys)
       /\ IsFiniteSet(snap[t].entries) /\ Unique(snap[t].entries)
  /\ upc[Main] \in Starting => \A c \in Clients : upc[c] = "none"
  /\ file # NULL => IsFiniteSet(file.entries) /\ Unique(file.entries)
  /\ sfd \notin {"none", "socket"} => shutdown
  /\ upc[Main] \in SnapLabels \cup {"killnet", "exit"} => shutdown

DaemonInv == KernelInv /\ DaemonTypeOK /\ Threading

(* The key that main is about to add, in a restore, is not in the store. *)
InsertsNew == upc[Main] = "restoring" /\ pc[Main] = "add" => map[call[Main].key] = NULL

-----------------------------------------------------------------------------
(* A restore into an empty store *)

(* The store holds the entries of S and nothing else. *)
Holds(S) ==
  \A k \in Keys : \/ \E e \in S : e.key = k /\ map[k] = e.value
                  \/ map[k] = NULL /\ \A e \in S : e.key # k

(* The entry that main is inserting. *)
InFlight == [key |-> call[Main].key, value |-> call[Main].value]

(* Its KV_INSERT has succeeded, as far as can be seen. *)
Applied ==
  /\ pc[Main] \in {"copyout", "done"}
  /\ pc[Main] = "done" => ret[Main] = 0
  /\ reply[Main].status = 0

Restoring ==
  clean =>
    /\ upc[Main] = "load" => Empty(map) /\ ~ Torn
    /\ upc[Main] = "restore" => file # NULL /\ todo \subseteq file.entries /\ Holds(file.entries \ todo)
    /\ upc[Main] = "restoring" =>
         /\ file # NULL /\ todo \subseteq file.entries
         /\ InFlight \in file.entries \ todo
         /\ pc[Main] \in {"dispatch", "lookup", "add"} => Holds((file.entries \ todo) \ {InFlight})
         /\ Applied => Holds(file.entries \ todo)
    /\ upc[Main] = "network" => map = FileMap

-----------------------------------------------------------------------------
(* A snapshot that nothing disturbs *)

(* The keys of the store in the first b buckets, and all of them *)
Present(b) == {k \in Keys : map[k] # NULL /\ kv_bucket(k) < b}
Stored == {k \in Keys : map[k] # NULL}

Saving(t) ==
  /\ upc[t] \in {"counting", "snapping"} /\ pc[t] = "count" => cnt[t] = Cardinality(Present(bkt[t]))
  /\ upc[t] = "counting" /\ (pc[t] = "copyout" \/ (pc[t] = "done" /\ ret[t] = 0)) =>
       cnt[t] = Cardinality(Stored)
  /\ upc[t] \in {"snap", "snapping"} => snap[t].capacity = Cardinality(Stored)
  /\ upc[t] = "snapping" =>
       /\ pc[t] = "verify" => cnt[t] = Cardinality(Stored)
       /\ pc[t] = "copy" => out[t] = Copied(Present(bkt[t]))
       /\ pc[t] = "copyout" \/ (pc[t] = "done" /\ ret[t] = 0) =>
            cnt[t] = Cardinality(Stored) /\ out[t] = Copied(Stored)
  /\ upc[t] \in {"open", "write"} =>
       snap[t].count = Cardinality(Stored) /\ snap[t].entries = Copied(Stored)
  /\ upc[t] = "write" => ~ offset[t] /\ (ofd[t] /\ ~ again => sfd = t)
  /\ upc[t] = "close" /\ ~ again =>
       file = [count |-> Cardinality(Stored), entries |-> Copied(Stored)]

SavingInv ==
  /\ DaemonInv /\ quiet \in [Threads -> BOOLEAN] /\ again \in BOOLEAN
  /\ \A t \in Threads : quiet[t] => Saving(t)

-----------------------------------------------------------------------------
(* The kernel part of the invariant *)

(* There are finitely many keys, and no more behind a walk than in all. *)
LEMMA BelowFinite ==
  ASSUME NEW b
  PROVE  /\ IsFiniteSet(Below(b)) /\ Cardinality(Below(b)) \in Nat
         /\ Cardinality(Keys) \in Nat /\ Cardinality(Below(b)) <= Cardinality(Keys)
<1>1. Below(b) \in SUBSET Keys
  BY DEF Below
<1> QED
  BY <1>1, KeysFiniteAssumption, FS_Subset, FS_CardinalityType

(* The keys of one more chain are behind the walk. *)
LEMMA BelowGrows ==
  ASSUME NEW b \in 0 .. NumBuckets, NEW S \in SUBSET Chain(b)
  PROVE  /\ Cardinality(S) \in Nat
         /\ Cardinality(Below(b)) + Cardinality(S) <= Cardinality(Below(b + 1))
<1>1. \A k \in Keys : kv_bucket(k) \in Nat
  BY HashMinAssumption, NumBucketsAssumption DEF kv_bucket, Buckets
<1>2. Below(b) \cap S = {}
  BY <1>1 DEF Below, Chain
<1>3. Below(b) \cup S \in SUBSET Below(b + 1)
  BY <1>1, NumBucketsAssumption DEF Below, Chain
<1>4. IsFiniteSet(S) /\ Cardinality(S) \in Nat
  BY ChainFinite
<1>5. Cardinality(Below(b) \cup S) = Cardinality(Below(b)) + Cardinality(S)
  <2>1. Cardinality(Below(b) \cup S)
          = Cardinality(Below(b)) + Cardinality(S) - Cardinality(Below(b) \cap S)
    BY <1>4, BelowFinite, FS_Union
  <2>2. Cardinality(Below(b) \cap S) = 0
    BY <1>2, FS_EmptySet
  <2> QED
    BY <1>4, <2>1, <2>2, BelowFinite
<1>6. Cardinality(Below(b) \cup S) <= Cardinality(Below(b + 1))
  BY <1>3, BelowFinite, FS_Subset
<1> QED
  BY <1>4, <1>5, <1>6

(* A snapshot that copies one more chain, or a part of it, has no key twice. *)
LEMMA UniqueGrows ==
  ASSUME KernelInv, NEW t \in Threads, pc[t] = "copy",
         NEW S \in SUBSET Chain(bkt[t]), out' = [out EXCEPT ![t] = @ \cup Copied(S)]
  PROVE  \A u \in Threads : Unique(out[u])'
<1>1. \A u \in Threads : Unique(out[u])
  BY DEF KernelInv, Walk
<1>2. \A e \in out[t] : e.key \in Keys /\ kv_bucket(e.key) < bkt[t]
  BY DEF KernelInv, IInv, TypeOK, CopyingOK, Copying
<1>3. \A e \in Copied(S) : kv_bucket(e.key) = bkt[t]
  BY CopiedSize DEF KernelInv, IInv
<1>4. \A d, e \in Copied(S) : d.key = e.key => d = e
  BY DEF Copied
<1>5. \A k \in Keys : kv_bucket(k) \in Int
  BY HashMinAssumption DEF kv_bucket, Buckets
<1>6. bkt[t] \in Int
  BY DEF KernelInv, IInv, TypeOK
<1>7. Unique(out[t] \cup Copied(S))
  <2> SUFFICES ASSUME NEW d \in out[t] \cup Copied(S), NEW e \in out[t] \cup Copied(S), d.key = e.key
               PROVE  d = e
    BY DEF Unique
  <2>1. CASE d \in out[t] /\ e \in out[t]
    BY <1>1, <2>1 DEF Unique
  <2>2. CASE d \in Copied(S) /\ e \in Copied(S)
    BY <1>4, <2>2
  <2>3. CASE (d \in out[t] /\ e \in Copied(S)) \/ (d \in Copied(S) /\ e \in out[t])
    BY <1>2, <1>3, <1>5, <1>6, <2>3
  <2> QED
    BY <2>1, <2>2, <2>3
<1>8. out'[t] = out[t] \cup Copied(S) /\ \A u \in Threads : u # t => out'[u] = out[u]
  BY DEF KernelInv, IInv, TypeOK
<1>9. ASSUME NEW u \in Threads PROVE Unique(out'[u])
  BY <1>1, <1>7, <1>8
<1> QED
  BY <1>9 DEF Unique

(* Every step of the kernel keeps what is said of the walks. *)
LEMMA WalkStep == KernelInv /\ [Next]_vars => \A t \in Threads : Walk(t)'
<1> SUFFICES ASSUME KernelInv, [Next]_vars, NEW u \in Threads PROVE Walk(u)'
  OBVIOUS
<1>0. /\ Walk(u) /\ u \in Threads /\ Cardinality(Keys) \in Nat
      /\ \A b : Cardinality(Below(b)) \in Nat /\ Cardinality(Below(b)) <= Cardinality(Keys)
      /\ bkt[u] \in 0 .. NumBuckets /\ cnt[u] \in Nat
      /\ Control(u) /\ Unique({})
  BY BelowFinite DEF KernelInv, IInv, TypeOK, ControlOK, Unique
<1>1. /\ pc \in [Threads -> Labels] /\ cnt \in [Threads -> Nat] /\ bkt \in [Threads -> 0 .. NumBuckets]
      /\ out \in [Threads -> SUBSET [key : Keys, value : Values]]
  BY DEF KernelInv, IInv, TypeOK
<1>2. Below(bkt[u])' = Below(bkt'[u])
  BY DEF Below
<1> USE <1>0, <1>1, <1>2 DEF Walk, walk, Goto
<1>3. CASE UNCHANGED <<bkt, cnt, out, pc>>
  BY <1>3 DEF Below, Unique
<1>4. ASSUME NEW t \in Threads, NEW c \in Calls(t), Ioctl(t, c) PROVE Walk(u)'
  BY <1>4 DEF Ioctl, Unique
<1>5. ASSUME NEW t \in Threads, Dispatch(t) PROVE Walk(u)'
  BY <1>5 DEF Dispatch, Below, Unique
<1>6. ASSUME NEW t \in Threads, NEW l \in {"add", "copyout", "done"}, Goto(t, l), UNCHANGED walk
       PROVE  Walk(u)'
  BY <1>6 DEF Unique
<1>7. ASSUME NEW t \in Threads,
             DispatchError(t) \/ CopyOut(t) \/ InsertLookup(t) \/ UpdateLookup(t)
               \/ Add(t) \/ AddNoMem(t) \/ Get(t) \/ Delete(t)
      PROVE  Walk(u)'
  <2>1. UNCHANGED walk /\ (Goto(t, "add") \/ Goto(t, "copyout") \/ Goto(t, "done"))
    BY <1>7 DEF DispatchError, CopyOut, InsertLookup, UpdateLookup, Add, AddNoMem, Get,
                 Delete, Leave, Reply
  <2> QED
    BY <1>6, <2>1
<1>8. ASSUME NEW t \in Threads, CountBucket(t) PROVE Walk(u)'
  <2>1. /\ Cardinality(Chain(bkt[t])) \in Nat
        /\ Cardinality(Below(bkt[t])) + Cardinality(Chain(bkt[t])) <= Cardinality(Below(bkt[t] + 1))
    BY BelowGrows
  <2>2. pc[t] = "count" /\ Walk(t)
    BY <1>8 DEF CountBucket, KernelInv
  <2> QED
    BY <1>8, <2>1, <2>2 DEF CountBucket, Unique
<1>9. ASSUME NEW t \in Threads, Counted(t) PROVE Walk(u)'
  BY <1>9 DEF Counted, Unique
<1>10. ASSUME NEW t \in Threads, Mismatch(t) \/ SnapshotError(t) \/ SnapshotEnd(t) PROVE Walk(u)'
  BY <1>10 DEF Mismatch, SnapshotError, SnapshotEnd, Leave, Unique
<1>11. ASSUME NEW t \in Threads, SnapshotAlloc(t) PROVE Walk(u)'
  BY <1>11 DEF SnapshotAlloc, Unique
<1>12. ASSUME NEW t \in Threads, SnapshotBucket(t) PROVE Walk(u)'
  <2>1. /\ Cardinality(Chain(bkt[t])) \in Nat
        /\ Cardinality(Below(bkt[t])) + Cardinality(Chain(bkt[t])) <= Cardinality(Below(bkt[t] + 1))
    BY BelowGrows
  <2>2. pc[t] = "copy" /\ Walk(t)
    BY <1>12 DEF SnapshotBucket, KernelInv
  <2>3. Unique(out[u])'
    BY <1>12, <2>2, UniqueGrows DEF SnapshotBucket
  <2> QED
    BY <1>12, <2>1, <2>2, <2>3 DEF SnapshotBucket
<1>13. ASSUME NEW t \in Threads, SnapshotFull(t) PROVE Walk(u)'
  <2>1. PICK S \in SUBSET Chain(bkt[t]) :
          /\ cnt[t] + Cardinality(S) = cap[t]
          /\ out' = [out EXCEPT ![t] = @ \cup Copied(S)]
    BY <1>13 DEF SnapshotFull
  <2>2. /\ Cardinality(S) \in Nat
        /\ Cardinality(Below(bkt[t])) + Cardinality(S) <= Cardinality(Below(bkt[t] + 1))
    BY BelowGrows
  <2>3. pc[t] = "copy" /\ Walk(t)
    BY <1>13 DEF SnapshotFull, KernelInv
  <2>4. Unique(out[u])'
    BY <2>1, <2>3, UniqueGrows
  <2> QED
    BY <1>13, <2>1, <2>2, <2>3, <2>4 DEF SnapshotFull
<1>14. ASSUME NEW t \in Threads, Return(t) PROVE Walk(u)'
  BY <1>14 DEF Return, Unique
<1> QED
  BY <1>3, <1>4, <1>5, <1>7, <1>8, <1>9, <1>10, <1>11, <1>12, <1>13, <1>14
  DEF Next, Step, vars

(* Every step of the kernel keeps the kernel part of the invariant. *)
LEMMA KernelStepInv == KernelInv /\ [Next]_vars => KernelInv'
  BY TypeStep, ControlStep, CopyingStep, WalkStep DEF KernelInv, IInv

(* Nor does a reload disturb it: no call is running. *)
LEMMA ReloadInv == KernelInv /\ Reload => KernelInv'
<1> SUFFICES ASSUME KernelInv, Reload PROVE KernelInv'
  OBVIOUS
<1> USE DEF Reload, walk
<1>1. TypeOK'
  BY DEF KernelInv, IInv, TypeOK
<1>2. ControlOK'
  BY DEF KernelInv, IInv, ControlOK, Control
<1>3. CopyingOK'
  BY DEF KernelInv, IInv, CopyingOK, Copying
<1>4. ASSUME NEW t \in Threads PROVE Walk(t)'
  <2>1. Walk(t) /\ Below(bkt[t])' = Below(bkt[t])
    BY DEF KernelInv, Below
  <2> QED
    BY <2>1 DEF Walk, Unique
<1> QED
  BY <1>1, <1>2, <1>3, <1>4 DEF KernelInv, IInv

-----------------------------------------------------------------------------
(* The daemon: types, and where its threads are *)

(* Seen from the kernel every step is one of KvLkm, or a reload. *)
LEMMA Projects == DaemonInv /\ [DaemonNext]_daemonVars => [Next]_vars \/ Reload
<1> SUFFICES ASSUME DaemonInv, [DaemonNext]_daemonVars PROVE [Next]_vars \/ Reload
  OBVIOUS
<1>1. CASE UNCHANGED daemonVars
  BY <1>1 DEF daemonVars
<1>2. CASE Environment
  BY <1>2 DEF Environment, Start, HandleSignal, Kill
<1>3. Main \in Threads /\ Clients \subseteq Threads
  BY ThreadsAssumption
<1>4. CASE MainStep
  <2>1. CASE RestoreEntry
    <3>1. PICK e \in todo : Ioctl(Main, [cmd |-> "INSERT", key |-> e.key, value |-> e.value])
      BY <2>1 DEF RestoreEntry
    <3>2. e \in [key : Keys, value : Values]
      BY DEF DaemonInv, DaemonTypeOK, Messages
    <3>3. [cmd |-> "INSERT", key |-> e.key, value |-> e.value] \in Calls(Main)
      BY <3>2, DaemonCallsAssumption DEF Calls
    <3> QED
      BY <1>3, <3>1, <3>3 DEF Next
  <2>2. CASE RestoreEntryDone
    BY <1>3, <2>2 DEF RestoreEntryDone, Next
  <2> QED
    BY <1>4, <2>1, <2>2 DEF MainStep, Load, RestoreEnd, InitNetwork, InitNetworkFails, Arm,
                            Listen, AcceptFails, KillNetwork, Exit
<1>5. ASSUME NEW c \in Clients, ClientStep(c) PROVE [Next]_vars
  <2>1. ASSUME NEW r \in Calls(c), ClientOperation(c, r) PROVE Next
    BY <1>3, <2>1 DEF ClientOperation, Next
  <2>2. CASE ClientOperationDone(c)
    BY <1>3, <2>2 DEF ClientOperationDone, Next
  <2> QED
    BY <1>5, <2>1, <2>2 DEF ClientStep, Accept, ClientSnapshot, ClientDisconnects
<1>6. ASSUME NEW t \in Threads, Snap(t) PROVE [Next]_vars
  <2>1. CASE SnapCount(t)
    <3>1. [cmd |-> "COUNT"] \in Calls(t)
      BY DEF Calls
    <3> QED
      BY <2>1, <3>1 DEF SnapCount, Next
  <2>2. CASE SnapCall(t)
    <3>1. snap[t].capacity \in Capacities
      BY DaemonCallsAssumption DEF DaemonInv, Threading
    <3>2. [cmd |-> "SNAPSHOT", capacity |-> snap[t].capacity] \in Calls(t)
      BY <3>1 DEF Calls
    <3> QED
      BY <2>2, <3>2 DEF SnapCall, Next
  <2>3. CASE SnapGiveUp(t) \/ SnapAlloc(t) \/ SnapDone(t)
    BY <2>3 DEF SnapGiveUp, SnapAlloc, SnapDone, Next
  <2> QED
    BY <1>6, <2>1, <2>2, <2>3 DEF Snap, SnapOpen, SnapOpenFails, SnapWrite, SnapClose
<1>7. ASSUME NEW t \in Threads, KernelStep(t) \/ Reap(t) PROVE [Next]_vars
  BY <1>7 DEF KernelStep, Reap, Next
<1> QED
  BY <1>1, <1>2, <1>3, <1>4, <1>5, <1>6, <1>7 DEF DaemonNext, ThreadStep

(* A step inside the kernel moves its own thread only, which stays there    *)
(* with the same call.                                                      *)
LEMMA KernelMoves ==
  ASSUME IInv, NEW t \in Threads, Step(t)
  PROVE  /\ pc[t] # "idle" /\ pc'[t] # "idle" /\ UNCHANGED call
         /\ \A u \in Threads \ {t} : pc'[u] = pc[u]
<1>1. PICK l \in Labels \ {"idle"} : Goto(t, l) \/ (UNCHANGED pc /\ l = pc[t])
  BY DEF Step, Dispatch, DispatchError, CopyOut, InsertLookup, UpdateLookup, Add, AddNoMem, Get,
         Delete, CountBucket, Counted, Mismatch, SnapshotError, SnapshotAlloc, SnapshotBucket,
         SnapshotFull, SnapshotEnd, Leave, Reply, Labels, IInv, TypeOK
<1>2. pc[t] # "idle" /\ UNCHANGED call
  BY DEF Step, Dispatch, DispatchError, CopyOut, InsertLookup, UpdateLookup, Add, AddNoMem, Get,
         Delete, CountBucket, Counted, Mismatch, SnapshotError, SnapshotAlloc, SnapshotBucket,
         SnapshotFull, SnapshotEnd, At
<1> QED
  BY <1>1, <1>2 DEF Goto, IInv, TypeOK

(* What a state of the daemon says about the threads, in the form the       *)
(* provers use it.                                                          *)
LEMMA UserFacts ==
  ASSUME DaemonInv
  PROVE  /\ Main \in Threads /\ \A t \in Threads : t \in Clients <=> t # Main
         /\ Clients \subseteq Threads
         /\ Cardinality(Keys) \in Nat
         /\ \A t \in Threads : cnt[t] \in 0 .. Cardinality(Keys)
         /\ \A t \in Threads : out[t] \in SUBSET Messages /\ IsFiniteSet(out[t]) /\ Unique(out[t])
         /\ pc \in [Threads -> Labels] /\ DOMAIN call = Threads
         /\ IsFiniteSet({}) /\ Unique({})
BY ThreadsAssumption, BelowFinite, FS_EmptySet
DEF DaemonInv, KernelInv, Walk, IInv, TypeOK, CopyingOK, Copying, Messages, Unique

(* No entries are finitely many, and no two of them are for one key. *)
LEMMA EmptyEntries ==
  ASSUME NEW S, S = {}
  PROVE  IsFiniteSet(S) /\ Unique(S)
BY FS_EmptySet DEF Unique

(* The end of the process leaves no thread anywhere, and the file as it is. *)
LEMMA TerminateStep ==
  ASSUME DaemonInv, Terminate, UNCHANGED vars
  PROVE  DaemonTypeOK' /\ Threading'
<1>1. Calloc(0) \in Buffers
  BY DEF Calloc, Buffers
<1>2. Main \in Threads /\ Clients \subseteq Threads /\ Cardinality(Keys) \in Nat
  BY UserFacts
<1>3. DaemonTypeOK'
  BY <1>1, <1>2 DEF Terminate, DaemonInv, DaemonTypeOK, MainLabels, ClientLabels
<1>4. /\ \A u \in Threads : upc'[u] = "down" /\ snap'[u].capacity = 0 /\ snap'[u].entries = {}
      /\ sfd' = "none" /\ file' = file
  BY DEF Terminate, Calloc
<1>5. \A u \in Threads : IsFiniteSet(snap'[u].entries) /\ Unique(snap'[u].entries)
  BY <1>4, EmptyEntries
<1>6. file' # NULL => IsFiniteSet(file'.entries) /\ Unique(file'.entries)
  BY <1>4 DEF DaemonInv, Threading
<1>7. \A u \in Threads : snap'[u].capacity \in 0 .. Cardinality(Keys)
  BY <1>2, <1>4
<1>8. Threading'
  <2>1. Unique(file.entries)' <=> Unique(file'.entries)
    BY DEF Unique
  <2>2. \A u \in Threads : Unique(snap[u].entries)' <=> Unique(snap'[u].entries)
    BY DEF Unique
  <2> QED
    BY <1>2, <1>4, <1>5, <1>6, <1>7, <2>1, <2>2, ThreadsAssumption
    DEF Threading, InKernel, Starting, SnapLabels
<1> QED
  BY <1>3, <1>8

(* Every step of the daemon keeps its types and the places of its threads. *)
LEMMA UserStep == DaemonInv /\ [DaemonNext]_daemonVars => DaemonTypeOK' /\ Threading'
<1> SUFFICES ASSUME DaemonInv, [DaemonNext]_daemonVars PROVE DaemonTypeOK' /\ Threading'
  OBVIOUS
<1> DEFINE Goal == DaemonTypeOK' /\ Threading'
<1> USE ThreadsAssumption, UserFacts, FilesAssumption
    DEF DaemonInv, DaemonTypeOK, Threading, InKernel, Starting, SnapLabels, MainLabels, ClientLabels,
        UGoto, Goto, fds
<1>1. CASE UNCHANGED daemonVars
  BY <1>1 DEF daemonVars, vars, userVars, Unique
<1>2. CASE Start
  BY <1>2 DEF Start, vars, Unique
<1>3. CASE HandleSignal
  BY <1>3 DEF HandleSignal, CloseServer, vars, Unique
<1>4. CASE Kill \/ InitNetworkFails \/ Exit
  BY <1>4, TerminateStep DEF Kill, InitNetworkFails, Exit
<1>5. CASE Reload
  BY <1>5 DEF Reload, userVars, Unique
<1>6. CASE Load
  BY <1>6 DEF Load, Files, vars, Unique
<1>7. CASE RestoreEntry
  BY <1>7 DEF RestoreEntry, Ioctl, Unique
<1>8. CASE RestoreEntryDone
  BY <1>8 DEF RestoreEntryDone, Return, Unique
<1>9. CASE RestoreEnd
  BY <1>9 DEF RestoreEnd, vars, Unique
<1>10. CASE InitNetwork
  BY <1>10 DEF InitNetwork, vars, Unique
<1>11. CASE Arm \/ Listen \/ AcceptFails
  <2>1. CASE Arm
    BY <2>1 DEF Arm, vars, Unique
  <2>2. CASE Listen
    BY <2>2 DEF Listen, vars, Unique
  <2>3. CASE AcceptFails
    BY <2>3 DEF AcceptFails, vars, Unique
  <2> QED
    BY <1>11, <2>1, <2>2, <2>3
<1>12. CASE KillNetwork
  BY <1>12 DEF KillNetwork, CloseServer, vars, Unique
<1>13. ASSUME NEW c \in Clients, Accept(c) \/ ClientSnapshot(c) \/ ClientDisconnects(c) PROVE Goal
  BY <1>13 DEF Accept, ClientSnapshot, ClientDisconnects, vars, Unique
<1>14. ASSUME NEW c \in Clients, NEW r \in Calls(c), ClientOperation(c, r) PROVE Goal
  BY <1>14 DEF ClientOperation, Ioctl, Unique
<1>15. ASSUME NEW c \in Clients, ClientOperationDone(c) PROVE Goal
  BY <1>15 DEF ClientOperationDone, Return, Unique
<1>16. ASSUME NEW t \in Threads, SnapCount(t) PROVE Goal
  BY <1>16 DEF SnapCount, Ioctl, Unique
<1>17. ASSUME NEW t \in Threads, SnapGiveUp(t) PROVE Goal
  BY <1>17 DEF SnapGiveUp, SnapReturn, Return, Unique
<1>18. ASSUME NEW t \in Threads, SnapAlloc(t) PROVE Goal
  BY <1>18 DEF SnapAlloc, Return, Calloc, Buffers, Unique
<1>19. ASSUME NEW t \in Threads, SnapCall(t) PROVE Goal
  BY <1>19 DEF SnapCall, Ioctl, Unique
<1>20. ASSUME NEW t \in Threads, SnapDone(t) PROVE Goal
  <2>1. \/ snap' = snap
        \/ snap' = [snap EXCEPT ![t].count = cnt[t], ![t].entries = out[t]]
    BY <1>20 DEF SnapDone
  <2>2. snap' \in [Threads -> Buffers]
    BY <2>1 DEF Buffers
  <2>3. \A u \in Threads : /\ snap'[u].capacity = snap[u].capacity
                           /\ IsFiniteSet(snap'[u].entries) /\ Unique(snap'[u].entries)
    BY <2>1 DEF Buffers
  <2>4. DaemonTypeOK'
    BY <1>20, <2>2 DEF SnapDone, SnapReturn
  <2> QED
    BY <1>20, <2>3, <2>4 DEF SnapDone, SnapReturn, Return, Unique
<1>21. ASSUME NEW t \in Threads, SnapOpen(t) PROVE Goal
  BY <1>21 DEF SnapOpen, Truncated, Files, vars, Unique
<1>22. ASSUME NEW t \in Threads, SnapOpenFails(t) PROVE Goal
  BY <1>22 DEF SnapOpenFails, SnapReturn, vars, Unique
<1>23. ASSUME NEW t \in Threads, SnapWrite(t) PROVE Goal
  <2>1. \/ file' = file
        \/ \E S \in SUBSET snap[t].entries : file' = [count |-> snap[t].count, entries |-> S]
    BY <1>23 DEF SnapWrite
  <2>2. ASSUME NEW S \in SUBSET snap[t].entries PROVE IsFiniteSet(S) /\ Unique(S)
    BY FS_Subset DEF Unique
  <2>3. /\ file' \in Files \cup {NULL}
        /\ file' # NULL => IsFiniteSet(file'.entries) /\ Unique(file'.entries)
    BY <2>1, <2>2 DEF Files, Buffers
  <2>4. offset' \in [Threads -> BOOLEAN]
    BY <1>23 DEF SnapWrite, Target
  <2>5. DaemonTypeOK'
    BY <1>23, <2>3, <2>4 DEF SnapWrite
  <2> QED
    BY <1>23, <2>3, <2>5 DEF SnapWrite, vars, Unique
<1>24. ASSUME NEW t \in Threads, SnapClose(t) PROVE Goal
  BY <1>24 DEF SnapClose, SnapReturn, Calloc, Buffers, vars, Unique
<1>25. ASSUME NEW t \in Threads, KernelStep(t) PROVE Goal
  <2>1. /\ pc[t] # "idle" /\ pc'[t] # "idle" /\ UNCHANGED call
        /\ \A u \in Threads \ {t} : pc'[u] = pc[u]
    BY <1>25, KernelMoves DEF KernelStep, KernelInv
  <2> QED
    BY <1>25, <2>1 DEF KernelStep, userVars, Unique
<1>26. ASSUME NEW t \in Threads, Reap(t) PROVE Goal
  BY <1>26 DEF Reap, Return, userVars, Unique
<1> QED
  BY <1>1, <1>2, <1>3, <1>4, <1>5, <1>6, <1>7, <1>8, <1>9, <1>10, <1>11, <1>12, <1>13, <1>14,
     <1>15, <1>16, <1>17, <1>18, <1>19, <1>20, <1>21, <1>22, <1>23, <1>24, <1>25, <1>26
  DEF DaemonNext, Environment, ThreadStep, MainStep, ClientStep, Snap

(* Every step of the daemon keeps the daemon invariant. *)
LEMMA DaemonStep == DaemonInv /\ [DaemonNext]_daemonVars => DaemonInv'
  BY Projects, KernelStepInv, ReloadInv, UserStep DEF DaemonInv

(* The machine before the first start satisfies it. *)
LEMMA DaemonInitInv == DaemonInit => DaemonInv
<1> SUFFICES ASSUME DaemonInit PROVE DaemonInv
  OBVIOUS
<1> USE ThreadsAssumption, FS_EmptySet
<1>1. IInv
  BY InitInv DEF DaemonInit
<1>2. Cardinality(Keys) \in Nat /\ \A b : Cardinality(Below(b)) \in Nat
  BY BelowFinite
<1>3. \A t \in Threads : Walk(t)
  BY <1>2 DEF DaemonInit, Init, Walk, Unique
<1>4. DaemonTypeOK
  BY DEF DaemonInit, DaemonTypeOK, Calloc, Buffers, MainLabels, ClientLabels
<1>5. Threading
  BY <1>2 DEF DaemonInit, Init, Threading, InKernel, Starting, SnapLabels, Calloc, Unique
<1> QED
  BY <1>1, <1>3, <1>4, <1>5 DEF DaemonInv, KernelInv

(* The history variables of KvPersist change nothing in the daemon. *)
LEMMA PersistIsDaemon == PersistSpec => DaemonSpec
<1>1. PersistInit => DaemonInit
  BY DEF PersistInit
<1>2. [PersistNext]_persistVars => [DaemonNext]_daemonVars
  BY DEF PersistNext, DaemonNext, persistVars
<1> QED
  BY <1>1, <1>2, PTL DEF PersistSpec, DaemonSpec

(* The daemon invariant holds in every reachable state of the daemon. *)
THEOREM DaemonInvariance == DaemonSpec => []DaemonInv
  BY DaemonInitInv, DaemonStep, PTL DEF DaemonSpec

(* Every state of the daemon is well typed, with the history variables too: *)
(* no thread is ever where it does not belong, no matter when the process   *)
(* is killed and the module reloaded.                                       *)
THEOREM DaemonTypeCorrect == PersistSpec => []DaemonTypeOK
<1>1. DaemonInv => DaemonTypeOK
  BY DEF DaemonInv
<1> QED
  BY <1>1, PersistIsDaemon, DaemonInvariance, PTL

-----------------------------------------------------------------------------
(* The restore *)

(* While main has not opened the network, nobody else moves. *)
LEMMA Alone ==
  ASSUME DaemonInv, NEW t \in Threads, ThreadStep(t), upc[Main] \in Starting
  PROVE  /\ t = Main
         /\ upc[Main] = "load" => Load
         /\ upc[Main] = "restore" => RestoreEntry \/ RestoreEnd
         /\ upc[Main] = "restoring" => RestoreEntryDone \/ KernelStep(Main)
         /\ upc[Main] = "network" => InitNetwork \/ InitNetworkFails
<1>1. Main \in Threads /\ Main \notin Clients /\ \A u \in Threads : u # Main => u \in Clients
  BY ThreadsAssumption
<1>2. \A u \in Clients : upc[u] = "none" /\ u \in Threads /\ pc[u] = "idle"
  BY ThreadsAssumption DEF DaemonInv, Threading, InKernel
<1>3. upc[Main] # "restoring" => pc[Main] = "idle"
  BY <1>1 DEF DaemonInv, Threading, InKernel, Starting
<1>4. upc[t] = "restoring" \/ ~ KernelStep(t)
  BY <1>1, <1>2, <1>3, KernelMoves DEF KernelStep, DaemonInv, KernelInv
<1>5. ~ Snap(t) /\ ~ Reap(t)
  BY <1>1, <1>2 DEF Starting, Snap, SnapCount, SnapGiveUp, SnapAlloc, SnapCall, SnapDone, SnapOpen,
                    SnapOpenFails, SnapWrite, SnapClose, Reap
<1>6. ASSUME t \in Clients PROVE ~ ClientStep(t)
  BY <1>2, <1>6 DEF Starting, ClientStep, Accept, ClientOperation, ClientOperationDone,
                    ClientSnapshot, ClientDisconnects
<1>7. t = Main
  BY <1>1, <1>2, <1>4, <1>5, <1>6 DEF ThreadStep
<1>8. MainStep \/ KernelStep(Main)
  BY <1>1, <1>5, <1>7 DEF ThreadStep
<1> QED
  BY <1>4, <1>7, <1>8 DEF Starting, MainStep, Load, RestoreEntry, RestoreEntryDone, RestoreEnd,
                     InitNetwork, InitNetworkFails, Arm, Listen, AcceptFails, KillNetwork, Exit

(* Only a start of the process leads to the restore. *)
LEMMA NotStarting ==
  ASSUME DaemonInv, NEW t \in Threads, ThreadStep(t), upc[Main] \notin Starting
  PROVE  upc'[Main] \notin Starting
<1> USE ThreadsAssumption DEF Starting, UGoto, DaemonInv, DaemonTypeOK
<1>1. CASE t = Main /\ MainStep
  BY <1>1 DEF MainStep, Load, RestoreEntry, RestoreEntryDone, RestoreEnd, InitNetwork,
              InitNetworkFails, Arm, Listen, AcceptFails, KillNetwork, Exit, Terminate
<1>2. CASE t \in Clients /\ ClientStep(t)
  BY <1>2 DEF ClientStep, Accept, ClientOperation, ClientOperationDone, ClientSnapshot,
              ClientDisconnects
<1>3. CASE Snap(t)
  <2>1. \E l \in SnapLabels \cup {"killnet", "ready"} : upc' = [upc EXCEPT ![t] = l]
    BY <1>3 DEF Snap, SnapCount, SnapGiveUp, SnapAlloc, SnapCall, SnapDone, SnapOpen,
                SnapOpenFails, SnapWrite, SnapClose, SnapReturn, SnapLabels
  <2> QED
    BY <2>1 DEF SnapLabels
<1>4. CASE KernelStep(t) \/ Reap(t)
  BY <1>4 DEF KernelStep, Reap, userVars
<1> QED
  BY <1>1, <1>2, <1>3, <1>4 DEF ThreadStep

LiveInv == DaemonInv /\ InsertsNew

(* The lookup of a KV_INSERT of the restore is still right at the add: main *)
(* is alone.                                                                *)
LEMMA LiveStep ==
  ASSUME AllFit, LiveInv, [DaemonNext]_daemonVars
  PROVE  LiveInv'
<1> USE DEF LiveInv
<1>1. DaemonInv' /\ Main \in Threads
  BY DaemonStep, ThreadsAssumption
<1> SUFFICES ASSUME upc'[Main] = "restoring", pc'[Main] = "add"
             PROVE  map'[call'[Main].key] = NULL
  BY <1>1 DEF InsertsNew
<1>2. CASE UNCHANGED daemonVars
  BY <1>2 DEF InsertsNew, daemonVars, vars, userVars
<1>3. CASE Environment
  BY <1>1, <1>3 DEF Environment, Start, HandleSignal, Kill, Terminate, Reload, InsertsNew, vars,
                    userVars
<1>4. ASSUME NEW t \in Threads, ThreadStep(t) PROVE map'[call'[Main].key] = NULL
  <2>1. upc[Main] \in Starting
    BY <1>4, NotStarting DEF Starting
  <2>2. KernelStep(Main) /\ upc[Main] = "restoring"
    BY <1>1, <1>4, <2>1, Alone DEF Starting, Load, RestoreEntry, RestoreEntryDone, RestoreEnd,
       InitNetwork, InitNetworkFails, Terminate, UGoto, Ioctl, Return, Goto, DaemonInv, DaemonTypeOK,
       KernelInv, IInv, TypeOK
  <2>3. Step(Main) /\ call[Main].cmd = "INSERT" /\ IInv
    BY <1>1, <2>2 DEF KernelStep, DaemonInv, Threading, KernelInv
  <2>4. Next
    BY <1>1, <2>3 DEF Next
  <2>5. /\ call'[Main] = call[Main]
        /\ pc[Main] = "add" \/ InsertLookup(Main) \/ UpdateLookup(Main)
    BY <1>1, <2>3, <2>4, ReachAdd
  <2>6. CASE pc[Main] = "add"
    BY <1>1, <2>3, <2>6 DEF Step, Dispatch, DispatchError, CopyOut, InsertLookup, UpdateLookup,
       Add, AddNoMem, Get, Delete, CountBucket, Counted, Mismatch, SnapshotError, SnapshotAlloc,
       SnapshotBucket, SnapshotFull, SnapshotEnd, Reply, Goto, At, IInv, TypeOK
  <2>7. CASE InsertLookup(Main)
    <3>1. call[Main].key \in Keys
      BY <1>1, <2>3, <2>7, CallShape DEF InsertLookup, At, IInv, ControlOK, Control
    <3>2. Exists(Main) <=> map[call[Main].key] # NULL
      BY <1>1, <2>3, <3>1, ExistsIsPresent DEF IInv
    <3> QED
      BY <1>1, <2>3, <2>5, <2>7, <3>2 DEF InsertLookup, Reply, Goto, IInv, TypeOK
  <2>8. CASE UpdateLookup(Main)
    BY <2>3, <2>8 DEF UpdateLookup, At
  <2> QED
    BY <2>5, <2>6, <2>7, <2>8
<1> QED
  BY <1>2, <1>3, <1>4 DEF DaemonNext

(* A restart of the daemon, with the store alive in the kernel, rolls       *)
(* nothing back, for every store and every file: the restore leaves every   *)
(* key that is there as it is (daemon.cpp:344-383, kvlkm.c:324-349).        *)
THEOREM RestoreRollsNothingBack ==
  ASSUME AllFit
  PROVE  PersistSpec => RestoreKeepsLive
<1>1. DaemonInit => LiveInv
  BY DaemonInitInv, ThreadsAssumption DEF LiveInv, InsertsNew, DaemonInit, Init
<1>2. LiveInv /\ [DaemonNext]_daemonVars => LiveInv'
  BY LiveStep
<1> DEFINE Keeps == upc[Main] \in {"restore", "restoring"} =>
                      \A k \in Keys : map[k] # NULL => map'[k] = map[k]
<1>3. LiveInv /\ [DaemonNext]_daemonVars => Keeps
  <2> SUFFICES ASSUME LiveInv, [DaemonNext]_daemonVars, upc[Main] \in {"restore", "restoring"},
                      NEW k \in Keys, map[k] # NULL
               PROVE  map'[k] = map[k]
    OBVIOUS
  <2> USE DEF LiveInv
  <2>1. CASE UNCHANGED daemonVars
    BY <2>1 DEF daemonVars, vars
  <2>2. CASE Environment
    BY <2>2 DEF Environment, Start, HandleSignal, Kill, Reload, vars
  <2>3. ASSUME NEW t \in Threads, ThreadStep(t) PROVE map'[k] = map[k]
    <3>1. CASE RestoreEntry \/ RestoreEnd \/ RestoreEntryDone
      BY <3>1 DEF RestoreEntry, RestoreEnd, RestoreEntryDone, Ioctl, Return, vars
    <3>2. CASE KernelStep(Main) /\ upc[Main] = "restoring"
      <4>1. Step(Main) /\ call[Main].cmd = "INSERT" /\ IInv /\ Main \in Threads
        BY <3>2, ThreadsAssumption DEF KernelStep, DaemonInv, Threading, KernelInv
      <4>2. pc[Main] = "remove" => call[Main].cmd = "DELETE"
        BY <4>1 DEF IInv, ControlOK, Control
      <4>3. CASE Add(Main)
        BY <3>2, <4>1, <4>3 DEF Add, InsertsNew, IInv, TypeOK
      <4>4. CASE ~ Add(Main)
        BY <4>1, <4>2, <4>4 DEF Step, Dispatch, DispatchError, CopyOut, InsertLookup, UpdateLookup,
           AddNoMem, Get, Delete, CountBucket, Counted, Mismatch, SnapshotError, SnapshotAlloc,
           SnapshotBucket, SnapshotFull, SnapshotEnd
      <4> QED
        BY <4>3, <4>4
    <3> QED
      BY <2>3, <3>1, <3>2, Alone DEF Starting
  <2> QED
    BY <2>1, <2>2, <2>3 DEF DaemonNext
<1>4. DaemonSpec => [][Keeps]_daemonVars
  BY <1>1, <1>2, <1>3, PTL DEF DaemonSpec
<1>5. [Keeps]_daemonVars => [Keeps]_persistVars
  BY DEF persistVars, daemonVars, vars
<1> QED
  BY <1>4, <1>5, PersistIsDaemon, PTL DEF RestoreKeepsLive

(* A store that holds the entries of a snapshot is the map they stand for. *)
LEMMA HoldsIsMap ==
  ASSUME TypeOK, NEW S, Unique(S), Holds(S)
  PROVE  map = AsMap(S)
<1>1. ASSUME NEW k \in Keys PROVE map[k] = AsMap(S)[k]
  <2>1. CASE \E e \in S : e.key = k
    <3>1. PICK e \in S : e.key = k /\ map[k] = e.value
      BY <2>1 DEF Holds
    <3>2. (CHOOSE d \in S : d.key = k) = e
      <4>1. /\ (CHOOSE d \in S : d.key = k) \in S
            /\ (CHOOSE d \in S : d.key = k).key = k
        BY <3>1, Zenon
      <4> QED
        BY <3>1, <4>1, Zenon DEF Unique
    <3> QED
      BY <2>1, <3>1, <3>2, Zenon DEF AsMap
  <2>2. CASE ~ \E e \in S : e.key = k
    BY <2>2 DEF Holds, AsMap
  <2> QED
    BY <2>1, <2>2
<1> QED
  BY <1>1 DEF TypeOK, AsMap

RestoreInv == DaemonInv /\ clean \in BOOLEAN /\ Restoring

(* The kernel steps of the KV_INSERT of an entry: it goes in, or something  *)
(* is reported.                                                             *)
LEMMA InsertEntry ==
  ASSUME RestoreInv, clean, upc[Main] = "restoring", KernelStep(Main)
  PROVE  /\ InFlight' = InFlight
         /\ (pc[Main] \in {"dispatch", "lookup", "add"} => Holds((file.entries \ todo) \ {InFlight}))'
         /\ (Applied => Holds(file.entries \ todo))'
<1> DEFINE S == file.entries \ todo
<1>1. /\ Step(Main) /\ call[Main].cmd = "INSERT" /\ IInv /\ Main \in Threads
      /\ UNCHANGED <<file, todo>>
  BY ThreadsAssumption DEF RestoreInv, KernelStep, userVars, DaemonInv, Threading, KernelInv
<1>2. /\ pc[Main] \in Labels /\ call[Main] \in Calls(Main) /\ UNCHANGED call /\ Control(Main)
      /\ call[Main].key \in Keys
  BY <1>1, KernelMoves, CallShape DEF IInv, TypeOK, ControlOK, Control
<1>3. InFlight' = InFlight
  BY <1>2 DEF InFlight
<1>4. /\ InFlight \in S
      /\ pc[Main] \in {"dispatch", "lookup", "add"} => Holds(S \ {InFlight})
      /\ Applied => Holds(S)
  BY DEF RestoreInv, Restoring
<1>5. S' = S
  BY <1>1
<1> HIDE DEF S
<1>6. UNCHANGED map => /\ Holds(S)' <=> Holds(S)
                       /\ Holds(S \ {InFlight})' <=> Holds(S \ {InFlight})
  BY <1>3, <1>5 DEF Holds
<1> DEFINE Goal == /\ pc'[Main] \in {"dispatch", "lookup", "add"} => Holds(S \ {InFlight})'
                   /\ Applied' => Holds(S)'
<1> SUFFICES Goal
  BY <1>3 DEF S
<1> USE <1>1, <1>2 DEF Goto, Leave, Reply, IInv, TypeOK, ENOMEM, EFAULT, EINVAL
<1>7. CASE Dispatch(Main)
  <2>1. UNCHANGED map /\ pc[Main] = "dispatch" /\ pc'[Main] \notin {"copyout", "done"}
    BY <1>7 DEF Dispatch
  <2> QED
    BY <1>4, <1>6, <2>1 DEF Applied
<1>8. CASE InsertLookup(Main)
  <2>1. /\ UNCHANGED map /\ pc[Main] = "lookup"
        /\ pc'[Main] = "add" \/ (pc'[Main] = "copyout" /\ reply'[Main].status = 1)
    BY <1>8 DEF InsertLookup, At
  <2> QED
    BY <1>4, <1>6, <2>1 DEF Applied
<1>9. CASE DispatchError(Main)
  <2>1. pc'[Main] = "done" /\ ret'[Main] # 0
    BY <1>9 DEF DispatchError
  <2> QED
    BY <2>1 DEF Applied
<1>10. CASE AddNoMem(Main)
  <2>1. pc'[Main] = "copyout" /\ reply'[Main].status = -12
    BY <1>10 DEF AddNoMem
  <2> QED
    BY <2>1 DEF Applied
<1>11. CASE CopyOut(Main)
  <2>1. /\ UNCHANGED <<map, reply>> /\ pc[Main] = "copyout" /\ pc'[Main] = "done"
    BY <1>11 DEF CopyOut
  <2> QED
    BY <1>4, <1>6, <2>1 DEF Applied
<1>12. CASE Add(Main)
  <2>1. pc[Main] = "add" /\ pc'[Main] = "copyout"
    BY <1>12 DEF Add
  <2>2. Holds(S \ {InFlight})
    BY <1>4, <2>1
  <2>3. map' = [map EXCEPT ![InFlight.key] = InFlight.value] /\ InFlight.key \in Keys
    BY <1>12 DEF Add, InFlight
  <2>4. Holds(S)'
    <3> SUFFICES ASSUME NEW k \in Keys
                 PROVE  \/ \E e \in S : e.key = k /\ map'[k] = e.value
                        \/ map'[k] = NULL /\ \A e \in S : e.key # k
      BY <1>5 DEF Holds
    <3>1. CASE k = InFlight.key
      BY <1>4, <2>3, <3>1
    <3>2. CASE k # InFlight.key
      BY <2>2, <2>3, <3>2 DEF Holds
    <3> QED
      BY <3>1, <3>2
  <2> QED
    BY <2>1, <2>4
<1> QED
  BY <1>7, <1>8, <1>9, <1>10, <1>11, <1>12
  DEF Step, UpdateLookup, Get, Delete, CountBucket, Counted, Mismatch, SnapshotError,
      SnapshotAlloc, SnapshotBucket, SnapshotFull, SnapshotEnd, At, Control

(* What the steps of KvPersist say about clean. *)
LEMMA CleanSteps ==
  ASSUME [PersistNext]_persistVars, clean \in BOOLEAN
  PROVE  /\ clean' \in BOOLEAN
         /\ clean' => \/ Start /\ Empty(map) /\ ~ Torn
                      \/ clean /\ (HandleSignal \/ UNCHANGED daemonVars)
                      \/ clean /\ ~ NotInserted /\ upc'[Main] # "down" /\ \E t \in Threads : ThreadStep(t)
<1>1. CASE UNCHANGED persistVars
  BY <1>1 DEF persistVars
<1>2. CASE Environment /\ clean' = IF Start THEN Empty(map) /\ ~ Torn ELSE clean /\ upc'[Main] # "down"
  <2>1. clean' \in BOOLEAN
    BY <1>2, Zenon DEF Empty, Torn
  <2>2. Kill \/ Reload => upc'[Main] = "down"
    BY ThreadsAssumption DEF Kill, Terminate, Reload, userVars
  <2> QED
    BY <1>2, <2>1, <2>2 DEF Environment
<1>3. ASSUME NEW t \in Threads, ThreadStep(t), clean' = (clean /\ upc'[Main] # "down" /\ ~ NotInserted)
      PROVE  clean' \in BOOLEAN /\ (clean' => clean /\ ~ NotInserted /\ upc'[Main] # "down")
  BY <1>3
<1> QED
  BY <1>1, <1>2, <1>3 DEF PersistNext

(* Every step keeps what is said of a restore into an empty store. *)
LEMMA RestoreStep == RestoreInv /\ [PersistNext]_persistVars => RestoreInv'
<1> SUFFICES ASSUME RestoreInv, [PersistNext]_persistVars PROVE RestoreInv'
  OBVIOUS
<1>1. [DaemonNext]_daemonVars
  BY DEF PersistNext, DaemonNext, persistVars
<1>2. DaemonInv /\ DaemonInv' /\ clean \in BOOLEAN /\ clean' \in BOOLEAN /\ Main \in Threads
  BY <1>1, DaemonStep, CleanSteps, ThreadsAssumption DEF RestoreInv
<1> SUFFICES ASSUME clean' PROVE Restoring'
  BY <1>2 DEF RestoreInv, Restoring
<1> USE <1>2
<1>3. CASE Start /\ Empty(map) /\ ~ Torn
  BY <1>3 DEF Start, Restoring, Empty, Torn, vars
<1>4. CASE clean /\ (HandleSignal \/ UNCHANGED daemonVars)
  <2>1. UNCHANGED <<upc, vars, file, todo>>
    BY <1>4 DEF HandleSignal, daemonVars, userVars
  <2> QED
    BY <1>4, <2>1 DEF RestoreInv, Restoring, Empty, Torn, Holds, InFlight, Applied, FileMap, AsMap, vars
<1>5. ASSUME clean, ~ NotInserted, upc'[Main] # "down", NEW t \in Threads, ThreadStep(t)
      PROVE  Restoring'
  <2>1. CASE upc[Main] \notin Starting
    BY <1>5, <2>1, NotStarting DEF Restoring, Starting
  <2>2. CASE Load /\ file = NULL
    <3>1. Empty(map) /\ UNCHANGED <<map, file>> /\ upc'[Main] = "network"
      BY <1>5, <2>2 DEF Load, RestoreInv, Restoring, UGoto, DaemonInv, DaemonTypeOK, vars
    <3>2. Holds({}) /\ Unique({}) /\ TypeOK
      BY <3>1 DEF Holds, Unique, Empty, DaemonInv, KernelInv, IInv
    <3>3. map = FileMap
      BY <2>2, <3>2, HoldsIsMap DEF FileMap
    <3>4. map' = FileMap'
      BY <3>1, <3>3 DEF FileMap, AsMap
    <3> QED
      BY <3>1, <3>4 DEF Restoring
  <2>3. CASE Load /\ file # NULL
    <3>1. Empty(map) /\ ~ Torn /\ UNCHANGED <<map, file>> /\ upc'[Main] = "restore"
      BY <1>5, <2>3 DEF Load, RestoreInv, Restoring, UGoto, DaemonInv, DaemonTypeOK, vars
    <3>2. PICK junk \in SUBSET Messages :
            /\ IsFiniteSet(junk) /\ Cardinality(junk) <= file.count - Cardinality(file.entries)
            /\ todo' = file.entries \cup junk
      BY <2>3 DEF Load
    <3>3. Cardinality(file.entries) \in Nat /\ file.count = Cardinality(file.entries)
      BY <2>3, <3>1, FS_CardinalityType DEF Torn, DaemonInv, Threading
    <3>4. junk = {}
      BY <3>2, <3>3, FS_CardinalityType, FS_EmptySet
    <3>5. todo' = file.entries
      BY <3>2, <3>4
    <3>6. Holds(file.entries \ todo)'
      BY <3>1, <3>5 DEF Holds, Empty
    <3> QED
      BY <2>3, <3>1, <3>5, <3>6 DEF Restoring
  <2>4. CASE RestoreEntry
    <3>1. PICK e \in todo :
            /\ Ioctl(Main, [cmd |-> "INSERT", key |-> e.key, value |-> e.value])
            /\ todo' = todo \ {e}
      BY <2>4 DEF RestoreEntry
    <3>2. e \in [key : Keys, value : Values]
      BY DEF DaemonInv, DaemonTypeOK, Messages
    <3>3. /\ file # NULL /\ todo \subseteq file.entries /\ Holds(file.entries \ todo)
          /\ UNCHANGED <<map, file>> /\ upc'[Main] = "restoring" /\ pc'[Main] = "dispatch"
          /\ call'[Main] = [cmd |-> "INSERT", key |-> e.key, value |-> e.value]
      BY <1>5, <2>4, <3>1 DEF RestoreEntry, RestoreInv, Restoring, UGoto, Ioctl, Goto, DaemonInv,
         DaemonTypeOK, KernelInv, IInv, TypeOK
    <3>4. InFlight' = e
      BY <3>2, <3>3 DEF InFlight
    <3>5. ((file.entries \ todo) \ {InFlight})' = file.entries \ todo
      BY <3>1, <3>3, <3>4
    <3>6. Holds((file.entries \ todo) \ {InFlight})'
      BY <3>3, <3>5 DEF Holds
    <3>7. ~ Applied'
      BY <3>3 DEF Applied
    <3> QED
      BY <3>1, <3>3, <3>4, <3>6, <3>7 DEF Restoring
  <2>5. CASE RestoreEntryDone
    <3>1. /\ upc[Main] = "restoring" /\ pc[Main] = "done" /\ upc'[Main] = "restore"
          /\ UNCHANGED <<map, file, todo>>
      BY <2>5 DEF RestoreEntryDone, Return, UGoto, DaemonInv, DaemonTypeOK
    <3>2. Applied
      BY <1>5, <3>1 DEF NotInserted, Applied
    <3> QED
      BY <1>5, <3>1, <3>2 DEF RestoreInv, Restoring, Holds
  <2>6. CASE RestoreEnd
    <3>1. /\ file # NULL /\ Holds(file.entries) /\ upc'[Main] = "network" /\ UNCHANGED <<map, file>>
      BY <1>5, <2>6 DEF RestoreEnd, RestoreInv, Restoring, UGoto, DaemonInv, DaemonTypeOK, vars
    <3>2. map = FileMap
      BY <3>1, HoldsIsMap DEF FileMap, DaemonInv, Threading, KernelInv, IInv
    <3>3. map' = FileMap'
      BY <3>1, <3>2 DEF FileMap, AsMap
    <3> QED
      BY <3>1, <3>3 DEF Restoring
  <2>7. CASE upc[Main] = "restoring" /\ KernelStep(Main)
    BY <1>5, <2>7, InsertEntry DEF RestoreInv, Restoring, KernelStep, userVars
  <2>8. CASE InitNetwork \/ InitNetworkFails
    BY <1>5, <2>8
    DEF InitNetwork, InitNetworkFails, Terminate, UGoto, Restoring, DaemonInv, DaemonTypeOK
  <2> QED
    BY <1>5, <2>1, <2>2, <2>3, <2>4, <2>5, <2>6, <2>7, <2>8, Alone DEF Starting
<1> QED
  BY <1>3, <1>4, <1>5, CleanSteps

(* A restart after the store was lost brings back exactly what the snapshot *)
(* file holds, for every file of every length (daemon.cpp:344-383).         *)
THEOREM RestoreIsExact == PersistSpec => []RestoreExact
<1>1. PersistInit => RestoreInv
  BY DaemonInitInv DEF PersistInit, RestoreInv, Restoring
<1>2. RestoreInv => RestoreExact
  BY DEF RestoreInv, Restoring, RestoreExact
<1> QED
  BY <1>1, <1>2, RestoreStep, PTL DEF PersistSpec

-----------------------------------------------------------------------------
(* The snapshot *)

(* As many entries are copied as there are keys. *)
LEMMA CopiedStored ==
  ASSUME NEW S \in SUBSET Stored
  PROVE  /\ IsFiniteSet(S) /\ Cardinality(S) \in Nat
         /\ IsFiniteSet(Copied(S)) /\ Cardinality(Copied(S)) = Cardinality(S)
<1>1. S \in SUBSET Keys
  BY DEF Stored
<1>2. IsFiniteSet(S) /\ Cardinality(S) \in Nat
  BY <1>1, KeysFiniteAssumption, FS_Subset, FS_CardinalityType
<1> DEFINE f == [k \in S |-> [key |-> k, value |-> Strscpy[map[k]]]]
<1>3. f \in Bijection(S, Copied(S))
  BY DEF Bijection, Injection, Surjection, IsInjective, Copied
<1>4. ExistsBijection(S, Copied(S))
  BY <1>3 DEF ExistsBijection
<1> QED
  BY <1>2, <1>4, FS_Bijection

(* What is behind a walk: nothing at first, one more chain after each step, *)
(* and everything at the end.                                               *)
LEMMA PresentGrows ==
  /\ Present(0) = {} /\ Cardinality(Present(0)) = 0 /\ Copied(Present(0)) = {}
  /\ Present(NumBuckets) = Stored
  /\ \A b \in 0 .. NumBuckets :
       /\ Present(b) \in SUBSET Stored /\ Cardinality(Present(b)) <= Cardinality(Stored)
       /\ Cardinality(Present(b)) \in Nat /\ Cardinality(Chain(b)) \in Nat
       /\ Present(b + 1) \in SUBSET Stored
       /\ Cardinality(Present(b + 1)) = Cardinality(Present(b)) + Cardinality(Chain(b))
       /\ Cardinality(Present(b + 1)) <= Cardinality(Stored)
       /\ Copied(Present(b + 1)) = Copied(Present(b)) \cup Copied(Chain(b))
<1>1. \A k \in Keys : kv_bucket(k) \in Nat /\ kv_bucket(k) < NumBuckets
  BY HashMinAssumption, NumBucketsAssumption DEF kv_bucket, Buckets
<1>2. Present(0) = {}
  BY <1>1 DEF Present
<1>3. Cardinality(Present(0)) = 0 /\ Copied(Present(0)) = {}
  <2>1. Copied({}) = {}
    BY DEF Copied
  <2> QED
    BY <1>2, <2>1, FS_EmptySet, Zenon
<1>4. Present(NumBuckets) = Stored
  BY <1>1 DEF Present, Stored
<1>5. ASSUME NEW b \in 0 .. NumBuckets
      PROVE  /\ Present(b) \in SUBSET Stored /\ Cardinality(Present(b)) <= Cardinality(Stored)
             /\ Cardinality(Present(b)) \in Nat /\ Cardinality(Chain(b)) \in Nat
             /\ Present(b + 1) \in SUBSET Stored
             /\ Cardinality(Present(b + 1)) = Cardinality(Present(b)) + Cardinality(Chain(b))
             /\ Cardinality(Present(b + 1)) <= Cardinality(Stored)
             /\ Copied(Present(b + 1)) = Copied(Present(b)) \cup Copied(Chain(b))
  <2>1. /\ Present(b) \in SUBSET Stored /\ Present(b + 1) \in SUBSET Stored
        /\ Chain(b) \in SUBSET Stored /\ Stored \in SUBSET Stored
    BY DEF Present, Stored, Chain
  <2>2. Present(b + 1) = Present(b) \cup Chain(b) /\ Present(b) \cap Chain(b) = {}
    BY <1>1, NumBucketsAssumption DEF Present, Chain
  <2>3. /\ IsFiniteSet(Present(b)) /\ IsFiniteSet(Present(b + 1)) /\ IsFiniteSet(Chain(b))
        /\ IsFiniteSet(Stored)
        /\ Cardinality(Present(b)) \in Nat /\ Cardinality(Chain(b)) \in Nat
    BY <2>1, CopiedStored
  <2>4. /\ Cardinality(Present(b)) <= Cardinality(Stored)
        /\ Cardinality(Present(b + 1)) <= Cardinality(Stored)
    BY <2>1, <2>3, FS_Subset
  <2>5. Cardinality(Present(b + 1)) = Cardinality(Present(b)) + Cardinality(Chain(b))
    <3>1. Cardinality(Present(b) \cup Chain(b))
            = Cardinality(Present(b)) + Cardinality(Chain(b)) - Cardinality(Present(b) \cap Chain(b))
      BY <2>3, FS_Union
    <3>2. Cardinality(Present(b) \cap Chain(b)) = 0
      BY <2>2, FS_EmptySet
    <3>3. Cardinality(Present(b) \cup Chain(b)) = Cardinality(Present(b)) + Cardinality(Chain(b))
      BY <2>3, <3>1, <3>2
    <3> QED
      BY <2>2, <3>3, Zenon
  <2>6. Copied(Present(b + 1)) = Copied(Present(b)) \cup Copied(Chain(b))
    <3>1. Copied(Present(b) \cup Chain(b)) = Copied(Present(b)) \cup Copied(Chain(b))
      BY DEF Copied
    <3> QED
      BY <2>2, <3>1, Zenon
  <2> QED
    BY <2>1, <2>3, <2>4, <2>5, <2>6
<1> QED
  BY <1>2, <1>3, <1>4, <1>5

(* A file with all the entries of a store of strings that fit is the store. *)
LEMMA FileIsStore ==
  ASSUME AllFit, TypeOK
  PROVE  AsMap(Copied(Stored)) = map
<1>1. Unique(Copied(Stored))
  BY DEF Unique, Copied
<1>2. Holds(Copied(Stored))
  <2> SUFFICES ASSUME NEW k \in Keys
               PROVE  \/ \E e \in Copied(Stored) : e.key = k /\ map[k] = e.value
                      \/ map[k] = NULL /\ \A e \in Copied(Stored) : e.key # k
    BY DEF Holds
  <2>1. CASE map[k] = NULL
    BY <2>1 DEF Copied, Stored
  <2>2. CASE map[k] # NULL
    <3>1. k \in Stored /\ Strscpy[map[k]] = map[k]
      BY <2>2 DEF Stored, AllFit, Fits, TypeOK
    <3>2. [key |-> k, value |-> Strscpy[map[k]]] \in Copied(Stored)
      BY <3>1 DEF Copied
    <3> QED
      BY <3>1, <3>2
  <2> QED
    BY <2>1, <2>2
<1> QED
  BY <1>1, <1>2, HoldsIsMap

(* What a snapshot in progress depends on, of its own thread. *)
Own(u) == <<pc[u], cnt[u], bkt[u], out[u], ret[u], snap[u], ofd[u]>>

(* A step of another thread leaves it alone, unless it ends the process. *)
LEMMA OthersLeaveAlone ==
  ASSUME DaemonInv, NEW t \in Threads, NEW u \in Threads, u # t, ThreadStep(t),
         upc'[Main] # "down"
  PROVE  /\ Own(u)' = Own(u)
         /\ upc'[u] = upc[u] \/ upc'[u] = "listen"
<1> USE ThreadsAssumption
    DEF DaemonInv, DaemonTypeOK, KernelInv, IInv, TypeOK, UGoto, Goto, Own, walk, fds
<1>1. CASE t = Main /\ MainStep
  BY <1>1 DEF MainStep, Load, RestoreEntry, RestoreEntryDone, RestoreEnd, InitNetwork,
              InitNetworkFails, Arm, Listen, AcceptFails, KillNetwork, Exit, Terminate,
              Ioctl, Return, vars
<1>2. CASE t \in Clients /\ ClientStep(t)
  BY <1>2 DEF ClientStep, Accept, ClientOperation, ClientOperationDone, ClientSnapshot,
              ClientDisconnects, Ioctl, Return, vars
<1>3. CASE SnapCount(t) \/ SnapGiveUp(t) \/ SnapAlloc(t) \/ SnapCall(t)
  BY <1>3 DEF SnapCount, SnapGiveUp, SnapAlloc, SnapCall, SnapReturn, Ioctl, Return
<1>4. CASE SnapDone(t)
  BY <1>4 DEF SnapDone, SnapReturn, Return
<1>5. CASE SnapOpen(t) \/ SnapOpenFails(t) \/ SnapWrite(t) \/ SnapClose(t)
  BY <1>5 DEF SnapOpen, SnapOpenFails, SnapWrite, SnapClose, SnapReturn, vars
<1>6. CASE KernelStep(t)
  BY <1>6 DEF KernelStep, userVars, Step, Dispatch, DispatchError, CopyOut, InsertLookup,
              UpdateLookup, Add, AddNoMem, Get, Delete, CountBucket, Counted, Mismatch,
              SnapshotError, SnapshotAlloc, SnapshotBucket, SnapshotFull, SnapshotEnd, Leave, Reply
<1>7. CASE Reap(t)
  BY <1>7 DEF Reap, Return, userVars
<1> QED
  BY <1>1, <1>2, <1>3, <1>4, <1>5, <1>6, <1>7 DEF ThreadStep, Snap

(* What the steps of KvPersist say about quiet and again. *)
LEMMA QuietSteps ==
  ASSUME [PersistNext]_persistVars, quiet \in [Threads -> BOOLEAN], again \in BOOLEAN,
         DaemonInv, NEW u \in Threads, quiet'[u]
  PROVE  \/ quiet[u] /\ again' = again /\ UNCHANGED daemonVars
         \/ quiet[u] /\ again' = (again \/ shutdown) /\ HandleSignal
         \/ \E t \in Threads :
              /\ ThreadStep(t) /\ again' = again /\ upc'[Main] # "down"
              /\ \/ t = u /\ (upc[t] = "count" \/ (quiet[t] /\ ~ Fails(t)))
                 \/ /\ t # u /\ quiet[u] /\ UNCHANGED <<map, file, offset[u]>>
                    /\ ofd[u] => UNCHANGED sfd
<1>1. CASE UNCHANGED persistVars
  BY <1>1 DEF persistVars
<1>2. CASE /\ Environment
           /\ quiet' = IF upc'[Main] \in {"down", "load"} THEN [t \in Threads |-> FALSE] ELSE quiet
           /\ again' = (upc'[Main] # "down" /\ (again \/ (shutdown /\ HandleSignal)))
  <2>1. upc'[Main] \notin {"down", "load"} /\ quiet[u]
    BY <1>2
  <2>2. HandleSignal
    BY <1>2, <2>1, ThreadsAssumption DEF Environment, Start, Kill, Terminate, Reload, userVars
  <2> QED
    BY <1>2, <2>1, <2>2 DEF DaemonInv, DaemonTypeOK
<1>3. ASSUME NEW t \in Threads, ThreadStep(t),
             quiet' = IF upc'[Main] = "down" THEN [w \in Threads |-> FALSE] ELSE Quiet(t),
             again' = (again /\ upc'[Main] # "down")
      PROVE  /\ again' = again /\ upc'[Main] # "down"
             /\ \/ t = u /\ (upc[t] = "count" \/ (quiet[t] /\ ~ Fails(t)))
                \/ /\ t # u /\ quiet[u] /\ UNCHANGED <<map, file, offset[u]>>
                   /\ ofd[u] => UNCHANGED sfd
  <2>1. upc'[Main] # "down" /\ Quiet(t)[u]
    BY <1>3
  <2> QED
    BY <1>3, <2>1 DEF Quiet
<1> QED
  BY <1>1, <1>2, <1>3 DEF PersistNext

(* The history variables stay what they are. *)
LEMMA HistoryType ==
  ASSUME [PersistNext]_persistVars, quiet \in [Threads -> BOOLEAN], again \in BOOLEAN, DaemonInv
  PROVE  quiet' \in [Threads -> BOOLEAN] /\ again' \in BOOLEAN
<1>1. ASSUME NEW t \in Threads PROVE Quiet(t) \in [Threads -> BOOLEAN]
  <2>1. ASSUME NEW u \in Threads PROVE Quiet(t)[u] \in BOOLEAN
    <3>1. quiet[u] \in BOOLEAN /\ ofd[u] \in BOOLEAN
      BY DEF DaemonInv, DaemonTypeOK
    <3> QED
      BY <3>1 DEF Quiet
  <2> QED
    BY <2>1 DEF Quiet
<1> QED
  BY <1>1 DEF PersistNext, persistVars

(* The labels of a thread that is taking a snapshot, after its first step. *)
Saves == {"counting", "snapping", "snap", "open", "write", "close"}

(* The kernel steps of an undisturbed snapshot: the count is the number of  *)
(* keys, so the array has room for all of them, and all are copied.         *)
LEMMA KernelSaves ==
  ASSUME DaemonInv, NEW t \in Threads, upc[t] \in {"counting", "snapping"}, Saving(t), KernelStep(t)
  PROVE  Saving(t)'
<1>1. /\ Step(t) /\ IInv /\ UNCHANGED <<upc, snap, ofd, offset, sfd, file>>
      /\ upc[t] = "counting" => call[t].cmd = "COUNT"
      /\ upc[t] = "snapping" => call[t].cmd = "SNAPSHOT" /\ call[t].capacity = snap[t].capacity
      /\ Walk(t)
  BY DEF KernelStep, userVars, DaemonInv, KernelInv, Threading
<1>2. Control(t) /\ Copying(t) /\ bkt[t] \in 0 .. NumBuckets /\ cnt[t] \in Nat /\ cap[t] \in Nat
  BY <1>1 DEF IInv, ControlOK, CopyingOK, TypeOK
<1>3. /\ Present(0) = {} /\ Cardinality(Present(0)) = 0 /\ Copied(Present(0)) = {}
      /\ Present(NumBuckets) = Stored
  BY PresentGrows
<1>4. UNCHANGED map /\ UNCHANGED call
  BY <1>1, <1>2 DEF Step, Dispatch, DispatchError, CopyOut, InsertLookup, UpdateLookup, Add,
     AddNoMem, Get, Delete, CountBucket, Counted, Mismatch, SnapshotError, SnapshotAlloc,
     SnapshotBucket, SnapshotFull, SnapshotEnd, Control
<1>5. /\ Stored' = Stored /\ Copied(Stored)' = Copied(Stored)
      /\ Present(bkt[t])' = Present(bkt'[t]) /\ Copied(Present(bkt[t]))' = Copied(Present(bkt'[t]))
  BY <1>4 DEF Stored, Present, Copied
<1>6. /\ Present(bkt[t]) \in SUBSET Stored
      /\ Cardinality(Present(bkt[t])) \in Nat /\ Cardinality(Chain(bkt[t])) \in Nat
      /\ Cardinality(Present(bkt[t] + 1)) = Cardinality(Present(bkt[t])) + Cardinality(Chain(bkt[t]))
      /\ Cardinality(Present(bkt[t] + 1)) <= Cardinality(Stored)
      /\ Copied(Present(bkt[t] + 1)) = Copied(Present(bkt[t])) \cup Copied(Chain(bkt[t]))
  BY <1>2, PresentGrows
<1>7. Cardinality(Stored) \in Nat /\ Cardinality(Copied(Stored)) = Cardinality(Stored)
  BY CopiedStored
<1> DEFINE
      Count == upc[t] \in {"counting", "snapping"} /\ pc'[t] = "count" =>
                 cnt'[t] = Cardinality(Present(bkt'[t]))
      Counted1 == upc[t] = "counting" /\ (pc'[t] = "copyout" \/ (pc'[t] = "done" /\ ret'[t] = 0)) =>
                    cnt'[t] = Cardinality(Stored)
      Snap1 == upc[t] = "snapping" =>
                 /\ pc'[t] = "verify" => cnt'[t] = Cardinality(Stored)
                 /\ pc'[t] = "copy" => out'[t] = Copied(Present(bkt'[t]))
                 /\ pc'[t] = "copyout" \/ (pc'[t] = "done" /\ ret'[t] = 0) =>
                      cnt'[t] = Cardinality(Stored) /\ out'[t] = Copied(Stored)
<1> SUFFICES Count /\ Counted1 /\ Snap1
  <2>1. upc'[t] \in {"counting", "snapping"} /\ upc'[t] = upc[t] /\ snap'[t] = snap[t]
    BY <1>1
  <2>2. upc[t] = "snapping" => snap[t].capacity = Cardinality(Stored)
    BY DEF Saving
  <2> QED
    BY <1>5, <2>1, <2>2 DEF Saving
<1> USE <1>1, <1>2, <1>4 DEF Goto, Leave, IInv, TypeOK, walk
<1>8. CASE Dispatch(t)
  <2>1. pc[t] = "dispatch" /\ bkt'[t] = 0 /\ cnt'[t] = 0
    BY <1>8 DEF Dispatch, Walk
  <2>2. pc'[t] \in {"lookup", "get", "remove", "count"}
    BY <1>8 DEF Dispatch
  <2> QED
    BY <1>3, <2>1, <2>2
<1>9. CASE DispatchError(t) \/ SnapshotError(t)
  <2>1. pc'[t] = "done" /\ ret'[t] # 0
    BY <1>9 DEF DispatchError, SnapshotError, EFAULT, EINVAL, ENOMEM
  <2> QED
    BY <2>1
<1>10. CASE CopyOut(t)
  <2>1. /\ pc[t] = "copyout" /\ pc'[t] = "done" /\ cnt'[t] = cnt[t] /\ out'[t] = out[t]
    BY <1>10 DEF CopyOut
  <2> QED
    BY <2>1 DEF Saving
<1>11. CASE CountBucket(t)
  <2>1. /\ pc[t] = "count" /\ pc'[t] = "count" /\ bkt'[t] = bkt[t] + 1
        /\ cnt'[t] = cnt[t] + Cardinality(Chain(bkt[t]))
    BY <1>11 DEF CountBucket
  <2>2. cnt[t] = Cardinality(Present(bkt[t]))
    BY <2>1 DEF Saving
  <2>3. cnt'[t] = Cardinality(Present(bkt'[t]))
    BY <1>6, <2>1, <2>2
  <2> QED
    BY <2>1, <2>3
<1>12. CASE Counted(t)
  <2>1. /\ pc[t] = "count" /\ bkt[t] = NumBuckets /\ cnt'[t] = cnt[t]
        /\ pc'[t] = IF call[t].cmd = "COUNT" THEN "copyout" ELSE "verify"
    BY <1>12 DEF Counted
  <2>2. cnt[t] = Cardinality(Present(bkt[t]))
    BY <2>1 DEF Saving
  <2>3. cnt[t] = Cardinality(Stored)
    BY <1>3, <2>1, <2>2
  <2> QED
    BY <2>1, <2>3
<1>13. CASE Mismatch(t)
  <2>1. pc[t] = "verify" /\ cnt[t] # call[t].capacity
    BY <1>13 DEF Mismatch
  <2> QED
    BY <2>1 DEF Saving, Control
<1>14. CASE SnapshotAlloc(t)
  <2>1. pc[t] = "verify" /\ pc'[t] = "copy" /\ bkt'[t] = 0 /\ out'[t] = out[t]
    BY <1>14 DEF SnapshotAlloc
  <2>2. out'[t] = {}
    BY <2>1 DEF Control
  <2> QED
    BY <1>3, <2>1, <2>2
<1>15. CASE SnapshotBucket(t)
  <2>1. /\ pc[t] = "copy" /\ pc'[t] = "copy" /\ bkt'[t] = bkt[t] + 1
        /\ out'[t] = out[t] \cup Copied(Chain(bkt[t]))
    BY <1>15 DEF SnapshotBucket
  <2>2. upc[t] = "snapping" /\ out[t] = Copied(Present(bkt[t]))
    BY <2>1 DEF Saving, Control
  <2> QED
    BY <1>6, <2>1, <2>2
<1>16. ASSUME pc[t] = "copy" PROVE cap[t] = Cardinality(Stored) /\ cnt[t] = Cardinality(Present(bkt[t]))
  <2>1. upc[t] = "snapping" /\ out[t] = Copied(Present(bkt[t])) /\ cap[t] = Cardinality(Stored)
    BY <1>16 DEF Saving, Control, Copying
  <2>2. cnt[t] = Cardinality(out[t])
    BY <1>16, <2>1 DEF Copying
  <2>3. Cardinality(Copied(Present(bkt[t]))) = Cardinality(Present(bkt[t]))
    BY <1>6, CopiedStored
  <2> QED
    BY <2>1, <2>2, <2>3
<1>17. CASE SnapshotFull(t)
  <2>1. pc[t] = "copy" /\ cnt[t] + Cardinality(Chain(bkt[t])) > cap[t]
    BY <1>17 DEF SnapshotFull
  <2> QED
    BY <1>6, <1>7, <1>16, <2>1
<1>18. CASE SnapshotEnd(t)
  <2>1. /\ pc[t] = "copy" /\ pc'[t] = "copyout" /\ bkt[t] = NumBuckets
        /\ cnt'[t] = cnt[t] /\ out'[t] = out[t]
    BY <1>18 DEF SnapshotEnd
  <2>2. upc[t] = "snapping" /\ out[t] = Copied(Present(bkt[t]))
    BY <2>1 DEF Saving, Control
  <2> QED
    BY <1>3, <1>16, <2>1, <2>2
<1> QED
  BY <1>8, <1>9, <1>10, <1>11, <1>12, <1>13, <1>14, <1>15, <1>17, <1>18
  DEF Step, InsertLookup, UpdateLookup, Add, AddNoMem, Get, Delete, At, Control

(* The part of an undisturbed snapshot in user space. *)
LEMMA UserSaves ==
  ASSUME DaemonInv, NEW t \in Threads, Snap(t), again' = again, again \in BOOLEAN,
         upc[t] = "count" \/ (Saving(t) /\ ~ Fails(t))
  PROVE  Saving(t)'
<1> USE DEF DaemonInv, DaemonTypeOK, KernelInv, IInv, TypeOK, UGoto, Goto
<1>1. \/ upc[t] # "count" /\ Saving(t) /\ ~ Fails(t)
      \/ SnapCount(t)
  BY DEF Snap, SnapGiveUp, SnapAlloc, SnapCall, SnapDone, SnapOpen, SnapOpenFails, SnapWrite, SnapClose
<1>2. UNCHANGED map
  BY DEF Snap, SnapCount, SnapGiveUp, SnapAlloc, SnapCall, SnapDone, SnapOpen, SnapOpenFails,
         SnapWrite, SnapClose, Ioctl, Return, vars
<1>3. Stored' = Stored /\ Copied(Stored)' = Copied(Stored)
  BY <1>2 DEF Stored, Copied
<1>4. CASE SnapCount(t)
  <2>1. upc'[t] = "counting" /\ pc'[t] = "dispatch"
    BY <1>4 DEF SnapCount, Ioctl
  <2> QED
    BY <2>1 DEF Saving
<1>5. CASE SnapGiveUp(t) \/ SnapOpenFails(t) \/ SnapClose(t)
  <2>1. upc'[t] \in {"killnet", "ready"}
    BY <1>5 DEF SnapGiveUp, SnapOpenFails, SnapClose, SnapReturn
  <2> QED
    BY <2>1 DEF Saving
<1>6. CASE SnapAlloc(t)
  <2>1. /\ upc[t] = "counting" /\ pc[t] = "done" /\ ret[t] = 0 /\ upc'[t] = "snap"
        /\ snap'[t].capacity = cnt[t] /\ pc'[t] = "idle"
    BY <1>6 DEF SnapAlloc, Return, Calloc
  <2>2. cnt[t] = Cardinality(Stored)
    BY <1>1, <2>1, <1>6 DEF Saving, SnapCount
  <2> QED
    BY <1>3, <2>1, <2>2 DEF Saving
<1>7. CASE SnapCall(t)
  <2>1. upc[t] = "snap" /\ upc'[t] = "snapping" /\ pc'[t] = "dispatch" /\ snap'[t] = snap[t]
    BY <1>7 DEF SnapCall, Ioctl
  <2>2. snap[t].capacity = Cardinality(Stored)
    BY <1>1, <2>1, <1>7 DEF Saving, SnapCount
  <2> QED
    BY <1>3, <2>1, <2>2 DEF Saving
<1>8. CASE SnapDone(t)
  <2>1. upc[t] = "snapping" /\ pc[t] = "done" /\ Saving(t) /\ ~ Fails(t)
    BY <1>1, <1>8 DEF SnapDone, Return, SnapCount
  <2>2. ret[t] = 0
    BY <2>1 DEF Fails
  <2>3. /\ upc'[t] = "open" /\ pc'[t] = "idle"
        /\ snap' = [snap EXCEPT ![t].count = cnt[t], ![t].entries = out[t]]
    BY <1>8, <2>2 DEF SnapDone, Return
  <2>4. snap'[t].count = cnt[t] /\ snap'[t].entries = out[t]
    BY <2>3 DEF Buffers
  <2>5. cnt[t] = Cardinality(Stored) /\ out[t] = Copied(Stored)
    BY <2>1, <2>2 DEF Saving
  <2> QED
    BY <1>3, <2>3, <2>4, <2>5 DEF Saving
<1>9. CASE SnapOpen(t)
  <2>1. /\ upc[t] = "open" /\ upc'[t] = "write" /\ snap'[t] = snap[t] /\ ~ offset'[t]
        /\ ofd'[t] => sfd' = t
    BY <1>9 DEF SnapOpen
  <2>2. snap[t].count = Cardinality(Stored) /\ snap[t].entries = Copied(Stored)
    BY <1>1, <2>1, <1>9 DEF Saving, SnapCount
  <2> QED
    BY <1>3, <2>1, <2>2 DEF Saving
<1>10. CASE SnapWrite(t)
  <2>1. /\ upc[t] = "write" /\ Saving(t) /\ ~ Fails(t) /\ upc'[t] = "close"
    BY <1>1, <1>10 DEF SnapWrite, SnapCount
  <2>2. /\ snap[t].count = Cardinality(Stored) /\ snap[t].entries = Copied(Stored)
        /\ ~ offset[t] /\ (ofd[t] /\ ~ again => sfd = t)
    BY <2>1 DEF Saving
  <2> SUFFICES ASSUME ~ again
               PROVE  file' = [count |-> Cardinality(Stored), entries |-> Copied(Stored)]
    BY <1>3, <2>1 DEF Saving
  <2>3. Target(t) = t /\ t # NULL
    BY <2>2, NULLAssumption DEF Target
  <2>4. PICK S \in SUBSET Copied(Stored) : file' = [count |-> Cardinality(Stored), entries |-> S]
    BY <1>10, <2>2, <2>3 DEF SnapWrite
  <2>5. file' # NULL
    <3>1. S \in SUBSET Messages
      BY <2>2 DEF Buffers
    <3>2. Cardinality(Stored) \in Nat
      BY CopiedStored
    <3> QED
      BY <2>4, <3>1, <3>2, FilesAssumption DEF Files
  <2>6. ~ Torn'
    BY <2>1 DEF Fails
  <2>7. Cardinality(S) = Cardinality(Stored)
    BY <2>4, <2>5, <2>6 DEF Torn
  <2>8. IsFiniteSet(Copied(Stored)) /\ Cardinality(Copied(Stored)) = Cardinality(Stored)
    BY CopiedStored
  <2>9. S = Copied(Stored)
    BY <2>7, <2>8, FS_Subset
  <2> QED
    BY <2>4, <2>9
<1> QED
  BY <1>4, <1>5, <1>6, <1>7, <1>8, <1>9, <1>10 DEF Snap

(* Every step keeps what is said of the undisturbed snapshots. *)
LEMMA SavingStep == SavingInv /\ [PersistNext]_persistVars => SavingInv'
<1> SUFFICES ASSUME SavingInv, [PersistNext]_persistVars PROVE SavingInv'
  OBVIOUS
<1>1. [DaemonNext]_daemonVars
  BY DEF PersistNext, DaemonNext, persistVars
<1>2. /\ DaemonInv /\ DaemonInv' /\ quiet \in [Threads -> BOOLEAN] /\ again \in BOOLEAN
      /\ quiet' \in [Threads -> BOOLEAN] /\ again' \in BOOLEAN
  BY <1>1, DaemonStep, HistoryType DEF SavingInv
<1> SUFFICES ASSUME NEW u \in Threads, quiet'[u] PROVE Saving(u)'
  BY <1>2 DEF SavingInv
<1>3. quiet[u] => Saving(u)
  BY DEF SavingInv
<1>4. ASSUME UNCHANGED <<map, file>>, Own(u)' = Own(u), upc'[u] = upc[u], offset'[u] = offset[u],
             again => again',
             ofd[u] /\ ~ again' => sfd' = sfd, Saving(u)
      PROVE  Saving(u)'
  <2>1. /\ Stored' = Stored /\ Copied(Stored)' = Copied(Stored)
        /\ Present(bkt[u])' = Present(bkt[u]) /\ Copied(Present(bkt[u]))' = Copied(Present(bkt[u]))
    BY <1>4 DEF Stored, Present, Copied, Own
  <2> QED
    BY <1>4, <2>1 DEF Saving, Own
<1>5. CASE quiet[u] /\ again' = again /\ UNCHANGED daemonVars
  BY <1>3, <1>4, <1>5 DEF daemonVars, vars, userVars, Own
<1>6. CASE quiet[u] /\ again' = (again \/ shutdown) /\ HandleSignal
  <2>1. /\ Own(u)' = Own(u) /\ UNCHANGED <<map, file, upc, offset, ofd>>
    BY <1>6 DEF HandleSignal, vars, Own
  <2>2. CASE sfd \in {"none", "socket"} /\ upc[u] = "write"
    <3>1. ~ ofd[u] \/ again
      BY <1>2, <1>3, <1>6, <2>2, ThreadsAssumption DEF Saving
    <3> QED
      BY <1>2, <1>3, <1>4, <1>6, <2>1, <3>1
  <2>3. CASE shutdown
    BY <1>2, <1>3, <1>4, <1>6, <2>1, <2>3
  <2>4. CASE upc[u] # "write"
    <3>1. /\ Stored' = Stored /\ Copied(Stored)' = Copied(Stored)
          /\ Present(bkt[u])' = Present(bkt[u]) /\ Copied(Present(bkt[u]))' = Copied(Present(bkt[u]))
      BY <2>1 DEF Stored, Present, Copied, Own
    <3> QED
      BY <1>2, <1>3, <1>6, <2>1, <2>4, <3>1 DEF Saving, Own
  <2> QED
    BY <1>2, <2>2, <2>3, <2>4 DEF DaemonInv, Threading
<1>7. ASSUME NEW t \in Threads, ThreadStep(t), again' = again, upc'[Main] # "down",
             t # u, quiet[u], UNCHANGED <<map, file, offset[u]>>, ofd[u] => UNCHANGED sfd
      PROVE  Saving(u)'
  <2>1. Own(u)' = Own(u) /\ (upc'[u] = upc[u] \/ upc'[u] = "listen")
    BY <1>2, <1>7, OthersLeaveAlone
  <2>2. CASE upc'[u] = "listen"
    BY <2>2 DEF Saving
  <2>3. CASE upc'[u] = upc[u]
    BY <1>2, <1>3, <1>4, <1>7, <2>1, <2>3
  <2> QED
    BY <2>1, <2>2, <2>3
<1>8. ASSUME ThreadStep(u), again' = again, upc'[Main] # "down",
             upc[u] = "count" \/ (quiet[u] /\ ~ Fails(u))
      PROVE  Saving(u)'
  <2>1. CASE u = Main /\ MainStep
    <3>1. upc'[u] \notin Saves
      BY <1>2, <1>8, <2>1 DEF MainStep, Load, RestoreEntry, RestoreEntryDone, RestoreEnd, InitNetwork,
         InitNetworkFails, Arm, Listen, AcceptFails, KillNetwork, Exit, Terminate, UGoto, Saves,
         DaemonInv, DaemonTypeOK
    <3> QED
      BY <3>1 DEF Saving, Saves
  <2>2. CASE u \in Clients /\ ClientStep(u)
    <3>1. upc'[u] \notin Saves
      BY <1>2, <2>2, ThreadsAssumption DEF ClientStep, Accept, ClientOperation, ClientOperationDone,
         ClientSnapshot, ClientDisconnects, UGoto, Saves, DaemonInv, DaemonTypeOK
    <3> QED
      BY <3>1 DEF Saving, Saves
  <2>3. CASE Snap(u)
    BY <1>2, <1>3, <1>8, <2>3, UserSaves
  <2>4. CASE KernelStep(u)
    <3>1. pc[u] # "idle" /\ upc' = upc
      BY <1>2, <2>4, KernelMoves DEF KernelStep, userVars, DaemonInv, KernelInv
    <3>2. upc[u] \in InKernel
      BY <1>2, <1>8, <3>1 DEF DaemonInv, Threading
    <3>3. CASE upc[u] \in {"counting", "snapping"}
      BY <1>2, <1>3, <1>8, <2>4, <3>3, KernelSaves
    <3>4. CASE upc[u] \in {"restoring", "op"}
      BY <3>1, <3>4 DEF Saving
    <3> QED
      BY <3>2, <3>3, <3>4 DEF InKernel
  <2>5. CASE Reap(u)
    BY <1>2, <1>8, <2>5 DEF Reap, userVars, DaemonInv, Threading
  <2> QED
    BY <1>8, <2>1, <2>2, <2>3, <2>4, <2>5 DEF ThreadStep
<1> QED
  BY <1>2, <1>5, <1>6, <1>7, <1>8, QuietSteps

(* A snapshot that nothing disturbs is exact, for every store and any       *)
(* number of clients: the file that do_kv_snapshot_to_file has written      *)
(* holds all of the store and nothing else, although the entries were       *)
(* counted by one ioctl and copied, bucket by bucket, by another            *)
(* (daemon.cpp:292-334).                                                    *)
THEOREM SnapshotIsExact ==
  ASSUME AllFit
  PROVE  PersistSpec => []QuietSnapshot
<1>1. PersistInit => SavingInv
  BY DaemonInitInv DEF PersistInit, SavingInv
<1>2. SavingInv => QuietSnapshot
  <2> SUFFICES ASSUME SavingInv, NEW t \in Threads, upc[t] = "close", quiet[t], ~ again
               PROVE  FileMap = map /\ ~ Torn
    BY DEF QuietSnapshot
  <2>1. file = [count |-> Cardinality(Stored), entries |-> Copied(Stored)]
    BY DEF SavingInv, Saving
  <2>2. TypeOK
    BY DEF SavingInv, DaemonInv, KernelInv, IInv
  <2>3. /\ Cardinality(Stored) \in Nat
        /\ Cardinality(Copied(Stored)) = Cardinality(Stored)
    BY CopiedStored
  <2>4. Copied(Stored) \in SUBSET Messages
    BY <2>2, StrscpyAssumption DEF Copied, Stored, Messages, TypeOK
  <2>5. file # NULL
    BY <2>1, <2>3, <2>4, FilesAssumption DEF Files
  <2> QED
    BY <2>1, <2>2, <2>3, <2>5, FileIsStore DEF FileMap, Torn
<1> QED
  BY <1>1, <1>2, SavingStep, PTL DEF PersistSpec

=============================================================================
