# A TLA+ verification project for kvstore-lkm

kvstore-lkm is a key-value store inside the Linux kernel, with a userspace daemon
that serves it over TCP and keeps a snapshot file. This directory holds TLA+
models of it, TLC configurations that check them on small instances, and TLAPS
proofs for all sizes. Paths and line numbers refer to the repository
(`kernel/kv_hash.c:120` and so on).

To check: `tlc -workers 2 -config MCKvHash.cfg MCKvHash` (likewise the other
runs of `PROJECT.json`), and `tlapm KvHashProofs.tla` (likewise the other modules named
`*Proofs` and `*Refinement`).

## 1. Inventory

| Component | Source | State | Operations |
|---|---|---|---|
| hash table | `kernel/kv_hash.{h,c}` | array of chains, one spinlock per chain, heap strings | `kv_hash_init/destroy/add/remove/lookup/count/snapshot` |
| ioctl interface | `kernel/kvlkm.c`, `include/kv_ioctl.h` | none of its own: a `kv_message` on the stack, a `kmalloc`ed snapshot message | `KV_INSERT/UPDATE/GET/DELETE`, `KV_COUNT`, `KV_SNAPSHOT` |
| module lifecycle | `kernel/kvlkm.c` | device class, cdev, the table | `init_module`, `cleanup_module` |
| netpoll messages | `kernel/kvlkm.c` | `struct netpoll` | one UDP message at load, one at unload |
| daemon process | `user/daemon/daemon.cpp` | `shutdown_requested`, `shutdown_server_fd`, descriptors | `main`, signal handler, accept loop, exit |
| snapshot persistence | `user/daemon/daemon.cpp` | the snapshot file | `do_kv_snapshot_to_file`, `do_kv_restore_from_file` |
| client sessions | `user/daemon/daemon.cpp` | authenticated flag, 1024-byte read buffer | `handle_client`, `parse_and_handle_command`, `parse_key`, `do_kv_operation` |
| authentication | `user/daemon/auth.cpp` | none | `authenticate` (PAM) |
| command line client | `user/client/client.cpp` | one socket | menu, request and response |
| benchmark | `benchmark/benchmark.cpp` | none of the service | load generator |

How they interact: a client's command is read by a detached thread of the
daemon, which issues one ioctl (two for a snapshot); a handler in the module
makes one or two calls of the table; the table takes one bucket lock at a time.
Main runs the restore before it listens and the snapshot after it stops
listening. Client threads are never joined, so they run on during the final
snapshot. The store outlives the daemon: it goes when the module is unloaded.

What is hard, and what would be correct:

* **table** — any number of threads, allocation that can fail with a lock held,
  pointers found by a chain walk and dereferenced later. Correct: no double free,
  use after free or leak; one entry per key; add, remove and lookup atomic;
  a walk that holds one lock at a time misses nothing that stayed and invents
  nothing; every call returns.
* **ioctl** — INSERT and UPDATE look up and write in two critical sections;
  KV_SNAPSHOT sizes its buffers by a count that other threads make stale.
  Correct: insert-if-absent and update-if-present; no write beyond a buffer.
* **daemon** — a signal may arrive anywhere; handler and main close the same
  descriptor number, which the next `open` gets. Correct: a signal ends the
  daemon.
* **persistence** — kill, restart, unload in any order, disk full, snapshots by
  two threads into one file. Correct: an undisturbed snapshot is the store; a
  restart after a loss restores the file; a restart over a live store rolls
  nothing back.
* **sessions** — TCP cuts and merges what the peers send, and neither of them
  frames it; either may leave at any moment; `write` to a closed connection kills
  the daemon. Correct: nobody waits for ever; the menu is shown to who is logged
  in; read in one piece, a command gets its own response and stores what was typed.
* **module lifecycle** — each step of a load may fail, the device can be opened
  before the table is there, and some failures are ignored. Correct: all is
  released again; who opens the device of a loaded module finds a table and keeps it.

`PROJECT.json` ("hazards") lists each hazard at its line with the properties that
cover it.

## 2. Modules

```
KvBase        parameters, bucket function, return codes
  KvMap       what a table promises: an atomic map          (abstract)
  KvHash      kv_hash.c with locks, pointers and strings    implements KvMap
    KvHashWalk         KvHash with a record of what walks could see
    KvSpin             KvHash on few CPUs, with allocations that sleep
    KvHashProofs       inductive invariant, four theorems
      KvHashRefinement theorem: KvHash implements KvMap
      KvHashWalkProofs four theorems about walks
  KvStore     what the ioctls promise: atomic INSERT, ...   (abstract)
  KvLkm       kvlkm.c over an atomic map                    implements KvStore
    KvLkmProofs        inductive invariant, two theorems
      KvLkmRefinement  theorem: KvLkm implements KvStore for threads with keys of their own
    KvDaemon           the daemon's threads over KvLkm      (composition)
      KvPersist        KvDaemon with a record of undisturbed snapshots
        KvPersistProofs four theorems (extends KvLkmRefinement too)
KvModule      loading, unloading, and who opens the device meanwhile
  KvModuleProofs       four theorems
KvSession     client, TCP stream and the daemon's thread for one connection
  KvSessionProofs      six theorems
MC*           instances for TLC
```

The levels fit together by refinement: KvHash is shown to implement KvMap, and
KvLkm makes each keyed call of the table as one step on that map. The walks are
not atomic in KvHash, and KvLkm keeps them bucket by bucket. KvModule and KvSession
stand beside this chain: what is in the table does not matter to the one, and the
other makes a whole ioctl as one step, whose races KvLkm shows.

### KvHash (kernel/kv_hash.c)

| Model | Code |
|---|---|
| `buckets[b]` | chain b as a set of entries |
| `lock[b]` | holder of `bucket_locks[b]` |
| `str[p]` | the string at address p; NULL when not allocated |
| `newstr[t]`, `ent[t]`, `bkt[t]`, `cnt[t]` | the locals `newstr`, `e`, `bucket`, `count` |
| `out[t]`, `buf[t]`, `ret[t]` | the output array, `out_buf` and the return value |
| `AddDup`, `AddDupNoMem` | `kstrdup` before the lock |
| `Lock`, `Scan` | `spin_lock_irqsave`, the chain walk |
| `AddUpdate`, `AddNew`, `AddNewNoMem` | the three ends of `kv_hash_add` |
| `RemoveFound`, `LookupFound`, `NotFound` | the ends of remove and lookup |
| `CountBucket`, `SnapshotBucket`, `SnapshotFull`, `UnlockNext` | one iteration of a walk |
| `UnlockReturn`, `Return` | unlock and return; the caller takes the result |

A step reaches up to the next point where another thread could tell the
difference. Data abstractions: a string is a member of `Values`, with `Strscpy`
saying what is left of it in a 64-byte buffer; a chain has no order (its order
only decides which entries a full snapshot leaves out: any choice is allowed).
Entry memory is owned with its string and has no address of its own.

### KvLkm (kernel/kvlkm.c)

`pc`, `call` and `reply` are the position in `kv_ioctl`, the copied-in message
and its `status` and `value`; `bkt`, `cnt`, `out`, `cap` the state of a walk and of
the kernel's snapshot buffer; `ret` the result of the system call.
`Ioctl/Dispatch/DispatchError/CopyOut/Return` are the common path with its
`-EFAULT` and `-EINVAL` exits, `InsertLookup/UpdateLookup/Add/AddNoMem/Get/Delete`
the keyed handlers, `CountBucket/Counted` the count, and
`Mismatch/SnapshotError/SnapshotAlloc/SnapshotBucket/SnapshotFull/SnapshotEnd` the snapshot.
`KeysOf[t]` are the keys of thread t: all of them, or a partition as in
`benchmark/benchmark.cpp:221`.

### KvDaemon (user/daemon/daemon.cpp)

`upc[t]` is the position of a thread in user space; while it is in an ioctl the
actions of KvLkm move it. `shutdown` and `armed` are the two globals of the signal
handler. `sfd` says what the descriptor number in `server_fd` refers to now;
`ofd[t]` says that the output file of t was opened under that number, `offset[t]`
that something was written through it. `file` is the snapshot file: the count in its
header and the entries really there. `snap[t]` is the calloc'ed message, `todo` what
the restore loop has still to insert. Environment actions: `Start`, `HandleSignal`,
`Kill`, `Reload` (the module is unloaded and loaded again while the daemon is down).
Bytes of a truncated file that `malloc` left undefined become an arbitrary set of
messages (`Load`).

### KvHashWalk and KvPersist

They add history variables that guard nothing: what the table held since a walk
began (`always`, `ever`); whether a snapshot or a restore met an error or
another thread's change (`quiet`, `again`, `clean`). Another thread's change includes a write
through the descriptor of the snapshot's file, even one that leaves the file as it is: with two
clients such a write would move the position at which the snapshot's own write lands.

### KvSpin (kernel/kv_hash.c)

The steps of KvHash, made only by threads that have one of `cpus` CPUs. A thread that
waits for a lock keeps its CPU. `Sleep` gives it up in one of the two allocations of
`kv_hash_add`, the second of which is made with the lock held; `Wake` and `Dispatch` bring
the thread back when there is memory and a CPU.

### KvModule (kernel/kvlkm.c, kernel/kv_hash.c)

`mpc` is the position in `init_module` or `cleanup_module`, `held` what is registered or
allocated, `leaked` what was still held when the module, and all its pointers, went.
One action per call of `init_module`, its failure being a disjunct that releases what that
branch of the code releases (`Fail`). `next` counts the loops of `kv_hash_init` and
`kv_hash_destroy`, `linked[b]` the entries of a chain. `upc[u]` is a process that uses the device:
`Enter` is an ioctl up to the test of `ht->buckets`; `Lock` and `Unlock` begin and end a critical
section in bucket `at[u]`, and an ioctl may have several of them. A section is not one step, so
`InitHead`, which is `INIT_HLIST_HEAD` and `spin_lock_init`, can come in the middle of one.
`good[b]` says whether it came when nobody was there: only then is the chain a list and does the
lock exclude. A lock that is not initialised may look free (`Lock`), taken, or like the head of a queue, at the
end of which `spin_lock` writes (`QueueOnGarbage`). To follow a chain that is not a list may leak entries,
and overwrite memory (`Follow`); once that has happened (`corrupt`), the kernel may crash
or another bucket go bad at any later time (`Damage`). `NullArray` is a section
without an array. A process is an "orphan" when a failed load freed the module
under its open file. After a crash only `Reboot` is possible. `early` and `touched` are history: who
opened the device before the module was loaded, and whether an ioctl came to a bucket before
`kv_hash_init` did.

Of the kernel it assumes: `fops.owner` makes `rmmod` refuse while a file is open and `open` fail
while the module goes; a module whose `init_module` fails is freed whatever is open;
`device_create` returns an error pointer and never NULL; `netpoll_send_udp` follows `np.dev`,
`netpoll_cleanup` does nothing if it is NULL.

### KvSession (user/client/client.cpp, user/daemon/daemon.cpp, auth.cpp)

`cpc` and `dpc` are the positions of the client and of the daemon's thread, `up` and `down` the
bytes on their way, `line` the daemon's buffer up to its first NUL, `peer` what the daemon's
kernel knows of the client's end. A read takes any number of the bytes that have arrived (at most
`BufLen` for the daemon). Text is a sequence of characters, with two simplifications: the name of an
operation is one character, since a name that is cut is refused on both sides of the cut;
a response is two halves with a status, since the client looks only for "OK" in it (a first
half may have these letters or not: `FoundOK` is a set of answers).
`Extract`, `ValueOf`, `Strncpy` and `parse_key` do what `>>`, `getline`, `strncpy` and `strtoull` do.
`HandleAuth`, `HandleSnapshot`, `HandleOperation` and `HandleRefused` are the ends of
`parse_and_handle_command`; `authenticate` is the set of answers PAM may give. A socket that is
closed with unread data is reset; the first write to a closed one is lost, the second
raises SIGPIPE. An operation succeeds, or fails without effect, or is answered by "ioctl failed", and then it
may have been carried out, since the `copy_to_user` of the result comes last.

`asked`, `typed`, `told`, `answered` and `whole` are history. `typed` is the request at the user's
keyboard, before it is formatted, and `told` what can be known of the store from the requests and their
answers (`Learn`): for each key the values it may have. The key of a request is there the number that its
digits spell, each with the weight of its place (`KeyMeant`). So `StoredAsTyped` compares
the store with something that neither the message, nor the parsing, nor `parse_key` has been through.

## 3. Runs

Times are for two workers on a small machine.

| Run | States | Result |
|---|---|---|
| `hash` | 1.0 M, 80 s | memory safety, unique keys, valid pointers, refinement of KvMap; walks return only pairs that existed, do not overrun or miss what stayed while there is room; a count is between what stayed and what was ever there |
| `hash_liveness` | 48 k, 80 s | every call returns, under `SpinFairness`, if there are CPUs enough or no allocation sleeps under a lock |
| `lkm_own_keys` | 578 k | clients with keys of their own get KvStore; a KV_SNAPSHOT never writes beyond either buffer, whatever the other client inserts meanwhile |
| `lkm_double_insert` | violation | two INSERTs of one key both succeed |
| `lkm_snapshot_full` | violation | a truncated snapshot is reported as success |
| `daemon_shutdown` | 61 k | a signal ends the daemon, under `DaemonFairness` |
| `persist` | 2.4 M, 110 s | an undisturbed snapshot is the store; restores are exact, and roll nothing back |
| `persist_empty_store` | violation | an emptied store is not flushed |
| `persist_second_signal` | violation | a second signal loses the final snapshot |
| `session` | 4.3 M, 80 s | nobody waits for ever; the menu needs a login; whole commands are answered in step and stored as typed; only pieces can make SIGPIPE kill the daemon |
| `module` | 109 k | a load that fails leaves nothing and an unload nothing but the array of locks; a loaded module is ready and stays; three ways to crash, then or later, and no other |
| `module_destroy` | violation | `kv_hash_destroy` does not free the array of locks |

Passing runs check deadlock, but for two: in `session` both ends may leave, and in `hash_liveness`
one CPU can lock up, which is what its property is about.

### Bounds, and why they are enough

* Two threads: every property of the table is about a thread and one that
  interferes, and the theorems cover any number.
* Three keys, `k1` and `k2` in one chain and `k3` in another, two buckets: shared
  chains, separate chains, and walks with a bucket behind and one ahead. `hash_liveness`
  drops `k2`.
* Two strings: enough to tell an old string from a new one. `long` in `hash`
  does not fit the buffer of a lookup.
* `hash` has the constraint `Bounded`: t2 only adds and removes, t1 does everything. A call sees
  the chains one at a time under their locks, so whatever several writers can show it, one
  writer can, and calls that only read do not change anything for each other. Two strings to tell
  apart are met by walks, a long one by the other calls. While a walk lasts the table holds at most
  `MaxEver` = 3 different pairs: three that come and go, or two and one that is new
  or replaces one of them. The theorems have no such bound.
* `Ptrs`: three addresses, so that three keys, or two and a new string for one of them, are in
  memory at once. An add that finds no address fails, as `kstrdup` may at every call anyway.
* Snapshot capacities: 0 is the -EINVAL path; the others are below, at and above the
  number of entries the table can have.
* Daemon: one client thread. Two snapshots of one file, main's and the client's,
  are then already possible at once.
* `persist` has two keys, so that a file can be half a snapshot, and the constraint
  `OneKeyOrSequential`. While `k2` is nowhere, everything interleaves. With both keys main
  and the client do not run at the same time, except while main waits in accept, and a shutdown
  has one signal: what two keys add is about restarts, during which no client exists.
* `hash_liveness` looks at one CPU and at two, for two threads: too few and enough.
* `module`: two users, so that one can come while the other is inside; two buckets, one of them
  initialised or destroyed and the other not yet; one entry per chain.
* `session`: three messages (a login, a change, a look at it, or more logins), a good login,
  a bad one and one without a password; keys up to 9, so that "10" overflows and "-1" is 9; a
  6-character buffer, which the longest commands exceed; two values, one of two characters, of which one is
  stored, so that a value paired with the wrong key, or an old one for a new one, is seen.
* Addresses, and strings where they are
  interchangeable, are symmetry sets; none is used with liveness.

### Fairness

* `KvSpin!SpinFairness`: a running thread goes on (in a critical section interrupts are
  off and it is not preempted); an allocation neither sleeps for ever nor over and over; strong
  fairness of `SpinLock` (kernel spinlocks are queued: a waiter is not overtaken for ever)
  and of `Dispatch` (the scheduler passes over no ready thread for ever while a CPU becomes free
  again and again).
* `KvDaemon!DaemonFairness`: weak fairness of the main thread only, in user space and
  in the kernel. Clients, signals and crashes need never happen. A handler run on the
  main thread makes a blocked `accept` start again on the closed number, as `signal`
  with glibc (restarting system calls) does.

## 4. Findings

1. Two INSERTs of one key can both report success, the second overwriting the first
   (`kernel/kvlkm.c:342` against the comment at 334).
2. The branch "This should not happen" of `kv_hash_snapshot` happens, and the truncated
   snapshot is reported as SUCCESS (`kernel/kv_hash.c:281`).
3. An emptied store is not flushed at shutdown: the old file stays and its keys return
   (`user/daemon/daemon.cpp:298` against `README.md:26`).
4. The second SIGINT or SIGTERM of a shutdown may close the snapshot file instead of the
   socket (`user/daemon/daemon.cpp:44`).
5. `kv_hash_destroy` frees the chains and the array of buckets, and not the array of locks: every
   unload leaks it (`kernel/kv_hash.c:88` against "free all associated memory" at 60).

Each is the counterexample of one run. No finding, but worth knowing: the walks lock
one bucket at a time, so a count need not be a number of entries that the table had at
any moment of the call; `CountBounds` is what can be said of it. Also:

* UPDATE is built like INSERT: with a DELETE between its lookup and its add it reports
  success and the key is back (`kernel/kvlkm.c:408`). `ImplementsStore` holds only
  because clients do not share keys in `lkm_own_keys`.
* A thread that sleeps in the allocation at `kernel/kv_hash.c:132` holds a bucket lock; if every
  CPU then spins for that lock the machine hangs. Without its hypothesis `CallReturns` is
  violated on one CPU.
* The three ways to crash that `Survives` allows are real: an ioctl that comes to a bucket before
  `kv_hash_init` does (the device is created too early, `kernel/kvlkm.c:100`; what it damages may be
  used long after the module is loaded), a load that fails under an open file
  (`:113`), and an unload after `netpoll_setup` failed (`:160`). A failure of `device_create` goes
  unseen, because it is compared with NULL (`:100`).
* Once a command is read in two pieces or with another, responses and requests can be out of step
  for the rest of the connection, and a piece may be a valid command with a shorter key.

## 5. Proofs

Every invariant, action property and refinement that a passing run checks is also a theorem, for
all values of the constants. Liveness is not (see the end of this section).

| Module | Theorem | States |
|---|---|---|
| `KvHashProofs` | `TypeCorrect`, `MemorySafe`, `KeysUnique`, `ScanStaysValid` | `Spec => []TypeOK`, `[]StringsOwned`, `[]OneEntryPerKey`, `[]FoundStillLinked` |
| `KvHashRefinement` | `Linearizable` | `Spec => ImplementsMap` |
| `KvHashWalkProofs` | `SnapshotTellsTruth`, `SnapshotMissesNothing`, `SnapshotInArray`, `CountIsBounded` | `WalkSpec => []SnapshotSound`, `[]SnapshotComplete`, `[]SnapshotFits`, `[]CountBounds` |
| `KvLkmProofs` | `TypeCorrect`, `SnapshotBounded` | `Spec => []TypeOK`, `[]SnapshotInBounds` |
| `KvLkmRefinement` | `AtomicForOwnKeys` | `DisjointKeys`, `AllFit`: `Spec => ImplementsStore` |
| `KvPersistProofs` | `DaemonTypeCorrect`, `RestoreIsExact` | `PersistSpec => []DaemonTypeOK`, `[]RestoreExact` |
| | `SnapshotIsExact`, `RestoreRollsNothingBack` | `AllFit`: `PersistSpec => []QuietSnapshot`, `RestoreKeepsLive` |
| `KvSessionProofs` | `TypeCorrect`, `LoggedInAtMenu`, `NobodyStarves`, `StaysInStep`, `SigpipeOnlyAfterPieces` | `Spec => []TypeOK`, `[]MenuOnlyWhenLoggedIn`, `[]NoMutualWait`, `[]InStep`, `[]SigpipeNeedsPieces` |
| | `StoresWhatWasTyped` | `KeysAreWords`, `KeysReadRight`: `Spec => []StoredAsTyped` |
| `KvModuleProofs` | `TypeCorrect`, `NothingLeftBehind`, `LoadedIsReady`, `ThreeWaysToCrash` | `Spec => []TypeOK`, `Unwound`, `[]ReadyForUsers`, `[]Survives` |

### Assumptions and hypotheses

Assumptions on the constants, stated where they are declared and evaluated by TLC in the runs:
there is at least one bucket, `HashMin` maps keys to buckets, `Strscpy` is idempotent on strings,
`Keys` is finite, capacities are naturals, `KeysOf` gives each thread a set of keys; NULL is no
thread, string, address, entry, reply (`RepliesAssumption`) or file (`FilesAssumption`). Main is a
thread, the others are clients, and none is called like a state of the descriptor
(`ThreadsAssumption`). The daemon's own calls are among those of KvLkm: main restores any key, and
any number of entries that can be counted can be asked for (`DaemonCallsAssumption`). What users
type are sequences of characters (`TextsAssumption`), and buffers have a size. Nothing is
assumed of the number of threads, clients, keys, strings, buckets, processes or messages.

Four theorems have hypotheses of their own. Without the first three the code does not do what
they say; the last one is for the limits of the prover:

* `DisjointKeys` (no key belongs to two threads): without it, `lkm_double_insert`.
* `AllFit` (every string fits its 64-byte field): a lookup of a longer one fails with ENOSPC and INSERT then
  overwrites it; a snapshot cuts it. For its clients the daemon only sends strings that fit (`strncpy`,
  `daemon.cpp:400`). Another user of the device need not, and neither does the restore of a
  file that is shorter than its header says: the bytes that `malloc` left (`daemon.cpp:357`)
  need not have a NUL within the field.
* `KeysAreWords` (a key is typed as one word): a key with a blank loses its end to the
  value, an empty one takes the value's first word.
* `KeysReadRight` (a key that `parse_key` accepts is read as the number it spells): a statement about
  two folds over digits, which needs an induction over data. TLC evaluates both on every key of the
  run `session`, where `StoredAsTyped` is checked without this hypothesis.

### The inductive invariants

Each was checked with TLC on the instance of its run before it was proved.

**KvHash**, `IInv`. None of the four is inductive alone: that a scan's
result lasts (`FoundStillLinked`) needs that no other thread is in a critical section on
the chain; that a link creates no duplicate (`OneEntryPerKey`) needs the scan's result;
that a free hits no string in use (`StringsOwned`) needs both. The glue is `LockHeld` (a
thread at a label of a critical section holds the lock of `bkt[t]`, and who holds one is
there), `ControlOK` (which locals are set at which label) and `FiniteChains` (a chain has
a size). One lemma per conjunct goes through the actions; `TableWriters` says that only
five of them change the table.

*Refinement of KvMap.* A keyed call takes effect in the step in which it acts on its chain or
fails to allocate; a walk has no effect and ends with its last unlock. All other steps are
stutters. The map is read off the chains (`MapOf`). The proof needs one more invariant,
`Duplicated`: the string an unfinished add owns is the one it was given.

**KvHashWalk**, `WInv`. The properties speak of finished walks; the invariant speaks of the chains a
walk has behind it (`Progress`): the array or the count covers what was always in those chains
(`Covers`, `Counts`) and has nothing that was never in them. One more chain keeps this because
different chains have different keys, and because until the walk ends the histories enclose the
contents (`History`).

**KvLkm**, `IInv`. The bound on a snapshot needs that the counter is the number of entries copied, hence that no
key is copied twice: all entries so far come from chains before the next one (`Copying`).

*Refinement of KvStore.* INSERT and UPDATE take effect at the lookup if it decides, else at the
add; `StillTrue` says that what the lookup has found is still so then. This is the one place
where `DisjointKeys` is used.

**KvDaemon and KvPersist.** `Projects`: every step of the daemon is, for the kernel, a step of KvLkm
or a reload with no call running. So the invariant of KvLkm is inherited, together with bounds on
what a walk counts (`Walk`). `DaemonInv` adds where threads can be in user space and in the kernel
at once, who is alone during a start, and that descriptor numbers are reused only after a
shutdown has begun (`Threading`). On top of it:

* `LiveInv` (for `RestoreKeepsLive`): the key about to be added by a restore is absent, since main is alone (`Alone`).
* `RestoreInv` (for `RestoreExact`): at each point of a restore that has met no trouble the store
  holds the entries of the file that are done, and no others (`Holds`). At the end that makes it
  the map of the file, as no key is in the file twice.
* `SavingInv` (for `QuietSnapshot`): while nothing disturbs a snapshot, the count so far is the
  number of keys behind the walk, the array has room for all keys and holds those behind the
  second walk, and the output file has no data of others, or a second signal has come (`Saving`). A short write that
  leaves the file untorn has written everything, by a comparison of sizes.

**KvSession**, `IInv`. `InStep` is about the prompts; `Exchange` says where the message or the
response is at every point between. That the menu needs a login rests on `OKIsTrue`: an "OK" that
was written stays true until it is read. `StoredAsTyped` is about the prompts as well; `KnownOK`
says what the store is compared with between them: before the operation with what the user knows, after it with
what the user will know when the response is read (`Known`). It also needs that the message sent last is the
formatted request (`TypedOK`), and that the daemon's parsing
undoes the client's formatting, which is proved of `Extract`, `ValueOf` and `Strncpy` for all texts
(`ParseValueMessage`, `ParseKeyMessage`, `Truncated`).

**KvModule**, `IInv`. What is held at each point of `init_module` and `cleanup_module` (`HeldAt`),
which chains can have entries (`EntriesAt`), where the module can be while a process uses the
device (`UsersAt`), and, as long as no ioctl has come to a bucket too early, that a bucket is good as soon
as it is initialised, that its lock is taken while a process is in it and no two are, and that nobody is
in one that is not initialised (`SoundAt`). `SoundAt` is what makes `Survives` inductive: whoever overwrites memory does
it through a bucket that is not good.

### Only model-checked

`CallReturns` and `ShutdownCompletes`: liveness under fairness is beyond this prover and stays with
TLC. So does the number that `parse_key` computes from digits (a fold over them;
the proofs use that the result is in range, and `KeysReadRight` as a hypothesis). The
five statements of the runs that expect a violation are false.

## 6. Not modelled

* The delivery of the two netpoll messages; no state depends on it.
* Preemption of threads outside critical sections (KvSpin): it delays and does not block.
* PAM itself, and its conversation function. Descriptors that PAM or a client socket could
  take before the snapshot file does: the freed number goes to the next output file.
* Several connections in one KvSession: they share nothing but the store, and KvLkm
  and KvDaemon interleave their operations.
* Strings without a terminating NUL in a `kv_message`, as the restore of a short file may send them
  (`daemon.cpp:362`). In the models they are strings that do not fit, which `Load` allows; the
  instance of `persist` has only strings that fit, and the theorems that exclude them say so (`AllFit`). What the
  kernel reads behind the field is not followed.
* Terminal I/O and connecting of the client (a client whose standard input ends keeps asking);
  the benchmark, a load generator.
* The number of bytes of a short write: a file has its header and some of its entries.

## 7. Plan

Done: all modules of section 2, and the theorems of section 5: every safety property that a
passing run checks, and the two refinements, for all values of the constants.

What could come next:

1. That `KvLkm` needs only `KvMap` of the table is shown by two separate refinements; a theorem
   that composes KvHash and KvLkm would say it in one.
2. `SavingInv` as a specification of its own: do_kv_snapshot_to_file as one atomic step when
   nothing disturbs it.
3. `StoredAsTyped` for keys with blanks: what exactly is stored then.
