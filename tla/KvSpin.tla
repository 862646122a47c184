------------------------------- MODULE KvSpin -------------------------------
(***************************************************************************)
(* The hash table on a machine with few CPUs (kernel/kv_hash.c).           *)
(*                                                                         *)
(* A thread that waits for a bucket lock spins, with interrupts off: it    *)
(* keeps its CPU until it gets the lock.  The two allocations of           *)
(* kv_hash_add are GFP_KERNEL: they may sleep, that is give up the CPU,    *)
(* and need one to go on.  The second one is made with the lock held.      *)
(***************************************************************************)
EXTENDS KvHash

CONSTANT CpuCounts   \* the sizes of machine to look at

ASSUME CpuCountsAssumption == CpuCounts \subseteq Nat \ {0}

VARIABLES
  cpus,  \* the number of CPUs
  off    \* off[t]: "no" (t is running, or not in the module), "asleep" in an
         \* allocation, "ready" to go on when it gets a CPU

spinVars == <<vars, cpus, off>>

FreeCpu == Cardinality({t \in Threads : pc[t] # "idle" /\ off[t] = "no"}) < cpus

SpinInit ==
  /\ Init
  /\ cpus \in CpuCounts
  /\ off = [t \in Threads |-> "no"]

(* A step of KvHash, by a thread that is running. *)
SpinCall(t) ==
  /\ FreeCpu
  /\ \E r \in Requests(Caps) : Call(t, r)
  /\ UNCHANGED <<cpus, off>>

SpinLock(t) == off[t] = "no" /\ Lock(t) /\ UNCHANGED <<cpus, off>>

SpinStep(t) == off[t] = "no" /\ (Step(t) \/ Return(t)) /\ UNCHANGED <<cpus, off>>

(* kstrdup(value, GFP_KERNEL) or kmalloc(..., GFP_KERNEL) *)
Allocating(t) ==
  \/ pc[t] = "enter" /\ req[t].fn = "add"
  \/ Acting(t, "add") /\ ent[t] = NULL

Sleep(t) ==
  /\ off[t] = "no"
  /\ Allocating(t)
  /\ off' = [off EXCEPT ![t] = "asleep"]
  /\ UNCHANGED <<vars, cpus>>

(* There is memory. *)
Wake(t) ==
  /\ off[t] = "asleep"
  /\ off' = [off EXCEPT ![t] = "ready"]
  /\ UNCHANGED <<vars, cpus>>

(* The scheduler gives t a CPU. *)
Dispatch(t) ==
  /\ off[t] = "ready"
  /\ FreeCpu
  /\ off' = [off EXCEPT ![t] = "no"]
  /\ UNCHANGED <<vars, cpus>>

SpinNext ==
  \E t \in Threads :
    SpinCall(t) \/ SpinLock(t) \/ SpinStep(t) \/ Sleep(t) \/ Wake(t) \/ Dispatch(t)

(***************************************************************************)
(* A running thread goes on, and an allocation does not sleep for ever nor *)
(* over and over.  The kernel spinlock is queued, so that a waiter cannot  *)
(* be overtaken for ever, and the scheduler leaves no ready thread out for *)
(* ever while a CPU becomes free again and again.                          *)
(***************************************************************************)
SpinFairness ==
  \A t \in Threads :
    /\ SF_spinVars(SpinStep(t)) /\ SF_spinVars(SpinLock(t))
    /\ WF_spinVars(Wake(t)) /\ SF_spinVars(Dispatch(t))

SpinSpec == SpinInit /\ [][SpinNext]_spinVars /\ SpinFairness

-----------------------------------------------------------------------------

(* Some thread has given up its CPU with a bucket lock held. *)
LockedSleeper == \E t \in Threads : off[t] # "no" /\ pc[t] = "act"

(* Every call returns: each path through the five functions releases the    *)
(* lock it took, the early return of a full snapshot included, and no       *)
(* thread waits for a second lock while it holds one.  This holds if there  *)
(* is a CPU for each thread in the module, or if the allocation at          *)
(* kv_hash.c:132 never sleeps; otherwise the threads that spin for a lock   *)
(* may keep from every CPU the thread that holds it.                        *)
CallReturns ==
  (cpus >= Cardinality(Threads) \/ [] ~ LockedSleeper) =>
    \A t \in Threads : pc[t] = "enter" ~> pc[t] = "done"

=============================================================================
