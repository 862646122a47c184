------------------------------ MODULE KvPersist ------------------------------
(***************************************************************************)
(* Persistence: what the snapshot file holds after a snapshot, and what    *)
(* the store holds after a restart.  Three history variables say when a    *)
(* snapshot or a restore met no trouble; they never guard or change a step *)
(* of KvDaemon.                                                            *)
(***************************************************************************)
EXTENDS KvDaemon

VARIABLES
  quiet,   \* quiet[t]: nothing has failed for t, and no other thread has changed
           \* the store, the file or the descriptor, or written through it, since
           \* the snapshot of t began
  again,   \* a signal came after shutdown had been requested
  clean    \* the store was empty at the start and every restored entry went in

persistVars == <<daemonVars, quiet, again, clean>>

(* The map that a set of messages, or the file, stands for. *)
AsMap(S) ==
  [k \in Keys |-> IF \E e \in S : e.key = k
                  THEN (CHOOSE e \in S : e.key = k).value ELSE NULL]

FileMap == AsMap(IF file = NULL THEN {} ELSE file.entries)

Empty(m) == \A k \in Keys : m[k] = NULL

Torn == file # NULL /\ file.count # Cardinality(file.entries)

(* A step of t in which something fails: an ioctl, a KV_SNAPSHOT that found *)
(* another count, calloc, the opening or the writing of the file.           *)
Fails(t) ==
  \/ upc[t] \in {"counting", "snapping"} /\ pc[t] = "done" /\ ret[t] # 0
  \/ upc[t] = "counting" /\ cnt[t] # 0 /\ upc'[t] \notin {"counting", "snap"}
  \/ upc[t] = "open" /\ upc'[t] # "write"
  \/ upc[t] = "write" /\ Torn'

Quiet(t) ==
  [u \in Threads |->
     IF u = t THEN upc[t] = "count" \/ (quiet[t] /\ ~ Fails(t))
     ELSE quiet[u] /\ UNCHANGED <<map, file, offset[u]>> /\ (ofd[u] => UNCHANGED sfd)]

(* The KV_INSERT of a restored entry has not reported success. *)
NotInserted ==
  /\ upc[Main] = "restoring" /\ pc[Main] = "done"
  /\ (ret[Main] # 0 \/ reply[Main].status # 0)

PersistInit ==
  /\ DaemonInit
  /\ quiet = [t \in Threads |-> FALSE]
  /\ again = FALSE
  /\ clean = FALSE

PersistNext ==
  \/ /\ Environment
     /\ quiet' = IF upc'[Main] \in {"down", "load"} THEN [t \in Threads |-> FALSE] ELSE quiet
     /\ again' = (upc'[Main] # "down" /\ (again \/ (shutdown /\ HandleSignal)))
     /\ clean' = IF Start THEN Empty(map) /\ ~ Torn ELSE clean /\ upc'[Main] # "down"
  \/ \E t \in Threads :
       /\ ThreadStep(t)
       /\ quiet' = IF upc'[Main] = "down" THEN [u \in Threads |-> FALSE] ELSE Quiet(t)
       /\ again' = (again /\ upc'[Main] # "down")
       /\ clean' = (clean /\ upc'[Main] # "down" /\ ~ NotInserted)

PersistSpec == PersistInit /\ [][PersistNext]_persistVars

-----------------------------------------------------------------------------

(* A snapshot that nothing disturbs is exact: when do_kv_snapshot_to_file   *)
(* has written the file, it holds the store, all of it and nothing else,    *)
(* although the entries are counted by one ioctl and copied by another      *)
(* (daemon.cpp:292-334).                                                    *)
QuietSnapshot ==
  \A t \in Threads : upc[t] = "close" /\ quiet[t] /\ ~ again =>
    FileMap = map /\ ~ Torn

(* A restart after the store was lost brings back exactly what the snapshot *)
(* file holds (daemon.cpp:344-383).                                         *)
RestoreExact == upc[Main] = "network" /\ clean => map = FileMap

(* A restart of the daemon alone, with the store alive in the kernel, does  *)
(* not roll anything back: the restore leaves every key that is in the      *)
(* store as it is, whatever older string the file has for it.               *)
RestoreKeepsLive ==
  [][upc[Main] \in {"restore", "restoring"} =>
       \A k \in Keys : map[k] # NULL => map'[k] = map[k]]_persistVars

(* "flushes store contents on graceful shutdown" (README.md:26): when main  *)
(* is about to exit, with nothing else going on and no call having failed,  *)
(* the file holds the store.                                                *)
FlushOnShutdown == upc[Main] = "exit" /\ quiet[Main] /\ ~ again => FileMap = map

(* The same under signals: a second SIGINT or SIGTERM during a shutdown     *)
(* that has something to save does no harm.                                 *)
FlushDespiteSignals ==
  upc[Main] = "exit" /\ quiet[Main] /\ ~ Empty(map) => FileMap = map

=============================================================================
