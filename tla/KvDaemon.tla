------------------------------ MODULE KvDaemon ------------------------------
(***************************************************************************)
(* The userspace daemon (user/daemon/daemon.cpp) on top of the ioctl       *)
(* interface (KvLkm): the main thread restores the snapshot file, listens, *)
(* and on SIGINT or SIGTERM writes the snapshot file and exits; a detached *)
(* thread per client executes its commands, the manual KV_SNAPSHOT         *)
(* included.  The process may be killed at any time (SIGKILL, or SIGPIPE   *)
(* when a client has closed its socket), and the kernel module, and with   *)
(* it the store, may be reloaded while the daemon is down.                 *)
(*                                                                         *)
(* A thread runs in user space (upc) while its ioctl is idle, and in the   *)
(* kernel (pc, the actions of KvLkm) otherwise.                            *)
(*                                                                         *)
(* Descriptors matter for one number only: the one that server_fd holds.   *)
(* The signal handler and kill_network both close it, and once it is free  *)
(* it is the lowest free number, so that the next file opened gets it.     *)
(***************************************************************************)
EXTENDS KvLkm

CONSTANTS
  Main,     \* the main thread
  Clients   \* the detached client threads

ASSUME ThreadsAssumption ==
  /\ Threads = Clients \cup {Main} /\ Main \notin Clients
  /\ Threads \cap {"none", "socket", "free"} = {}

(* The calls of the daemon itself are among those of KvLkm: it inserts any  *)
(* key that is in the file, and asks for as many entries as were counted.   *)
ASSUME DaemonCallsAssumption ==
  KeysOf[Main] = Keys /\ 0 .. Cardinality(Keys) \subseteq Capacities

VARIABLES
  upc,       \* upc[t]: where thread t is in daemon.cpp
  shutdown,  \* shutdown_requested
  armed,     \* shutdown_server_fd >= 0
  sfd,       \* what the number server_fd refers to: "none" (not yet), "socket",
             \* "free", or the thread whose output file has that number
  ofd,       \* ofd[t]: the output file of t was opened under that number
  offset,    \* offset[t]: something was written through the file t opened
  file,      \* the snapshot file: NULL (none), or count and entries
  snap,      \* snap[t]: the kv_snapshot_message that t has allocated
  todo       \* the entries that the restore loop has still to insert

userVars == <<upc, shutdown, armed, sfd, ofd, offset, file, snap, todo>>
fds == <<shutdown, armed, sfd, ofd, offset>>
daemonVars == <<vars, userVars>>

Messages == [key : Keys, value : Values]
Files == [count : Nat, entries : SUBSET Messages]
Buffers == [capacity : Nat, count : Nat, entries : SUBSET Messages]

ASSUME FilesAssumption == NULL \notin Files

SnapLabels == {"count", "counting", "snap", "snapping", "open", "write", "close"}
MainLabels == {"load", "restore", "restoring", "network", "arm", "listen", "accept",
               "killnet", "exit"}
ClientLabels == {"none", "ready", "op"}

DaemonTypeOK ==
  /\ upc \in [Threads -> {"down"} \cup SnapLabels \cup MainLabels \cup ClientLabels]
  /\ \A t \in Clients : upc[t] \notin MainLabels
  /\ upc[Main] \notin ClientLabels
  /\ shutdown \in BOOLEAN /\ armed \in BOOLEAN
  /\ sfd \in {"none", "socket", "free"} \cup Threads
  /\ ofd \in [Threads -> BOOLEAN] /\ offset \in [Threads -> BOOLEAN]
  /\ file \in Files \cup {NULL}
  /\ snap \in [Threads -> Buffers]
  /\ todo \subseteq Messages

(* A file that has just been truncated: its header reads as zeroes. *)
Truncated == [count |-> 0, entries |-> {}]

(* What calloc returns, with the capacity filled in. *)
Calloc(n) == [capacity |-> n, count |-> 0, entries |-> {}]

(* The machine before the first start: empty store, no snapshot file. *)
DaemonInit ==
  /\ Init
  /\ upc = [t \in Threads |-> "down"]
  /\ shutdown = FALSE /\ armed = FALSE
  /\ sfd = "none"
  /\ ofd = [t \in Threads |-> FALSE]
  /\ offset = [t \in Threads |-> FALSE]
  /\ file = NULL
  /\ snap = [t \in Threads |-> Calloc(0)]
  /\ todo = {}

UGoto(t, label) == upc' = [upc EXCEPT ![t] = label]

(* The process is gone, with all its threads and descriptors. *)
Terminate ==
  /\ upc' = [t \in Threads |-> "down"]
  /\ shutdown' = FALSE /\ armed' = FALSE
  /\ sfd' = "none"
  /\ ofd' = [t \in Threads |-> FALSE]
  /\ offset' = [t \in Threads |-> FALSE]
  /\ snap' = [t \in Threads |-> Calloc(0)]
  /\ todo' = {}
  /\ UNCHANGED file

-----------------------------------------------------------------------------
(* The process, its signals and the module under it. *)

(* main up to do_kv_restore_from_file *)
Start ==
  /\ upc[Main] = "down"
  /\ \A t \in Threads : pc[t] = "idle"
  /\ upc' = [t \in Threads |-> IF t = Main THEN "load" ELSE "none"]
  /\ UNCHANGED <<vars, fds, file, snap, todo>>

(* close(server_fd), in the handler and in kill_network: whatever the       *)
(* number stands for now.                                                   *)
CloseServer == sfd' = IF sfd = "none" THEN "none" ELSE "free"

(* Mutant of HandleSignal: the flag is set, the socket stays open. *)
HandleSignalNoClose ==
  /\ upc[Main] # "down"
  /\ shutdown' = TRUE
  /\ UNCHANGED <<vars, upc, armed, sfd, ofd, offset, file, snap, todo>>

(* handle_shutdown_signal *)
HandleSignal ==
  /\ upc[Main] # "down"
  /\ shutdown' = TRUE
  /\ IF armed THEN CloseServer ELSE UNCHANGED sfd
  /\ UNCHANGED <<vars, upc, armed, ofd, offset, file, snap, todo>>

(* The process is killed; an ioctl in progress runs to its end. *)
Kill ==
  /\ upc[Main] # "down"
  /\ Terminate
  /\ UNCHANGED vars

Reap(t) ==
  /\ upc[t] = "down"
  /\ Return(t)
  /\ UNCHANGED userVars

(* rmmod and insmod, or a reboot: the store is empty again. *)
Reload ==
  /\ upc[Main] = "down"
  /\ \A t \in Threads : pc[t] = "idle"
  /\ map' = [k \in Keys |-> NULL]
  /\ UNCHANGED <<pc, call, reply, walk, ret, userVars>>

-----------------------------------------------------------------------------
(* do_kv_restore_from_file *)

(* The file is read into memory.  Where it is shorter than its header says, *)
(* the malloc'ed entries keep whatever bytes they had: any key and, up to   *)
(* the first NUL, any string, of which none need be within MAX_VALUE_LEN.   *)
(* (A string that is too long is one of the members of Values that do not   *)
(* fit; the kernel takes it up to a NUL in what follows the field.)         *)
Load ==
  /\ upc[Main] = "load"
  /\ IF file = NULL
     THEN UGoto(Main, "network") /\ UNCHANGED todo
     ELSE /\ \E junk \in SUBSET Messages :
               /\ IsFiniteSet(junk)
               /\ Cardinality(junk) <= file.count - Cardinality(file.entries)
               /\ todo' = file.entries \cup junk
          /\ UGoto(Main, "restore")
  /\ UNCHANGED <<vars, fds, file, snap>>

(* One iteration: KV_INSERT, whatever it returns. *)
RestoreEntry ==
  /\ upc[Main] = "restore"
  /\ \E e \in todo :
       /\ Ioctl(Main, [cmd |-> "INSERT", key |-> e.key, value |-> e.value])
       /\ todo' = todo \ {e}
  /\ UGoto(Main, "restoring")
  /\ UNCHANGED <<fds, file, snap>>

RestoreEntryDone ==
  /\ upc[Main] = "restoring"
  /\ Return(Main)
  /\ UGoto(Main, "restore")
  /\ UNCHANGED <<fds, file, snap, todo>>

(* Mutant of RestoreEnd: i < count - 1 instead of i < count. *)
RestoreEndEarly ==
  /\ upc[Main] = "restore"
  /\ Cardinality(todo) <= 1
  /\ todo' = {}
  /\ UGoto(Main, "network")
  /\ UNCHANGED <<vars, fds, file, snap>>

RestoreEnd ==
  /\ upc[Main] = "restore"
  /\ todo = {}
  /\ UGoto(Main, "network")
  /\ UNCHANGED <<vars, fds, file, snap, todo>>

-----------------------------------------------------------------------------
(* init_network, listen_network and the end of main *)

InitNetwork ==
  /\ upc[Main] = "network"
  /\ sfd' = "socket"
  /\ UGoto(Main, "arm")
  /\ UNCHANGED <<vars, shutdown, armed, ofd, offset, file, snap, todo>>

InitNetworkFails ==
  /\ upc[Main] = "network"
  /\ Terminate
  /\ UNCHANGED vars

(* shutdown_server_fd = server_fd *)
Arm ==
  /\ upc[Main] = "arm"
  /\ armed' = TRUE
  /\ UGoto(Main, "listen")
  /\ UNCHANGED <<vars, shutdown, sfd, ofd, offset, file, snap, todo>>

(* while (!shutdown_requested) *)
Listen ==
  /\ upc[Main] = "listen"
  /\ UGoto(Main, IF shutdown THEN "count" ELSE "accept")
  /\ UNCHANGED <<vars, fds, file, snap, todo>>

(* A client has connected: a thread is created for it and detached. *)
Accept(c) ==
  /\ upc[Main] = "accept"
  /\ sfd = "socket"
  /\ upc[c] = "none"
  /\ upc' = [upc EXCEPT ![c] = "ready", ![Main] = "listen"]
  /\ UNCHANGED <<vars, fds, file, snap, todo>>

(* accept is called, or restarted after the handler, on a number that is    *)
(* no socket any more.                                                      *)
AcceptFails ==
  /\ upc[Main] = "accept"
  /\ sfd # "socket"
  /\ UGoto(Main, "listen")
  /\ UNCHANGED <<vars, fds, file, snap, todo>>

KillNetwork ==
  /\ upc[Main] = "killnet"
  /\ CloseServer
  /\ UGoto(Main, "exit")
  /\ UNCHANGED <<vars, shutdown, armed, ofd, offset, file, snap, todo>>

(* kill_kv and the return from main, which ends the client threads too *)
Exit ==
  /\ upc[Main] = "exit"
  /\ Terminate
  /\ UNCHANGED vars

-----------------------------------------------------------------------------
(* handle_client: one command after the other *)

ClientOperation(c, r) ==
  /\ upc[c] = "ready"
  /\ r.cmd \in {"INSERT", "UPDATE", "GET", "DELETE"}
  /\ Ioctl(c, r)
  /\ UGoto(c, "op")
  /\ UNCHANGED <<fds, file, snap, todo>>

ClientOperationDone(c) ==
  /\ upc[c] = "op"
  /\ Return(c)
  /\ UGoto(c, "ready")
  /\ UNCHANGED <<fds, file, snap, todo>>

ClientSnapshot(c) ==
  /\ upc[c] = "ready"
  /\ UGoto(c, "count")
  /\ UNCHANGED <<vars, fds, file, snap, todo>>

ClientDisconnects(c) ==
  /\ upc[c] = "ready"
  /\ UGoto(c, "none")
  /\ UNCHANGED <<vars, fds, file, snap, todo>>

-----------------------------------------------------------------------------
(* do_kv_snapshot_to_file, called by main and by the client threads *)

(* Mutant of SnapReturn: main goes on to serve clients. *)
SnapReturnToLoop(t) == UGoto(t, "ready")

(* It returns, with or without having written the file. *)
SnapReturn(t) == UGoto(t, IF t = Main THEN "killnet" ELSE "ready")

SnapCount(t) ==
  /\ upc[t] = "count"
  /\ Ioctl(t, [cmd |-> "COUNT"])
  /\ UGoto(t, "counting")
  /\ UNCHANGED <<fds, file, snap, todo>>

(* KV_COUNT failed, there is nothing to save, or calloc failed. *)
SnapGiveUp(t) ==
  /\ upc[t] = "counting"
  /\ Return(t)
  /\ SnapReturn(t)
  /\ UNCHANGED <<fds, file, snap, todo>>

SnapAlloc(t) ==
  /\ upc[t] = "counting"
  /\ ret[t] = 0
  /\ cnt[t] # 0
  /\ Return(t)
  /\ snap' = [snap EXCEPT ![t] = Calloc(cnt[t])]
  /\ UGoto(t, "snap")
  /\ UNCHANGED <<fds, file, todo>>

SnapCall(t) ==
  /\ upc[t] = "snap"
  /\ Ioctl(t, [cmd |-> "SNAPSHOT", capacity |-> snap[t].capacity])
  /\ UGoto(t, "snapping")
  /\ UNCHANGED <<fds, file, snap, todo>>

(* A negative result is an error.  A positive one means that the kernel has *)
(* not filled the message in; it is taken for success all the same.         *)
SnapDone(t) ==
  /\ upc[t] = "snapping"
  /\ Return(t)
  /\ IF ret[t] < 0 THEN SnapReturn(t) /\ UNCHANGED snap
     ELSE /\ UGoto(t, "open")
          /\ IF ret[t] = 0
             THEN snap' = [snap EXCEPT ![t].count = cnt[t], ![t].entries = out[t]]
             ELSE UNCHANGED snap
  /\ UNCHANGED <<fds, file, todo>>

(* Mutant of SnapOpen: the file is opened for appending. *)
SnapOpenAppend(t) ==
  /\ upc[t] = "open"
  /\ file' = IF file = NULL THEN Truncated ELSE file
  /\ ofd' = [ofd EXCEPT ![t] = sfd = "free"]
  /\ sfd' = IF sfd = "free" THEN t ELSE sfd
  /\ offset' = [offset EXCEPT ![t] = file # NULL]
  /\ UGoto(t, "write")
  /\ UNCHANGED <<vars, shutdown, armed, snap, todo>>

(* std::ofstream: the file is created, or truncated. *)
SnapOpen(t) ==
  /\ upc[t] = "open"
  /\ file' = Truncated
  /\ ofd' = [ofd EXCEPT ![t] = sfd = "free"]
  /\ sfd' = IF sfd = "free" THEN t ELSE sfd
  /\ offset' = [offset EXCEPT ![t] = FALSE]
  /\ UGoto(t, "write")
  /\ UNCHANGED <<vars, shutdown, armed, snap, todo>>

SnapOpenFails(t) ==
  /\ upc[t] = "open"
  /\ SnapReturn(t)
  /\ UNCHANGED <<vars, fds, file, snap, todo>>

(* The open file that out.write of t reaches, NULL if the number is closed. *)
Target(t) == IF ~ ofd[t] THEN t ELSE IF sfd \in Threads THEN sfd ELSE NULL

(* out.write, whose result nobody looks at: all of it, or (a full disk)     *)
(* only some of the entries.  What is written behind another snapshot does  *)
(* not show: the header at the start of the file counts.                    *)
SnapWrite(t) ==
  /\ upc[t] = "write"
  /\ IF Target(t) = NULL
     THEN UNCHANGED <<file, offset>>
     ELSE /\ offset' = [offset EXCEPT ![Target(t)] = TRUE]
          /\ IF offset[Target(t)] THEN UNCHANGED file
             ELSE \E S \in SUBSET snap[t].entries :
                    file' = [count |-> snap[t].count, entries |-> S]
  /\ UGoto(t, "close")
  /\ UNCHANGED <<vars, shutdown, armed, sfd, ofd, snap, todo>>

(* out.close and free *)
SnapClose(t) ==
  /\ upc[t] = "close"
  /\ sfd' = IF ofd[t] /\ sfd \in Threads THEN "free" ELSE sfd
  /\ ofd' = [ofd EXCEPT ![t] = FALSE]
  /\ offset' = [offset EXCEPT ![t] = FALSE]
  /\ snap' = [snap EXCEPT ![t] = Calloc(0)]
  /\ SnapReturn(t)
  /\ UNCHANGED <<vars, shutdown, armed, file, todo>>

Snap(t) ==
  \/ SnapCount(t) \/ SnapGiveUp(t) \/ SnapAlloc(t) \/ SnapCall(t) \/ SnapDone(t)
  \/ SnapOpen(t) \/ SnapOpenFails(t) \/ SnapWrite(t) \/ SnapClose(t)

-----------------------------------------------------------------------------

(* The main thread in user space; Accept needs a client. *)
MainStep ==
  \/ Load \/ RestoreEntry \/ RestoreEntryDone \/ RestoreEnd
  \/ InitNetwork \/ InitNetworkFails \/ Arm \/ Listen \/ AcceptFails
  \/ KillNetwork \/ Exit

ClientStep(c) ==
  \/ Accept(c)
  \/ \E r \in Calls(c) : ClientOperation(c, r)
  \/ ClientOperationDone(c) \/ ClientSnapshot(c) \/ ClientDisconnects(c)

KernelStep(t) == Step(t) /\ UNCHANGED userVars

Environment == Start \/ HandleSignal \/ Kill \/ Reload

ThreadStep(t) ==
  \/ t = Main /\ MainStep
  \/ t \in Clients /\ ClientStep(t)
  \/ Snap(t) \/ KernelStep(t) \/ Reap(t)

DaemonNext == Environment \/ \E t \in Threads : ThreadStep(t)

DaemonSpec == DaemonInit /\ [][DaemonNext]_daemonVars

(***************************************************************************)
(* The main thread is scheduled, in user space and in the kernel.  Nothing *)
(* is assumed of clients, signals or crashes.                              *)
(***************************************************************************)
DaemonFairness == WF_daemonVars(MainStep \/ Snap(Main) \/ KernelStep(Main))

DaemonFairSpec == DaemonSpec /\ DaemonFairness

-----------------------------------------------------------------------------

(* After SIGINT or SIGTERM the daemon ends, wherever the signal finds it:   *)
(* during the restore, before shutdown_server_fd is set, blocked in accept, *)
(* or between the test of the flag and accept (daemon.cpp:40-46, 146-155).  *)
ShutdownCompletes == shutdown ~> upc[Main] = "down"

=============================================================================
