----------------------------- MODULE MCKvDaemon -----------------------------
(* An instance of KvDaemon: the main thread m and one client c, one key. *)
EXTENDS KvDaemon

CONSTANTS k1, v1

MCHashMin == [k \in Keys |-> 0]
MCStrscpy == [v \in Values |-> v]
AllKeys == [t \in Threads |-> Keys]

=============================================================================
