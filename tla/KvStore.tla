------------------------------- MODULE KvStore -------------------------------
(***************************************************************************)
(* What the ioctl interface of /dev/kv_store is meant to promise for the   *)
(* four commands on one key (README.md "IOCTL Reference", the comments in  *)
(* kernel/kvlkm.c): INSERT adds a new key and never touches an existing    *)
(* one, UPDATE changes an existing key and never creates one, each in one  *)
(* instant.  A call may also end without effect (a fault while the         *)
(* arguments are copied, an unknown command, a walk).                      *)
(***************************************************************************)
EXTENDS KvBase

CONSTANTS ENOMEM, Capacities

VARIABLES
  map,    \* map[k]: the string stored for k, or NULL
  phase,  \* phase[t]: "idle", "called" or "ended"
  call,   \* call[t]: the command and its arguments
  reply   \* reply[t]: the status and value the command leaves in its message

vars == <<map, phase, call, reply>>

Init ==
  /\ map = [k \in Keys |-> NULL]
  /\ phase = [t \in Threads |-> "idle"]
  /\ call = [t \in Threads |-> NULL]
  /\ reply = [t \in Threads |-> NULL]

Begin(t) ==
  /\ phase[t] = "idle"
  /\ phase' = [phase EXCEPT ![t] = "called"]
  /\ \E c \in [cmd : {"INSERT", "UPDATE"}, key : Keys, value : Values]
              \cup [cmd : {"GET", "DELETE"}, key : Keys]
              \cup [cmd : {"COUNT", "OTHER"}]
              \cup [cmd : {"SNAPSHOT"}, capacity : Capacities] :
       call' = [call EXCEPT ![t] = c]
  /\ UNCHANGED <<map, reply>>

(* The command cmd of t ends with this status and this value. *)
End(t, cmd, status, value) ==
  /\ phase[t] = "called"
  /\ call[t].cmd = cmd
  /\ phase' = [phase EXCEPT ![t] = "ended"]
  /\ reply' = [reply EXCEPT ![t] = [status |-> status, value |-> value]]
  /\ UNCHANGED call

Present(t) == map[call[t].key] # NULL

Write(t) == map' = [map EXCEPT ![call[t].key] = call[t].value]

DoInsert(t) ==
  \/ End(t, "INSERT", 0, call[t].value) /\ ~ Present(t) /\ Write(t)
  \/ End(t, "INSERT", 1, NULL) /\ Present(t) /\ UNCHANGED map
  \/ End(t, "INSERT", -ENOMEM, NULL) /\ ~ Present(t) /\ UNCHANGED map

DoUpdate(t) ==
  \/ End(t, "UPDATE", 0, call[t].value) /\ Present(t) /\ Write(t)
  \/ End(t, "UPDATE", 1, NULL) /\ ~ Present(t) /\ UNCHANGED map
  \/ End(t, "UPDATE", -ENOMEM, NULL) /\ Present(t) /\ UNCHANGED map

DoGet(t) ==
  /\ \/ End(t, "GET", 0, map[call[t].key]) /\ Present(t)
     \/ End(t, "GET", 1, NULL) /\ ~ Present(t)
  /\ UNCHANGED map

DoDelete(t) ==
  /\ \/ End(t, "DELETE", 0, NULL) /\ Present(t)
     \/ End(t, "DELETE", 1, NULL) /\ ~ Present(t)
  /\ map' = [map EXCEPT ![call[t].key] = NULL]

(* The call ends without effect and without a reply. *)
EndWithout(t) ==
  /\ phase[t] = "called"
  /\ phase' = [phase EXCEPT ![t] = "ended"]
  /\ UNCHANGED <<map, call, reply>>

Return(t) ==
  /\ phase[t] = "ended"
  /\ phase' = [phase EXCEPT ![t] = "idle"]
  /\ call' = [call EXCEPT ![t] = NULL]
  /\ reply' = [reply EXCEPT ![t] = NULL]
  /\ UNCHANGED map

Next ==
  \E t \in Threads :
    \/ Begin(t)
    \/ DoInsert(t) \/ DoUpdate(t) \/ DoGet(t) \/ DoDelete(t) \/ EndWithout(t)
    \/ Return(t)

Spec == Init /\ [][Next]_vars

=============================================================================
