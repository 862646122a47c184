--------------------------- MODULE KvLkmRefinement ---------------------------
(***************************************************************************)
(* Proof that KvLkm implements KvStore for threads that share no keys, for *)
(* every number of them.  The handlers of INSERT and UPDATE look the key   *)
(* up and add it in two critical sections of the table, yet they are       *)
(* atomic because what the lookup has found stays true until the add       *)
(* (StillTrue).  Without DisjointKeys it does not, and run                 *)
(* lkm_double_insert has the counterexample.                               *)
(***************************************************************************)
EXTENDS KvLkmProofs

(* Every thread has keys of its own. *)
DisjointKeys == \A t, u \in Threads : t # u => KeysOf[t] \cap KeysOf[u] = {}

(* Every string fits the value field of a message. *)
AllFit == \A v \in Values : Fits(v)

(* What the lookup of an INSERT or an UPDATE has found is still so when the *)
(* entry is added.                                                          *)
StillTrue ==
  \A t \in Threads :
    /\ At(t, "add", "INSERT") => map[call[t].key] = NULL
    /\ At(t, "add", "UPDATE") => map[call[t].key] # NULL

RInv == IInv /\ StillTrue

-----------------------------------------------------------------------------

(* If every string fits, a lookup finds exactly the keys that are there. *)
LEMMA ExistsIsPresent ==
  ASSUME AllFit, TypeOK, NEW t \in Threads, call[t].key \in Keys
  PROVE  Exists(t) <=> map[call[t].key] # NULL
BY DEF AllFit, TypeOK, Exists, LookupCode

(* Of the handlers only Add and Delete write the store, and only at the key *)
(* of their thread.                                                         *)
LEMMA OwnWrites ==
  ASSUME IInv, [Next]_vars
  PROVE  \/ UNCHANGED map
         \/ \E t \in Threads : /\ Add(t) \/ Delete(t)
                               /\ call[t].key \in KeysOf[t] /\ call[t].key \in Keys
<1>1. CASE UNCHANGED vars
  BY <1>1 DEF vars
<1>2. ASSUME NEW t \in Threads, Add(t) \/ Delete(t)
      PROVE  call[t].key \in KeysOf[t] /\ call[t].key \in Keys
  BY <1>2, CallShape DEF Add, Delete, IInv, ControlOK, Control
<1>3. ASSUME NEW t \in Threads, Step(t), ~ Add(t), ~ Delete(t) PROVE UNCHANGED map
  BY <1>3 DEF Step, Dispatch, DispatchError, CopyOut, InsertLookup, UpdateLookup, AddNoMem,
              Get, CountBucket, Counted, Mismatch, SnapshotError, SnapshotAlloc,
              SnapshotBucket, SnapshotFull, SnapshotEnd
<1>4. ASSUME NEW t \in Threads, (\E c \in Calls(t) : Ioctl(t, c)) \/ Return(t)
      PROVE  UNCHANGED map
  BY <1>4 DEF Ioctl, Return
<1> QED
  BY <1>1, <1>2, <1>3, <1>4 DEF Next

(* A thread that reaches the add has just looked its key up, and one that   *)
(* was there already has not moved.                                         *)
LEMMA ReachAdd ==
  ASSUME IInv, [Next]_vars, NEW u \in Threads, pc'[u] = "add"
  PROVE  \/ pc[u] = "add" /\ call'[u] = call[u]
         \/ (InsertLookup(u) \/ UpdateLookup(u)) /\ call'[u] = call[u]
<1> USE DEF IInv, TypeOK, Goto, Leave, Reply
<1>1. CASE UNCHANGED vars
  BY <1>1 DEF vars
<1>2. ASSUME NEW t \in Threads, t # u,
             Step(t) \/ Return(t) \/ \E c \in Calls(t) : Ioctl(t, c)
      PROVE  pc'[u] = pc[u] /\ call'[u] = call[u]
  BY <1>2 DEF Step, Ioctl, Return, Dispatch, DispatchError, CopyOut, InsertLookup,
              UpdateLookup, Add, AddNoMem, Get, Delete, CountBucket, Counted, Mismatch,
              SnapshotError, SnapshotAlloc, SnapshotBucket, SnapshotFull, SnapshotEnd
<1>3. CASE Step(u)
  BY <1>3 DEF Step, Dispatch, DispatchError, CopyOut, InsertLookup, UpdateLookup, Add,
              AddNoMem, Get, Delete, CountBucket, Counted, Mismatch, SnapshotError,
              SnapshotAlloc, SnapshotBucket, SnapshotFull, SnapshotEnd
<1>4. CASE Return(u) \/ \E c \in Calls(u) : Ioctl(u, c)
  BY <1>4 DEF Return, Ioctl
<1> QED
  BY <1>1, <1>2, <1>3, <1>4 DEF Next

(* What a lookup has found stays true: no other thread writes its key. *)
LEMMA StillTrueStep ==
  ASSUME DisjointKeys, AllFit, RInv, [Next]_vars
  PROVE  StillTrue'
<1> SUFFICES ASSUME NEW u \in Threads, pc'[u] = "add"
             PROVE  /\ call'[u].cmd = "INSERT" => map'[call'[u].key] = NULL
                    /\ call'[u].cmd = "UPDATE" => map'[call'[u].key] # NULL
  BY DEF StillTrue, At
<1>1. call'[u] = call[u] /\ (pc[u] = "add" \/ InsertLookup(u) \/ UpdateLookup(u))
  BY ReachAdd DEF RInv
<1>2. call[u].key \in KeysOf[u] /\ call[u].key \in Keys
  BY <1>1, CallShape DEF RInv, IInv, ControlOK, Control, InsertLookup, UpdateLookup, At
<1>3. map'[call[u].key] = map[call[u].key]
  <2>1. ASSUME NEW t \in Threads, Add(t) \/ Delete(t), call[t].key \in KeysOf[t],
               call[t].key \in Keys
        PROVE  map'[call[u].key] = map[call[u].key]
    <3>1. t # u
      BY <2>1 DEF Add, Delete, Reply, Goto, RInv, IInv, TypeOK
    <3>2. call[t].key # call[u].key
      BY <1>2, <2>1, <3>1 DEF DisjointKeys
    <3> QED
      BY <1>2, <2>1, <3>2 DEF Add, Delete, RInv, IInv, TypeOK
  <2> QED
    BY <2>1, OwnWrites DEF RInv
<1>4. CASE pc[u] = "add"
  BY <1>1, <1>3, <1>4 DEF RInv, StillTrue, At
<1>5. CASE InsertLookup(u)
  BY <1>1, <1>2, <1>3, <1>5, ExistsIsPresent
  DEF InsertLookup, At, Reply, Goto, RInv, IInv, TypeOK
<1>6. CASE UpdateLookup(u)
  BY <1>1, <1>2, <1>3, <1>6, ExistsIsPresent
  DEF UpdateLookup, At, Reply, Goto, RInv, IInv, TypeOK
<1> QED
  BY <1>1, <1>4, <1>5, <1>6

(* The invariant of the refinement proof holds in every reachable state. *)
LEMMA RInvariance ==
  ASSUME DisjointKeys, AllFit
  PROVE  Spec => []RInv
<1>1. Init => RInv
  BY InitInv DEF RInv, StillTrue, Init, At
<1>2. RInv /\ [Next]_vars => RInv'
  BY TypeStep, ControlStep, CopyingStep, StillTrueStep DEF RInv, IInv
<1> QED
  BY <1>1, <1>2, PTL DEF Spec

-----------------------------------------------------------------------------
(* The steps of the handlers as steps of the store. *)

(* A step that moves t only changes the phase of t only. *)
LEMMA PhaseMoves ==
  ASSUME TypeOK, NEW t \in Threads, NEW l, NEW p,
         pc' = [pc EXCEPT ![t] = l], \A u \in Threads \ {t} : reply'[u] = reply[u],
         p = IF l = "idle" THEN "idle"
             ELSE IF l = "done" \/ (l = "copyout" /\ reply'[t] # NULL)
                  THEN "ended" ELSE "called"
  PROVE  PhaseOf' = [PhaseOf EXCEPT ![t] = p]
BY DEF PhaseOf, TypeOK

(* A step within a call that has had no effect yet is a stuttering step. *)
LEMMA Stutter ==
  ASSUME TypeOK, NEW t \in Threads, NEW l \in Labels, Goto(t, l),
         pc[t] \notin {"idle", "done", "copyout"}, l \notin {"idle", "done"},
         l = "copyout" => reply[t] = NULL, UNCHANGED <<map, call, reply>>
  PROVE  UNCHANGED Store!vars
<1>1. PhaseOf[t] = "called"
  BY DEF PhaseOf
<1>2. PhaseOf' = [PhaseOf EXCEPT ![t] = "called"]
  BY PhaseMoves DEF Goto
<1>3. PhaseOf' = PhaseOf
  BY <1>1, <1>2 DEF PhaseOf
<1> QED
  BY <1>3 DEF Store!vars

(* kv_ioctl returns before the command has had an effect. *)
LEMMA LeaveStep ==
  ASSUME TypeOK, NEW t \in Threads, NEW r, Leave(t, r),
         pc[t] \notin {"idle", "done"}, pc[t] = "copyout" => reply[t] = NULL,
         UNCHANGED <<map, call, reply>>
  PROVE  Store!EndWithout(t)
<1>1. PhaseOf[t] = "called"
  BY DEF PhaseOf
<1>2. PhaseOf' = [PhaseOf EXCEPT ![t] = "ended"]
  BY PhaseMoves DEF Leave, Goto
<1> QED
  BY <1>1, <1>2 DEF Store!EndWithout

(* A handler that sets the reply ends the command in the store. *)
LEMMA ReplyStep ==
  ASSUME TypeOK, NEW t \in Threads, NEW status \in {0, 1, -ENOMEM},
         NEW value \in Values \cup {NULL}, Reply(t, status, value),
         pc[t] \notin {"idle", "done", "copyout"}, UNCHANGED call
  PROVE  Store!End(t, call[t].cmd, status, value)
<1>1. PhaseOf[t] = "called"
  BY DEF PhaseOf
<1>2. /\ reply'[t] = [status |-> status, value |-> value]
      /\ \A u \in Threads \ {t} : reply'[u] = reply[u]
  BY DEF Reply, TypeOK
<1>3. reply'[t] # NULL
  BY <1>2, RepliesAssumption DEF Replies
<1>4. PhaseOf' = [PhaseOf EXCEPT ![t] = "ended"]
  <2>1. pc' = [pc EXCEPT ![t] = "copyout"]
    BY DEF Reply, Goto
  <2> QED
    BY <1>2, <1>3, <2>1, PhaseMoves
<1> QED
  BY <1>1, <1>4 DEF Reply, Store!End

(* The empty store is the initial state of the abstract one. *)
LEMMA InitRefines == Init => Store!Init
BY DEF Init, Store!Init, PhaseOf

(* Every step of the handlers is a step of the store or changes nothing     *)
(* that it shows.                                                           *)
LEMMA NextRefines ==
  ASSUME AllFit, RInv, [Next]_vars
  PROVE  [Store!Next]_(Store!vars)
<1> USE DEF RInv, IInv
<1>1. CASE UNCHANGED vars
  BY <1>1 DEF vars, PhaseOf, Store!vars
<1>2. ASSUME NEW t \in Threads, NEW c \in Calls(t), Ioctl(t, c) PROVE Store!Begin(t)
  <2>1. PhaseOf[t] = "idle"
    BY <1>2 DEF Ioctl, PhaseOf
  <2>2. PhaseOf' = [PhaseOf EXCEPT ![t] = "called"]
    BY <1>2, PhaseMoves DEF Ioctl, Goto
  <2>3. c \in [cmd : {"INSERT", "UPDATE"}, key : Keys, value : Values]
              \cup [cmd : {"GET", "DELETE"}, key : Keys]
              \cup [cmd : {"COUNT", "OTHER"}]
              \cup [cmd : {"SNAPSHOT"}, capacity : Capacities]
    BY KeysOfAssumption DEF Calls
  <2> QED
    BY <1>2, <2>1, <2>2, <2>3 DEF Ioctl, Store!Begin
<1>3. ASSUME NEW t \in Threads, Return(t) PROVE Store!Return(t)
  <2>1. PhaseOf[t] = "ended"
    BY <1>3 DEF Return, PhaseOf
  <2>2. PhaseOf' = [PhaseOf EXCEPT ![t] = "idle"]
    BY <1>3, PhaseMoves DEF Return, Goto, TypeOK
  <2> QED
    BY <1>3, <2>1, <2>2 DEF Return, Store!Return
<1>4. ASSUME NEW t \in Threads, Dispatch(t) PROVE UNCHANGED Store!vars
  BY <1>4, Stutter DEF Dispatch, Labels
<1>5. ASSUME NEW t \in Threads, DispatchError(t) PROVE Store!EndWithout(t)
  BY <1>5, LeaveStep DEF DispatchError
<1>6. ASSUME NEW t \in Threads, CopyOut(t)
      PROVE  Store!EndWithout(t) \/ UNCHANGED Store!vars
  <2>1. CASE reply[t] = NULL
    BY <1>6, <2>1, LeaveStep DEF CopyOut
  <2>2. CASE reply[t] # NULL
    <3>1. PhaseOf[t] = "ended"
      BY <1>6, <2>2 DEF CopyOut, PhaseOf
    <3>2. PhaseOf' = [PhaseOf EXCEPT ![t] = "ended"]
      BY <1>6, PhaseMoves DEF CopyOut, Leave, Goto
    <3>3. PhaseOf' = PhaseOf
      BY <3>1, <3>2 DEF PhaseOf
    <3> QED
      BY <1>6, <3>3 DEF CopyOut, Store!vars
  <2> QED
    BY <2>1, <2>2
<1>7. ASSUME NEW t \in Threads, InsertLookup(t)
      PROVE  Store!DoInsert(t) \/ UNCHANGED Store!vars
  <2>1. call[t].key \in Keys
    BY <1>7, CallShape DEF InsertLookup, At, ControlOK, Control
  <2>2. CASE Exists(t)
    <3>1. Store!End(t, "INSERT", 1, NULL)
      BY <1>7, <2>2, ReplyStep DEF InsertLookup, At
    <3> QED
      BY <1>7, <2>1, <2>2, <3>1, ExistsIsPresent DEF InsertLookup, Store!DoInsert, Store!Present
  <2>3. CASE ~ Exists(t)
    BY <1>7, <2>3, Stutter DEF InsertLookup, At, Labels
  <2> QED
    BY <2>2, <2>3
<1>8. ASSUME NEW t \in Threads, UpdateLookup(t)
      PROVE  Store!DoUpdate(t) \/ UNCHANGED Store!vars
  <2>1. call[t].key \in Keys
    BY <1>8, CallShape DEF UpdateLookup, At, ControlOK, Control
  <2>2. CASE ~ Exists(t)
    <3>1. Store!End(t, "UPDATE", 1, NULL)
      BY <1>8, <2>2, ReplyStep DEF UpdateLookup, At
    <3> QED
      BY <1>8, <2>1, <2>2, <3>1, ExistsIsPresent DEF UpdateLookup, Store!DoUpdate, Store!Present
  <2>3. CASE Exists(t)
    BY <1>8, <2>3, Stutter DEF UpdateLookup, At, Labels
  <2> QED
    BY <2>2, <2>3
<1>9. ASSUME NEW t \in Threads, Add(t) PROVE Store!DoInsert(t) \/ Store!DoUpdate(t)
  <2>1. call[t].cmd \in {"INSERT", "UPDATE"} /\ call[t].value \in Values
    BY <1>9, CallShape DEF Add, ControlOK, Control
  <2>2. Store!End(t, call[t].cmd, 0, call[t].value) /\ Store!Write(t)
    BY <1>9, <2>1, ReplyStep DEF Add, Store!Write
  <2> QED
    BY <1>9, <2>1, <2>2 DEF Add, StillTrue, At, Store!DoInsert, Store!DoUpdate, Store!Present
<1>10. ASSUME NEW t \in Threads, AddNoMem(t) PROVE Store!DoInsert(t) \/ Store!DoUpdate(t)
  <2>1. call[t].cmd \in {"INSERT", "UPDATE"}
    BY <1>10 DEF AddNoMem, ControlOK, Control
  <2>2. Store!End(t, call[t].cmd, -ENOMEM, NULL)
    BY <1>10, ReplyStep DEF AddNoMem
  <2> QED
    BY <1>10, <2>1, <2>2
    DEF AddNoMem, StillTrue, At, Store!DoInsert, Store!DoUpdate, Store!Present
<1>11. ASSUME NEW t \in Threads, Get(t) PROVE Store!DoGet(t)
  <2>1. call[t].cmd = "GET" /\ call[t].key \in Keys /\ map[call[t].key] \in Values \cup {NULL}
    BY <1>11, CallShape DEF Get, ControlOK, Control, TypeOK
  <2>2. CASE Exists(t)
    <3>1. Store!End(t, "GET", 0, map[call[t].key])
      BY <1>11, <2>1, <2>2, ReplyStep DEF Get
    <3> QED
      BY <1>11, <2>1, <2>2, <3>1, ExistsIsPresent DEF Get, Store!DoGet, Store!Present
  <2>3. CASE ~ Exists(t)
    <3>1. Store!End(t, "GET", 1, NULL)
      BY <1>11, <2>1, <2>3, ReplyStep DEF Get
    <3> QED
      BY <1>11, <2>1, <2>3, <3>1, ExistsIsPresent DEF Get, Store!DoGet, Store!Present
  <2> QED
    BY <2>2, <2>3
<1>12. ASSUME NEW t \in Threads, Delete(t) PROVE Store!DoDelete(t)
  <2>1. call[t].cmd = "DELETE"
    BY <1>12 DEF Delete, ControlOK, Control
  <2>2. CASE map[call[t].key] = NULL
    <3>1. Store!End(t, "DELETE", 1, NULL)
      BY <1>12, <2>1, <2>2, ReplyStep DEF Delete
    <3> QED
      BY <1>12, <2>2, <3>1 DEF Delete, Store!DoDelete, Store!Present
  <2>3. CASE map[call[t].key] # NULL
    <3>1. Store!End(t, "DELETE", 0, NULL)
      BY <1>12, <2>1, <2>3, ReplyStep DEF Delete
    <3> QED
      BY <1>12, <2>3, <3>1 DEF Delete, Store!DoDelete, Store!Present
  <2> QED
    BY <2>2, <2>3
<1>13. ASSUME NEW t \in Threads, CountBucket(t) \/ SnapshotBucket(t)
       PROVE  UNCHANGED Store!vars
  BY <1>13 DEF CountBucket, SnapshotBucket, PhaseOf, Store!vars
<1>14. ASSUME NEW t \in Threads,
              Counted(t) \/ SnapshotAlloc(t) \/ SnapshotFull(t) \/ SnapshotEnd(t)
       PROVE  UNCHANGED Store!vars
  BY <1>14, Stutter
  DEF Counted, SnapshotAlloc, SnapshotFull, SnapshotEnd, Labels, ControlOK, Control
<1>15. ASSUME NEW t \in Threads, Mismatch(t) \/ SnapshotError(t) PROVE Store!EndWithout(t)
  BY <1>15, LeaveStep DEF Mismatch, SnapshotError
<1> QED
  BY <1>1, <1>2, <1>3, <1>4, <1>5, <1>6, <1>7, <1>8, <1>9, <1>10, <1>11, <1>12, <1>13,
     <1>14, <1>15 DEF Next, Step, Store!Next

(* Threads that share no keys get the store they expect: for all constants, *)
(* every behaviour of the handlers is, seen through PhaseOf, a behaviour of *)
(* the store in which INSERT, UPDATE, GET and DELETE are atomic             *)
(* (kvlkm.c:324-417).                                                       *)
THEOREM AtomicForOwnKeys ==
  ASSUME DisjointKeys, AllFit
  PROVE  Spec => ImplementsStore
<1>1. RInv /\ [Next]_vars => [Store!Next]_(Store!vars)
  BY NextRefines
<1> QED
  BY <1>1, InitRefines, RInvariance, PTL DEF Spec, ImplementsStore, Store!Spec

==============================================================================
