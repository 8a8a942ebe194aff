-------------------------- MODULE TaskBoard_proofs ---------------------------
(***************************************************************************)
(* Proofs about the operations of TaskBoard, for the modules that use it    *)
(* as the task store (TaskClaims implements it, TeamMonitor builds on it).  *)
(***************************************************************************)
EXTENDS TaskBoard, TLAPS

-----------------------------------------------------------------------------
(* The records the operations build *)

LEMMA NewRecords ==
    /\ Absent \in TaskRecord
    /\ NoClaim \in Claim
    /\ \A owner \in Worker \cup {Nobody}, deps \in SUBSET Task : NewTask(owner, deps) \in TaskRecord
  BY DEF Absent, TaskRecord, NoClaim, Claim, NewTask, TaskStatus

\* What the four writes make of a task record is a task record.
LEMMA WrittenRecords ==
    ASSUME NEW v \in TaskRecord
    PROVE  /\ \A w \in Worker \cup {Nobody}, k \in Nat : Claimed(v, w, k) \in TaskRecord
           /\ \A to \in Terminal : Finished(v, to) \in TaskRecord
           /\ Unclaimed(v) \in TaskRecord
           /\ \A deps \in SUBSET Task : Edited(v, deps) \in TaskRecord
<1> USE DEF TaskRecord, Claim, NoClaim, TaskStatus, Terminal
<1>1. ASSUME NEW w \in Worker \cup {Nobody}, NEW k \in Nat
      PROVE  Claimed(v, w, k) \in TaskRecord
  BY DEF Claimed
<1>2. ASSUME NEW to \in Terminal
      PROVE  Finished(v, to) \in TaskRecord
  BY DEF Finished
<1>3. Unclaimed(v) \in TaskRecord
  BY DEF Unclaimed
<1>4. ASSUME NEW deps \in SUBSET Task
      PROVE  Edited(v, deps) \in TaskRecord
  BY DEF Edited
<1>5. QED
  BY <1>1, <1>2, <1>3, <1>4

-----------------------------------------------------------------------------
(* The operations *)

LEMMA InitiallyOnBoard == BoardInit => BoardTypeOK /\ OneLiveClaim
  BY NewRecords DEF BoardInit, BoardTypeOK, OneLiveClaim, Absent

\* What an operation does to the files: it replaces one record, by one of five.
LEMMA OperationShape ==
    ASSUME BoardTypeOK, BoardNext
    PROVE  \E t \in Task :
              /\ \E r \in TaskRecord : task' = [task EXCEPT ![t] = r]
              /\ \E b \in BOOLEAN : expired' = [expired EXCEPT ![t] = b]
              /\ \E k \in Nat : issued' = [issued EXCEPT ![t] = k]
<1> USE DEF BoardTypeOK
<1>1. PICK t \in Task :
        \/ \E owner \in Worker \cup {Nobody}, deps \in SUBSET Task : CreateTask(t, owner, deps)
        \/ \E w \in Worker : GrantClaim(t, w)
        \/ \E to \in Terminal : Finish(t, to)
        \/ Unclaim(t)
        \/ \E deps \in SUBSET Task : EditTask(t, deps)
        \/ LeaseRunsOut(t)
  BY DEF BoardNext
<1> DEFINE Shape == /\ \E r \in TaskRecord : task' = [task EXCEPT ![t] = r]
                    /\ \E b \in BOOLEAN : expired' = [expired EXCEPT ![t] = b]
                    /\ \E k \in Nat : issued' = [issued EXCEPT ![t] = k]
<1>2. /\ task = [task EXCEPT ![t] = task[t]] /\ task[t] \in TaskRecord
      /\ expired = [expired EXCEPT ![t] = expired[t]] /\ expired[t] \in BOOLEAN
      /\ issued = [issued EXCEPT ![t] = issued[t]] /\ issued[t] \in Nat
  OBVIOUS
<1>3. ASSUME NEW owner \in Worker \cup {Nobody}, NEW deps \in SUBSET Task, CreateTask(t, owner, deps)
      PROVE  Shape
  BY <1>2, <1>3, NewRecords DEF CreateTask
<1>4. ASSUME NEW w \in Worker, GrantClaim(t, w)
      PROVE  Shape
  <2>1. issued[t] + 1 \in Nat
    BY <1>2
  <2>2. Claimed(task[t], w, issued[t] + 1) \in TaskRecord
    BY <1>2, <2>1, WrittenRecords
  <2>3. /\ task' = [task EXCEPT ![t] = Claimed(task[t], w, issued[t] + 1)]
        /\ expired' = [expired EXCEPT ![t] = FALSE]
        /\ issued' = [issued EXCEPT ![t] = issued[t] + 1]
    BY <1>4 DEF GrantClaim
  <2>4. QED
    BY <2>1, <2>2, <2>3
<1>5. ASSUME NEW to \in Terminal, Finish(t, to)
      PROVE  Shape
  <2>1. Finished(task[t], to) \in TaskRecord
    BY <1>2, WrittenRecords
  <2>2. QED
    BY <1>2, <1>5, <2>1 DEF Finish
<1>6. ASSUME Unclaim(t)
      PROVE  Shape
  <2>1. Unclaimed(task[t]) \in TaskRecord
    BY <1>2, WrittenRecords
  <2>2. QED
    BY <1>2, <1>6, <2>1 DEF Unclaim
<1>7. ASSUME NEW deps \in SUBSET Task, EditTask(t, deps)
      PROVE  Shape
  <2>1. Edited(task[t], deps) \in TaskRecord
    BY <1>2, WrittenRecords
  <2>2. QED
    BY <1>2, <1>7, <2>1 DEF EditTask
<1>8. ASSUME LeaseRunsOut(t)
      PROVE  Shape
  BY <1>2, <1>8 DEF LeaseRunsOut
<1>9. QED
  BY <1>1, <1>3, <1>4, <1>5, <1>6, <1>7, <1>8

LEMMA OperationsKeepTypes == BoardTypeOK /\ [BoardNext]_boardVars => BoardTypeOK'
<1> SUFFICES ASSUME BoardTypeOK, [BoardNext]_boardVars
             PROVE  BoardTypeOK'
  OBVIOUS
<1>1. CASE BoardNext
  BY <1>1, OperationShape DEF BoardTypeOK
<1>2. CASE UNCHANGED boardVars
  BY <1>2 DEF boardVars, BoardTypeOK
<1>3. QED
  BY <1>1, <1>2

\* An operation leaves one claim at most, the newest, and none on a task that is
\* not in progress.
LEMMA OperationsKeepClaims ==
    BoardTypeOK /\ OneLiveClaim /\ [BoardNext]_boardVars => OneLiveClaim'
<1> SUFFICES ASSUME BoardTypeOK, OneLiveClaim, BoardNext
             PROVE  OneLiveClaim'
  BY DEF boardVars, OneLiveClaim
<1>1. PICK t \in Task :
        \/ \E owner \in Worker \cup {Nobody}, deps \in SUBSET Task : CreateTask(t, owner, deps)
        \/ \E w \in Worker : GrantClaim(t, w)
        \/ \E to \in Terminal : Finish(t, to)
        \/ Unclaim(t)
        \/ \E deps \in SUBSET Task : EditTask(t, deps)
        \/ LeaseRunsOut(t)
  BY DEF BoardNext
<1> USE DEF BoardTypeOK, OneLiveClaim
<1>3. ASSUME NEW owner \in Worker \cup {Nobody}, NEW deps \in SUBSET Task, CreateTask(t, owner, deps)
      PROVE  OneLiveClaim'
  BY <1>3 DEF CreateTask, NewTask
<1>4. ASSUME NEW w \in Worker, GrantClaim(t, w)
      PROVE  OneLiveClaim'
  <2>1. /\ task'[t] = Claimed(task[t], w, issued[t] + 1)
        /\ issued'[t] = issued[t] + 1
        /\ \A u \in Task \ {t} : task'[u] = task[u] /\ issued'[u] = issued[u]
    BY <1>4 DEF GrantClaim
  <2>2. w # Nobody
    BY NobodyAssumption
  <2>3. QED
    BY <2>1, <2>2 DEF Claimed
<1>5. ASSUME NEW to \in Terminal, Finish(t, to)
      PROVE  OneLiveClaim'
  BY <1>5 DEF Finish, Finished, Terminal
<1>6. ASSUME Unclaim(t)
      PROVE  OneLiveClaim'
  BY <1>6 DEF Unclaim, Unclaimed
<1>7. ASSUME NEW deps \in SUBSET Task, EditTask(t, deps)
      PROVE  OneLiveClaim'
  BY <1>7 DEF EditTask, Edited
<1>8. ASSUME LeaseRunsOut(t)
      PROVE  OneLiveClaim'
  BY <1>8 DEF LeaseRunsOut
<1>9. QED
  BY <1>1, <1>3, <1>4, <1>5, <1>6, <1>7, <1>8

\* A completed task stays so.
LEMMA CompletedStays ==
    ASSUME BoardTypeOK, [BoardNext]_boardVars, NEW u \in Task, task[u].status = "completed"
    PROVE  task'[u].status = "completed"
<1>1. CASE UNCHANGED boardVars
  BY <1>1 DEF boardVars
<1>2. CASE BoardNext
  <2>1. PICK t \in Task :
        \/ \E owner \in Worker \cup {Nobody}, deps \in SUBSET Task : CreateTask(t, owner, deps)
        \/ \E w \in Worker : GrantClaim(t, w)
        \/ \E to \in Terminal : Finish(t, to)
        \/ Unclaim(t)
        \/ \E deps \in SUBSET Task : EditTask(t, deps)
        \/ LeaseRunsOut(t)
    BY <1>2 DEF BoardNext
  <2>2. QED
    BY <2>1 DEF BoardTypeOK, CreateTask, GrantClaim, Finish, Unclaim, EditTask, LeaseRunsOut,
                Absent, Claimable, Edited
<1>3. QED
  BY <1>1, <1>2

\* The atomic store keeps one live claim at most on every task.
THEOREM BoardClaimsAreExclusive == BoardSpec => []OneLiveClaim
<1> DEFINE Inv == BoardTypeOK /\ OneLiveClaim
<1>1. BoardInit => Inv
  BY InitiallyOnBoard
<1>2. Inv /\ [BoardNext]_boardVars => Inv'
  BY OperationsKeepTypes, OperationsKeepClaims
<1>3. QED
  BY <1>1, <1>2, PTL DEF BoardSpec

=============================================================================
