-------------------------- MODULE TaskClaims_proofs --------------------------
(***************************************************************************)
(* Proofs about TaskClaims, for every set of tasks, workers and processes  *)
(* and every bound.                                                        *)
(***************************************************************************)
EXTENDS TaskClaims, TaskBoard_proofs

-----------------------------------------------------------------------------
(* The records the operations build *)

LEMMA RecordTypes ==
    /\ Absent \in TaskRecord
    /\ NoClaim \in Claim
    /\ NoSnapshot \in Snapshot
    /\ NoCall \notin Call
  BY DEF Absent, TaskRecord, NoClaim, Claim, NoSnapshot, Snapshot, NoCall, Call,
         TaskStatus

\* The arguments a call is started with.
LEMMA CallTypes ==
    ASSUME NEW t \in Task, NEW op \in {"claim", "finish", "release", "reclaim", "edit"}
    PROVE  /\ NewCall(op, t) \in Call
           /\ NewCall(op, t).op = op
  BY DEF NewCall, Call, Terminal

LEMMA CallFields ==
    ASSUME NEW c \in Call
    PROVE  /\ \A k \in Nat : /\ [c EXCEPT !.version = k] \in Call
                             /\ [c EXCEPT !.version = k].worker = c.worker
                             /\ [c EXCEPT !.version = k].op = c.op
           /\ \A k \in Nat : /\ [c EXCEPT !.token = k] \in Call
                             /\ [c EXCEPT !.token = k].op = c.op
           /\ \A to \in Terminal : /\ [c EXCEPT !.to = to] \in Call
                                   /\ [c EXCEPT !.to = to].op = c.op
           /\ \A w \in Worker : /\ [c EXCEPT !.worker = w] \in Call
                                /\ [c EXCEPT !.worker = w].worker = w
                                /\ [c EXCEPT !.worker = w].op = c.op
           /\ \A deps \in SUBSET Task : /\ [c EXCEPT !.deps = deps] \in Call
                                        /\ [c EXCEPT !.deps = deps].op = c.op
  BY DEF Call

-----------------------------------------------------------------------------
(* Types, and: a running process has its arguments *)

Typing == TypeOK /\ Calling

LEMMA StartTyping ==
    ASSUME Typing, NEW p \in Proc, NEW c \in Call, Start(p, c),
           c.op = "claim" => c.worker \in Worker
    PROVE  Typing'
  BY DEF Typing, TypeOK, Calling, Start, boardVars, logVars, snapVars, Label

\* What a running call refers to.
LEMMA RunningCall ==
    ASSUME Typing, NEW p \in Proc, pc[p] # "idle"
    PROVE  /\ call[p] \in Call
           /\ call[p].task \in Task
           /\ call[p].worker \in Worker \cup {Nobody}
           /\ call[p].to \in Terminal
           /\ call[p].deps \in SUBSET Task
           /\ task[call[p].task] \in TaskRecord
           /\ task[call[p].task].deps \in SUBSET Task
           /\ issued[call[p].task] \in Nat
           /\ seen[p] \in TaskRecord
<1>1. call[p] \in Call /\ seen[p] \in TaskRecord
  BY DEF Typing, TypeOK, Calling
<1>2. /\ call[p].task \in Task
      /\ call[p].worker \in Worker \cup {Nobody}
      /\ call[p].to \in Terminal
      /\ call[p].deps \in SUBSET Task
  BY <1>1 DEF Call
<1>3. task[call[p].task] \in TaskRecord /\ issued[call[p].task] \in Nat
  BY <1>2 DEF Typing, TypeOK
<1>4. task[call[p].task].deps \in SUBSET Task
  BY <1>3 DEF TaskRecord
<1>5. QED
  BY <1>1, <1>2, <1>3, <1>4

LEMMA LockStepTyping ==
    ASSUME Typing, NEW p \in Proc,
           \/ Acquire(p) \/ GiveUp(p) \/ ReadDependency(p) \/ Unlock(p)
           \/ RecoverLock(p) \/ Crash(p)
    PROVE  Typing'
<1> USE RecordTypes DEF Typing, TypeOK, Calling, boardVars, logVars, snapVars,
        callVars, Label, Return
<1>1. CASE Acquire(p)
  <2>1. /\ call[p].task \in Task
        /\ task[call[p].task] \in TaskRecord
        /\ task[call[p].task].deps \in SUBSET Task
    BY <1>1, RunningCall DEF Acquire
  <2>2. CASE Allowed(call[p], task[call[p].task])
    BY <1>1, <2>1, <2>2 DEF Acquire
  <2>3. CASE ~Allowed(call[p], task[call[p].task])
    BY <1>1, <2>1, <2>3 DEF Acquire
  <2>4. QED
    BY <2>2, <2>3
<1>2. CASE GiveUp(p)
  BY <1>2 DEF GiveUp
<1>3. CASE ReadDependency(p)
  BY <1>3 DEF ReadDependency
<1>4. CASE Unlock(p)
  <2>1. pc[p] = "unlock" /\ lock' = [lock EXCEPT ![call[p].task] = Free]
    BY <1>4 DEF Unlock
  <2>2. lock' \in [Task -> Proc \cup {Free, Orphan}]
    BY <2>1, RunningCall
  <2>3. CASE pc' = [pc EXCEPT ![p] = "readSnapshot"] /\ UNCHANGED <<call, seen, unread>>
    BY <1>4, <2>1, <2>2, <2>3 DEF Unlock
  <2>4. CASE Return(p)
    BY <1>4, <2>1, <2>2, <2>4 DEF Unlock
  <2>5. QED
    BY <1>4, <2>3, <2>4 DEF Unlock
<1>5. CASE RecoverLock(p)
  BY <1>5 DEF RecoverLock
<1>6. CASE Crash(p)
  BY <1>6 DEF Crash
<1>7. QED
  BY <1>1, <1>2, <1>3, <1>4, <1>5, <1>6

\* A write puts a record in the file of the task, on top of the copy.
LEMMA WriteShape ==
    ASSUME Typing, NEW p \in Proc,
           \/ WriteClaim(p) \/ WriteFinish(p) \/ WriteUnclaim(p) \/ WriteEdit(p)
    PROVE  LET t == call[p].task
           IN /\ pc[p] = "check"
              /\ unread[p] = {}
              /\ \E r \in TaskRecord : task' = [task EXCEPT ![t] = r]
              /\ pc' = [pc EXCEPT ![p] = IF call[p].op = "finish"
                                         THEN "announce" ELSE "unlock"]
              /\ UNCHANGED <<lock, call, seen, unread, completions, failures,
                             snapshot, copy>>
              /\ issued' = [issued EXCEPT ![t] = IF call[p].op = "claim"
                                                 THEN @ + 1 ELSE @]
              /\ expired' = [expired EXCEPT ![t] = IF call[p].op = "edit"
                                                   THEN @ ELSE FALSE]
<1> USE DEF Write, logVars, snapVars, FreshLease
<1>1. pc[p] = "check"
  BY DEF WriteClaim, WriteFinish, WriteUnclaim, WriteEdit
<1>2. /\ call[p].task \in Task /\ call[p].worker \in Worker \cup {Nobody}
      /\ call[p].to \in Terminal /\ call[p].deps \in SUBSET Task
      /\ issued[call[p].task] \in Nat /\ seen[p] \in TaskRecord
  BY <1>1, RunningCall
<1>3. /\ issued \in [Task -> Nat]
      /\ expired \in [Task -> BOOLEAN]
  BY DEF Typing, TypeOK
<1>4. CASE WriteClaim(p)
  <2>1. issued[call[p].task] + 1 \in Nat
    BY <1>2
  <2>2. Claimed(seen[p], call[p].worker, issued[call[p].task] + 1) \in TaskRecord
    BY <1>2, <2>1, WrittenRecords
  <2>3. QED
    BY <1>1, <1>2, <1>3, <1>4, <2>2 DEF WriteClaim
<1>5. CASE WriteFinish(p)
  <2>1. Finished(seen[p], call[p].to) \in TaskRecord
    BY <1>2, WrittenRecords
  <2>2. QED
    BY <1>1, <1>2, <1>3, <1>5, <2>1 DEF WriteFinish
<1>6. CASE WriteUnclaim(p)
  <2>1. Unclaimed(seen[p]) \in TaskRecord
    BY <1>2, WrittenRecords
  <2>2. QED
    BY <1>1, <1>2, <1>3, <1>6, <2>1 DEF WriteUnclaim
<1>7. CASE WriteEdit(p)
  <2>1. Edited(seen[p], call[p].deps) \in TaskRecord
    BY <1>2, WrittenRecords
  <2>2. QED
    BY <1>1, <1>2, <1>3, <1>7, <2>1 DEF WriteEdit
<1>8. QED
  BY <1>4, <1>5, <1>6, <1>7

LEMMA WriteTyping ==
    ASSUME Typing, NEW p \in Proc,
           \/ WriteClaim(p) \/ WriteFinish(p) \/ WriteUnclaim(p) \/ WriteEdit(p)
    PROVE  Typing'
<1> DEFINE t == call[p].task
<1>1. pc[p] = "check" /\ t \in Task
  BY WriteShape, RunningCall
<1>2. task' \in [Task -> TaskRecord]
  <2>1. PICK r \in TaskRecord : task' = [task EXCEPT ![t] = r]
    BY WriteShape
  <2>2. task \in [Task -> TaskRecord]
    BY DEF Typing, TypeOK
  <2>3. QED
    BY <2>1, <2>2
<1>3. expired' \in [Task -> BOOLEAN]
  BY <1>1, WriteShape DEF Typing, TypeOK
<1>4. issued' \in [Task -> Nat]
  <2>1. issued \in [Task -> Nat] /\ issued[t] + 1 \in Nat
    BY <1>1 DEF Typing, TypeOK
  <2>2. QED
    BY <1>1, <2>1, WriteShape
<1>5. pc' \in [Proc -> Label]
  BY WriteShape DEF Typing, TypeOK, Label
<1>6. Calling'
  BY <1>1, WriteShape DEF Typing, TypeOK, Calling
<1>7. QED
  BY <1>2, <1>3, <1>4, <1>5, <1>6, WriteShape DEF Typing, TypeOK

LEMMA LogTyping ==
    ASSUME Typing, NEW p \in Proc,
           Announce(p) \/ ReadSnapshot(p) \/ WriteSnapshot(p)
    PROVE  Typing'
<1> USE RecordTypes DEF boardVars, logVars, snapVars
<1>1. CASE Announce(p)
  <2>1. call[p].task \in Task
    BY <1>1, RunningCall DEF Announce
  <2>2. completions' \in [Task -> Nat] /\ failures' \in [Task -> Nat]
    BY <1>1, <2>1 DEF Announce, Typing, TypeOK
  <2>3. QED
    BY <1>1, <2>2 DEF Announce, Typing, TypeOK, Calling, Label
<1>2. CASE ReadSnapshot(p)
  BY <1>2 DEF ReadSnapshot, Typing, TypeOK, Calling, Label
<1>3. CASE WriteSnapshot(p)
  <2>1. call[p].task \in Task /\ copy[p] \in Snapshot
    BY <1>3, RunningCall DEF WriteSnapshot, Typing, TypeOK
  <2>2. snapshot' \in Snapshot
    BY <1>3, <2>1 DEF WriteSnapshot, Snapshot
  <2>3. QED
    BY <1>3, <2>2 DEF WriteSnapshot, Typing, TypeOK, Calling, Label, Return
<1>4. QED
  BY <1>1, <1>2, <1>3

LEMMA EnvironmentTyping ==
    ASSUME Typing,
           (\E d \in Drafts : Create(d)) \/ (\E t \in Task : LeaseExpires(t))
    PROVE  Typing'
<1> USE DEF callVars, logVars, snapVars
<1>1. CASE \E d \in Drafts : Create(d)
  <2>1. PICK d \in Drafts : Create(d)
    BY <1>1
  <2>2. NewTask(d.owner, d.deps) \in TaskRecord
    BY BoundAssumption DEF NewTask, TaskRecord, TaskStatus, NoClaim, Claim
  <2>3. QED
    BY <2>1, <2>2 DEF Create, CreateTask, Typing, TypeOK, Calling
<1>2. CASE \E t \in Task : LeaseExpires(t)
  BY <1>2 DEF LeaseExpires, LeaseRunsOut, Typing, TypeOK, Calling
<1>3. QED
  BY <1>1, <1>2

LEMMA NewCallsTyping ==
    ASSUME Typing, NEW p \in Proc, NewCalls(p)
    PROVE  \E c \in Call : /\ Start(p, c)
                           /\ c.op = "claim" => c.worker \in Worker
<1>1. PICK t \in Task :
         \/ \E w \in Worker : CallClaim(p, t, w)
         \/ CallFinish(p, t) \/ CallRelease(p, t) \/ CallReclaim(p, t) \/ CallEdit(p, t)
  BY DEF NewCalls
<1>2. task[t] \in TaskRecord /\ task[t].version \in Nat /\ issued[t] \in Nat
  BY DEF Typing, TypeOK, TaskRecord
<1>3. CASE \E w \in Worker : CallClaim(p, t, w)
  <2>1. PICK w \in Worker, k \in {0, task[t].version} :
           LET c == [NewCall("claim", t) EXCEPT !.worker = w]
           IN Start(p, [c EXCEPT !.version = k])
    BY <1>3 DEF CallClaim
  <2>2. k \in Nat
    BY <1>2
  <2> DEFINE c == [NewCall("claim", t) EXCEPT !.worker = w]
  <2>3. c \in Call /\ c.op = "claim" /\ c.worker \in Worker
    BY CallTypes, CallFields
  <2>4. Start(p, [c EXCEPT !.version = k])
    BY <2>1
  <2> HIDE DEF c
  <2> DEFINE claiming == [c EXCEPT !.version = k]
  <2>5. /\ Start(p, claiming) /\ claiming \in Call
        /\ claiming.worker \in Worker
    BY <2>2, <2>3, <2>4, CallFields
  <2> HIDE DEF claiming
  <2>6. QED
    BY <2>5
<1>4. CASE CallFinish(p, t)
  <2>1. PICK k \in 1..issued[t], to \in Terminal :
           LET c == [NewCall("finish", t) EXCEPT !.token = k]
           IN Start(p, [c EXCEPT !.to = to])
    BY <1>4 DEF CallFinish
  <2>2. k \in Nat
    BY <1>2
  <2> DEFINE c == [NewCall("finish", t) EXCEPT !.token = k]
  <2>3. c \in Call /\ c.op = "finish"
    BY <2>2, CallTypes, CallFields
  <2>4. Start(p, [c EXCEPT !.to = to])
    BY <2>1
  <2> HIDE DEF c
  <2> DEFINE finishing == [c EXCEPT !.to = to]
  <2>5. Start(p, finishing) /\ finishing \in Call /\ finishing.op = "finish"
    BY <2>3, <2>4, CallFields
  <2> HIDE DEF finishing
  <2>6. QED
    BY <2>5
<1>5. CASE CallRelease(p, t)
  <2>1. PICK k \in 1..issued[t] : Start(p, [NewCall("release", t) EXCEPT !.token = k])
    BY <1>5 DEF CallRelease
  <2>2. k \in Nat
    BY <1>2
  <2> DEFINE c == [NewCall("release", t) EXCEPT !.token = k]
  <2>3. c \in Call /\ c.op = "release"
    BY <2>2, CallTypes, CallFields
  <2>4. QED
    BY <2>1, <2>3
<1>6. CASE CallReclaim(p, t)
  BY <1>6, CallTypes DEF CallReclaim
<1>7. CASE CallEdit(p, t)
  <2>1. PICK deps \in DepChoices : Start(p, [NewCall("edit", t) EXCEPT !.deps = deps])
    BY <1>7 DEF CallEdit
  <2>2. deps \in SUBSET Task
    BY <2>1, BoundAssumption
  <2>3. QED
    BY <2>1, <2>2, CallTypes, CallFields
<1>8. QED
  BY <1>1, <1>3, <1>4, <1>5, <1>6, <1>7

LEMMA InitTyping == Init => Typing
<1> SUFFICES ASSUME Init
             PROVE  Typing
  OBVIOUS
<1>1. /\ task \in [Task -> TaskRecord] /\ issued \in [Task -> Nat]
      /\ seen \in [Proc -> TaskRecord] /\ copy \in [Proc -> Snapshot]
      /\ snapshot \in Snapshot
  BY RecordTypes DEF Init, BoardInit
<1>2. expired \in [Task -> BOOLEAN]
  BY DEF Init, BoardInit
<1>3. QED
  BY <1>1, <1>2 DEF Init, Typing, TypeOK, Calling, Label

LEMMA TypingKept == Typing /\ [Next]_vars => Typing'
<1> SUFFICES ASSUME Typing, [Next]_vars
             PROVE  Typing'
  OBVIOUS
<1>1. CASE \E d \in Drafts : Create(d)
  BY <1>1, EnvironmentTyping
<1>2. CASE \E t \in Task : LeaseExpires(t)
  BY <1>2, EnvironmentTyping
<1>3. ASSUME NEW p \in Proc, NewCalls(p)
      PROVE  Typing'
  BY <1>3, NewCallsTyping, StartTyping
<1>4. ASSUME NEW p \in Proc, Step(p) \/ RecoverLock(p) \/ Crash(p)
      PROVE  Typing'
  BY <1>4, LockStepTyping, WriteTyping, LogTyping DEF Step
<1>5. CASE UNCHANGED vars
  BY <1>5 DEF vars, Typing, TypeOK, Calling
<1>6. QED
  BY <1>1, <1>2, <1>3, <1>4, <1>5 DEF Next

\* The record of every variable keeps its shape in every reachable state: what
\* the handlers of tasks.ts persist is always a task the normalizer accepts.
THEOREM TypeCorrect == Spec => []TypeOK
<1>1. Typing => TypeOK
  BY DEF Typing
<1>2. QED
  BY <1>1, InitTyping, TypingKept, PTL DEF Spec

-----------------------------------------------------------------------------
(* The inductive invariant *)

\* Steps that touch neither the task files nor the event log: of the processes
\* in the section only p may have come, gone on or left.
LEMMA SectionSteps ==
    ASSUME IInv, NEW p \in Proc,
           \/ \E c \in Call : Start(p, c)
           \/ GiveUp(p) \/ Unlock(p) \/ ReadSnapshot(p) \/ WriteSnapshot(p)
           \/ RecoverLock(p) \/ Crash(p)
    PROVE  /\ Holding' /\ Reading' /\ Announcing'
           /\ OneLiveClaim' /\ EventsMatchOutcome'
<1> USE DEF boardVars, callVars, logVars, snapVars, Return
<1>1. /\ UNCHANGED <<task, expired, issued, completions, failures>>
      /\ \A q \in Proc \ {p} : /\ pc'[q] = pc[q] /\ call'[q] = call[q]
                               /\ seen'[q] = seen[q] /\ unread'[q] = unread[q]
      /\ pc'[p] \notin Locked
  BY DEF IInv, TypeOK, Start, GiveUp, Unlock, ReadSnapshot, WriteSnapshot, RecoverLock,
         Crash, Locked
<1>2. \A q \in Proc \ {p} : pc[q] \in Locked => lock'[call[q].task] = q
  <2> SUFFICES ASSUME NEW q \in Proc \ {p}, pc[q] \in Locked
               PROVE  lock'[call[q].task] = q
    OBVIOUS
  <2>1. lock[call[q].task] = q /\ q \notin {Free, Orphan}
    BY LockAssumption DEF IInv, Holding
  <2>2. CASE \/ \E c \in Call : Start(p, c)
             \/ GiveUp(p) \/ ReadSnapshot(p) \/ WriteSnapshot(p)
    BY <2>1, <2>2 DEF Start, GiveUp, ReadSnapshot, WriteSnapshot
  <2>3. CASE RecoverLock(p)
    BY <2>1, <2>3 DEF RecoverLock
  <2>4. CASE Unlock(p) \/ Crash(p)
    <3>1. /\ pc[p] \in Locked => lock[call[p].task] = p
          /\ lock \in [Task -> Proc \cup {Free, Orphan}]
          /\ call[q].task \in Task
      BY RunningCall DEF IInv, Typing, TypeOK, Holding, Locked
    <3>2. CASE Unlock(p)
      BY <2>1, <3>1, <3>2 DEF Unlock, Locked
    <3>3. CASE Crash(p)
      BY <2>1, <3>1, <3>3 DEF Crash
    <3>4. QED
      BY <2>4, <3>2, <3>3
  <2>5. QED
    BY <2>2, <2>3, <2>4
<1>3. Holding'
  BY <1>1, <1>2 DEF IInv, Holding
<1>4. Reading'
  BY <1>1 DEF IInv, Reading, Locked
<1>5. Announcing'
  BY <1>1 DEF IInv, Announcing, Locked
<1>6. OneLiveClaim' /\ EventsMatchOutcome'
  BY <1>1 DEF IInv, OneLiveClaim, EventsMatchOutcome
<1>7. QED
  BY <1>3, <1>4, <1>5, <1>6

LEMMA AcquireStep ==
    ASSUME IInv, NEW p \in Proc, Acquire(p)
    PROVE  /\ Holding' /\ Reading' /\ Announcing'
           /\ OneLiveClaim' /\ EventsMatchOutcome'
<1> DEFINE t == call[p].task
<1> USE DEF boardVars, logVars, snapVars
<1>1. /\ t \in Task /\ call[p] \in Call /\ task[t] \in TaskRecord
      /\ task[t].deps \in SUBSET Task /\ lock[t] = Free
  BY RunningCall DEF IInv, Typing, Acquire
<1>2. /\ UNCHANGED <<task, expired, issued, completions, failures, call>>
      /\ \A q \in Proc \ {p} : /\ pc'[q] = pc[q] /\ call'[q] = call[q]
                               /\ seen'[q] = seen[q] /\ unread'[q] = unread[q]
      /\ pc'[p] \in {"check", "unlock"}
      /\ lock' = [lock EXCEPT ![t] = p]
  BY DEF IInv, TypeOK, Acquire
<1>3. Holding'
  BY <1>1, <1>2, LockAssumption DEF IInv, TypeOK, Holding, Locked
<1>4. Announcing'
  BY <1>2 DEF IInv, Announcing
<1>5. ASSUME pc'[p] = "check"
      PROVE  /\ Allowed(call[p], task[t])
             /\ seen'[p] = task[t]
             /\ unread'[p] = IF call[p].op = "claim" THEN task[t].deps ELSE {}
  BY <1>5 DEF IInv, TypeOK, Acquire
<1>6. ASSUME pc'[p] = "check"
      PROVE  /\ task[t] # Absent
             /\ call[p].op \in {"finish", "release", "reclaim"} =>
                   task[t].status = "in_progress"
             /\ call[p].op \in {"finish", "release"} => task[t].claim.token = call[p].token
             /\ call[p].op = "reclaim" => expired[t]
             /\ call[p].op = "claim" => Claimable(task[t], call[p].worker, expired[t])
  <2>1. Allowed(call[p], task[t])
    BY <1>5, <1>6
  <2>2. task[t].claim # NoClaim => task[t].status = "in_progress"
    BY <1>1 DEF IInv, OneLiveClaim
  <2>3. Absent.status = "absent"
    BY DEF Absent
  <2>4. CASE call[p].op = "claim"
    BY <2>1, <2>3, <2>4 DEF Allowed, Claimable
  <2>5. CASE call[p].op \in {"finish", "release"}
    BY <2>1, <2>2, <2>3, <2>5 DEF Allowed, HoldsLease
  <2>6. CASE call[p].op = "reclaim"
    BY <2>1, <2>2, <2>3, <2>6 DEF Allowed
  <2>7. CASE call[p].op = "edit"
    BY <2>1, <2>7 DEF Allowed
  <2>8. QED
    BY <1>1, <2>4, <2>5, <2>6, <2>7 DEF Call
<1>7. Reading'
  BY <1>2, <1>5, <1>6 DEF IInv, Reading
<1>8. OneLiveClaim' /\ EventsMatchOutcome'
  BY <1>2 DEF IInv, OneLiveClaim, EventsMatchOutcome
<1>9. QED
  BY <1>3, <1>4, <1>7, <1>8

LEMMA ReadDependencyStep ==
    ASSUME IInv, NEW p \in Proc, ReadDependency(p)
    PROVE  /\ Holding' /\ Reading' /\ Announcing'
           /\ OneLiveClaim' /\ EventsMatchOutcome'
<1> USE DEF boardVars, logVars, snapVars
<1>1. PICK d \in unread[p] :
         /\ unread' = [unread EXCEPT ![p] = @ \ {d}]
         /\ pc' = [pc EXCEPT ![p] = IF task[d].status = "completed"
                                    THEN "check" ELSE "unlock"]
         /\ pc[p] = "check"
         /\ UNCHANGED <<task, expired, issued, lock, call, seen, completions, failures>>
  BY DEF ReadDependency, Done
<1>2. Holding' /\ Announcing'
  BY <1>1 DEF IInv, TypeOK, Holding, Announcing, Locked
<1>3. Reading'
  BY <1>1 DEF IInv, TypeOK, Reading
<1>4. OneLiveClaim' /\ EventsMatchOutcome'
  BY <1>1 DEF IInv, OneLiveClaim, EventsMatchOutcome
<1>5. QED
  BY <1>2, <1>3, <1>4

LEMMA AnnounceStep ==
    ASSUME IInv, NEW p \in Proc, Announce(p)
    PROVE  /\ Holding' /\ Reading' /\ Announcing'
           /\ OneLiveClaim' /\ EventsMatchOutcome'
<1> DEFINE t == call[p].task
<1> USE DEF boardVars, logVars, snapVars
<1>1. /\ t \in Task /\ call[p].to \in Terminal
      /\ task[t].status = call[p].to /\ completions[t] = 0 /\ failures[t] = 0
      /\ lock[t] = p
  BY RunningCall DEF IInv, Typing, Announce, Announcing, Holding, Locked
<1>2. /\ pc[p] = "announce" /\ pc' = [pc EXCEPT ![p] = "unlock"]
      /\ UNCHANGED <<task, expired, issued, lock, call, seen, unread>>
      /\ completions' = [completions EXCEPT ![t] = IF call[p].to = "completed"
                                                   THEN 1 ELSE 0]
      /\ failures' = [failures EXCEPT ![t] = IF call[p].to = "failed" THEN 1 ELSE 0]
  BY <1>1 DEF Announce, IInv, TypeOK
<1>3. Holding' /\ Reading'
  BY <1>2 DEF IInv, TypeOK, Holding, Reading, Locked
<1>4. Announcing'
  BY <1>1, <1>2 DEF IInv, TypeOK, Announcing, Holding, Locked
<1>5. EventsMatchOutcome'
  BY <1>1, <1>2 DEF IInv, TypeOK, EventsMatchOutcome, Terminal
<1>6. OneLiveClaim'
  BY <1>2 DEF IInv, OneLiveClaim
<1>7. QED
  BY <1>3, <1>4, <1>5, <1>6

LEMMA CreateStep ==
    ASSUME IInv, NEW d \in Drafts, Create(d)
    PROVE  /\ Holding' /\ Reading' /\ Announcing'
           /\ OneLiveClaim' /\ EventsMatchOutcome'
<1> DEFINE t == d.task
<1> USE DEF callVars, logVars, snapVars
<1>1. /\ t \in Task /\ task[t] = Absent
      /\ task' = [task EXCEPT ![t] = NewTask(d.owner, d.deps)]
      /\ UNCHANGED <<expired, issued, lock, pc, call, seen, unread, completions, failures>>
  BY BoundAssumption DEF Create, CreateTask
<1>2. /\ Absent.status = "absent"
      /\ NewTask(d.owner, d.deps).status = "pending"
      /\ NewTask(d.owner, d.deps).claim = NoClaim
  BY DEF Absent, NewTask
<1>3. Holding'
  BY <1>1 DEF IInv, Holding
<1>4. Reading'
  BY <1>1, <1>2 DEF IInv, TypeOK, Calling, Reading
<1>5. Announcing'
  BY <1>1, <1>2, RunningCall DEF IInv, Typing, TypeOK, Announcing, Terminal
<1>6. OneLiveClaim'
  BY <1>1, <1>2 DEF IInv, TypeOK, OneLiveClaim
<1>7. EventsMatchOutcome'
  BY <1>1, <1>2 DEF IInv, TypeOK, EventsMatchOutcome
<1>8. QED
  BY <1>3, <1>4, <1>5, <1>6, <1>7

LEMMA LeaseStep ==
    ASSUME IInv, NEW t \in Task, LeaseExpires(t)
    PROVE  /\ Holding' /\ Reading' /\ Announcing'
           /\ OneLiveClaim' /\ EventsMatchOutcome'
<1> USE DEF callVars, logVars, snapVars
<1>1. /\ UNCHANGED <<task, issued, lock, pc, call, seen, unread, completions, failures>>
      /\ expired' = [expired EXCEPT ![t] = TRUE]
  BY DEF LeaseExpires, LeaseRunsOut
<1>2. Reading'
  <2> SUFFICES ASSUME NEW p \in Proc, pc[p] = "check"
               PROVE  /\ call[p].op = "reclaim" => expired'[call[p].task]
                      /\ call[p].op = "claim" =>
                            Claimable(seen[p], call[p].worker, expired'[call[p].task])
    BY <1>1 DEF IInv, Reading
  <2>1. /\ call[p].op = "reclaim" => expired[call[p].task]
        /\ call[p].op = "claim" =>
              Claimable(seen[p], call[p].worker, expired[call[p].task])
    BY DEF IInv, Reading
  <2>2. expired[call[p].task] => expired'[call[p].task]
    BY <1>1 DEF IInv, TypeOK
  <2>3. QED
    BY <2>1, <2>2 DEF Claimable
<1>3. QED
  BY <1>1, <1>2 DEF IInv, Holding, Announcing, OneLiveClaim, EventsMatchOutcome

-----------------------------------------------------------------------------
(* The four writes *)

\* What a write does to the task, given an up-to-date copy: the version moves on
\* by one, an outcome stays, and the record carries a claim exactly if the write
\* left it in progress.
LEMMA WriteEffect ==
    ASSUME IInv, NEW p \in Proc,
           \/ WriteClaim(p) \/ WriteFinish(p) \/ WriteUnclaim(p) \/ WriteEdit(p)
    PROVE  LET t == call[p].task
               v == task[t]
               r == task'[t]
           IN /\ t \in Task
              /\ lock[t] = p
              /\ task' = [task EXCEPT ![t] = r]
              /\ r.version = v.version + 1
              /\ v.status \in Terminal => r.status = v.status /\ r.owner = v.owner
              /\ r.status = "in_progress" =>
                    r.owner # Nobody /\ r.claim = [owner |-> r.owner, token |-> issued'[t]]
              /\ r.status # "in_progress" => r.claim = NoClaim
              /\ call[p].op = "finish" =>
                    v.status = "in_progress" /\ r.status = call[p].to
<1> DEFINE t == call[p].task
           v == task[t]
           r == task'[t]
<1>1. /\ t \in Task /\ pc[p] = "check" /\ v \in TaskRecord /\ seen[p] = v
      /\ call[p].op = "claim" => call[p].worker \in Worker
      /\ lock[t] = p
      /\ task' = [task EXCEPT ![t] = r]
  <2>1. Typing
    BY DEF IInv, Typing
  <2>2. pc[p] = "check" /\ \E x \in TaskRecord : task' = [task EXCEPT ![t] = x]
    BY <2>1, WriteShape
  <2>3. t \in Task /\ v \in TaskRecord
    BY <2>1, <2>2, RunningCall
  <2>4. task' = [task EXCEPT ![t] = r]
    BY <2>1, <2>2, <2>3 DEF Typing, TypeOK
  <2>5. QED
    BY <2>2, <2>3, <2>4 DEF IInv, Calling, Reading, Holding, Locked
<1>2. IF v.status = "in_progress"
      THEN v.owner # Nobody /\ v.claim = [owner |-> v.owner, token |-> issued[t]]
      ELSE v.claim = NoClaim
  BY <1>1 DEF IInv, OneLiveClaim
<1>3. task \in [Task -> TaskRecord] /\ issued \in [Task -> Nat]
  BY DEF IInv, TypeOK
<1>4. CASE WriteClaim(p)
  <2>1. /\ r = Claimed(v, call[p].worker, issued[t] + 1)
        /\ issued'[t] = issued[t] + 1
        /\ call[p].op = "claim"
    BY <1>1, <1>3, <1>4 DEF WriteClaim, Write
  <2>2. v.status \notin Terminal
    BY <1>1, <2>1 DEF IInv, Reading, Claimable, Terminal
  <2>3. QED
    BY <1>1, <2>1, <2>2, NobodyAssumption DEF Claimed
<1>5. CASE WriteFinish(p)
  <2>1. r = Finished(v, call[p].to) /\ call[p].op = "finish" /\ call[p].to \in Terminal
    BY <1>1, <1>3, <1>5, RunningCall DEF WriteFinish, Write, IInv, Typing
  <2>2. v.status = "in_progress"
    BY <1>1, <2>1 DEF IInv, Reading
  <2>3. QED
    BY <1>1, <2>1, <2>2 DEF Finished, Terminal
<1>6. CASE WriteUnclaim(p)
  <2>1. r = Unclaimed(v) /\ call[p].op \in {"release", "reclaim"}
    BY <1>1, <1>3, <1>6 DEF WriteUnclaim, Write
  <2>2. v.status = "in_progress"
    BY <1>1, <2>1 DEF IInv, Reading
  <2>3. QED
    BY <1>1, <2>1, <2>2 DEF Unclaimed, Terminal
<1>7. CASE WriteEdit(p)
  <2>1. r = Edited(v, call[p].deps) /\ call[p].op = "edit" /\ issued' = issued
    BY <1>1, <1>3, <1>7 DEF WriteEdit, Write
  <2>2. QED
    BY <1>1, <1>2, <2>1 DEF Edited
<1>8. QED
  BY <1>4, <1>5, <1>6, <1>7

LEMMA WriteStep ==
    ASSUME IInv, NEW p \in Proc,
           \/ WriteClaim(p) \/ WriteFinish(p) \/ WriteUnclaim(p) \/ WriteEdit(p)
    PROVE  /\ Holding' /\ Reading' /\ Announcing'
           /\ OneLiveClaim' /\ EventsMatchOutcome'
<1> DEFINE t == call[p].task
           r == task'[t]
<1>1. /\ UNCHANGED <<lock, call, seen, unread, completions, failures>>
      /\ pc[p] = "check"
      /\ pc' = [pc EXCEPT ![p] = IF call[p].op = "finish" THEN "announce" ELSE "unlock"]
      /\ issued' = [issued EXCEPT ![t] = IF call[p].op = "claim" THEN @ + 1 ELSE @]
      /\ expired' = [expired EXCEPT ![t] = IF call[p].op = "edit" THEN @ ELSE FALSE]
  BY WriteShape DEF IInv, Typing
<1>2. /\ t \in Task /\ lock[t] = p
      /\ task' = [task EXCEPT ![t] = r]
  BY WriteEffect
\* The task of another process in the section is another task.
<1>3. \A q \in Proc \ {p} : pc[q] \in Locked =>
         /\ call[q].task # t /\ call[q].task \in Task
         /\ task'[call[q].task] = task[call[q].task]
         /\ expired'[call[q].task] = expired[call[q].task]
  BY <1>1, <1>2, RunningCall DEF IInv, Typing, TypeOK, Holding, Locked
<1>4. Holding'
  BY <1>1 DEF IInv, TypeOK, Holding, Locked
<1>5. \A d \in Task : task[d].status = "completed" => task'[d].status = "completed"
  <2>1. task[t].status \in Terminal => r.status = task[t].status
    BY WriteEffect
  <2>2. task \in [Task -> TaskRecord]
    BY DEF IInv, TypeOK
  <2>3. QED
    BY <1>2, <2>1, <2>2 DEF Terminal
<1>6. \A q \in Proc : pc'[q] = "check" =>
         /\ q # p /\ pc[q] = "check"
         /\ task'[call[q].task] = task[call[q].task]
         /\ expired'[call[q].task] = expired[call[q].task]
         /\ task[call[q].task].deps \in SUBSET Task
  BY <1>1, <1>3, RunningCall DEF IInv, Typing, TypeOK, Locked
<1>7. Reading'
  <2> SUFFICES ASSUME NEW q \in Proc, pc'[q] = "check"
               PROVE  LET c == call[q]
                          v == seen[q]
                      IN /\ v = task'[c.task]
                         /\ v # Absent
                         /\ c.op \in {"finish", "release", "reclaim"} =>
                               v.status = "in_progress"
                         /\ c.op \in {"finish", "release"} => v.claim.token = c.token
                         /\ c.op = "reclaim" => expired'[c.task]
                         /\ c.op = "claim" =>
                               /\ Claimable(v, c.worker, expired'[c.task])
                               /\ unread[q] \subseteq v.deps
                               /\ \A d \in v.deps \ unread[q] :
                                     task'[d].status = "completed"
    BY <1>1 DEF Reading
  <2>1. QED
    BY <1>5, <1>6 DEF IInv, Reading
<1>8. task \in [Task -> TaskRecord] /\ issued \in [Task -> Nat]
  BY DEF IInv, TypeOK
<1>9. /\ \A u \in Task \ {t} : task'[u] = task[u] /\ issued'[u] = issued[u]
      /\ r.status = "in_progress" =>
            r.owner # Nobody /\ r.claim = [owner |-> r.owner, token |-> issued'[t]]
      /\ r.status # "in_progress" => r.claim = NoClaim
      /\ task[t].status \in Terminal => r.status = task[t].status
      /\ call[p].op = "finish" => task[t].status = "in_progress" /\ r.status = call[p].to
  BY <1>1, <1>2, <1>8, WriteEffect
<1>10. OneLiveClaim'
  BY <1>2, <1>9 DEF IInv, OneLiveClaim
<1>11. EventsMatchOutcome'
  <2> SUFFICES ASSUME NEW u \in Task
               PROVE  /\ completions[u] <= IF task'[u].status = "completed" THEN 1 ELSE 0
                      /\ failures[u] <= IF task'[u].status = "failed" THEN 1 ELSE 0
    BY <1>1 DEF EventsMatchOutcome
  <2>1. /\ completions[u] <= IF task[u].status = "completed" THEN 1 ELSE 0
        /\ failures[u] <= IF task[u].status = "failed" THEN 1 ELSE 0
        /\ completions[u] \in Nat /\ failures[u] \in Nat
    BY DEF IInv, TypeOK, EventsMatchOutcome
  <2>2. CASE u = t
    BY <1>9, <2>1, <2>2 DEF Terminal
  <2>3. CASE u # t
    BY <1>9, <2>1, <2>3
  <2>4. QED
    BY <2>2, <2>3
<1>12. Announcing'
  <2> SUFFICES ASSUME NEW q \in Proc, pc'[q] = "announce"
               PROVE  /\ task'[call[q].task].status = call[q].to
                      /\ completions[call[q].task] = 0
                      /\ failures[call[q].task] = 0
    BY <1>1 DEF Announcing
  <2>1. CASE q = p
    <3>1. call[p].op = "finish"
      BY <1>1, <2>1 DEF IInv, TypeOK
    <3>2. completions[t] = 0 /\ failures[t] = 0
      BY <1>2, <1>9, <3>1 DEF IInv, TypeOK, EventsMatchOutcome
    <3>3. QED
      BY <1>9, <2>1, <3>1, <3>2
  <2>2. CASE q # p
    BY <1>1, <1>3, <2>2 DEF IInv, TypeOK, Announcing, Locked
  <2>3. QED
    BY <2>1, <2>2
<1>13. QED
  BY <1>4, <1>7, <1>10, <1>11, <1>12

-----------------------------------------------------------------------------
(* The invariant and what follows from it *)

LEMMA Inductive == IInv /\ [Next]_vars => IInv'
<1> SUFFICES ASSUME IInv, [Next]_vars
             PROVE  IInv'
  OBVIOUS
<1> DEFINE Rest == /\ Holding' /\ Reading' /\ Announcing'
                   /\ OneLiveClaim' /\ EventsMatchOutcome'
<1>1. Typing'
  BY TypingKept DEF IInv, Typing
<1>2. ASSUME NEW d \in Drafts, Create(d)
      PROVE  Rest
  BY <1>2, CreateStep
<1>3. ASSUME NEW t \in Task, LeaseExpires(t)
      PROVE  Rest
  BY <1>3, LeaseStep
<1>4. ASSUME NEW p \in Proc, NewCalls(p)
      PROVE  Rest
  <2>1. \E c \in Call : Start(p, c)
    BY <1>4, NewCallsTyping DEF IInv, Typing
  <2>2. QED
    BY <2>1, SectionSteps
<1>5. ASSUME NEW p \in Proc, RecoverLock(p) \/ Crash(p)
      PROVE  Rest
  BY <1>5, SectionSteps
<1>6. ASSUME NEW p \in Proc, Step(p)
      PROVE  Rest
  BY <1>6, SectionSteps, AcquireStep, ReadDependencyStep, WriteStep, AnnounceStep
     DEF Step
<1>7. ASSUME UNCHANGED vars
      PROVE  Rest
  BY <1>7 DEF vars, IInv, Holding, Reading, Announcing, OneLiveClaim, EventsMatchOutcome
<1>8. Rest
  BY <1>2, <1>3, <1>4, <1>5, <1>6, <1>7 DEF Next
<1>9. QED
  BY <1>1, <1>8 DEF Typing, IInv

LEMMA Initially == Init => IInv
<1> SUFFICES ASSUME Init
             PROVE  IInv
  OBVIOUS
<1>1. Typing
  BY InitTyping
<1>2. Holding /\ Reading /\ Announcing
  BY DEF Init, Holding, Reading, Announcing, Locked
<1>3. OneLiveClaim /\ EventsMatchOutcome
  BY DEF Init, BoardInit, Absent, OneLiveClaim, EventsMatchOutcome
<1>4. QED
  BY <1>1, <1>2, <1>3 DEF Typing, IInv

THEOREM Invariance == Spec => []IInv
  BY Initially, Inductive, PTL DEF Spec

\* However the handlers of tasks.ts interleave and crash, a task carries a claim
\* exactly while it is in progress, with the newest token ever handed out.
THEOREM ClaimsAreExclusive == Spec => []OneLiveClaim
<1>1. IInv => OneLiveClaim
  BY DEF IInv
<1>2. QED
  BY <1>1, Invariance, PTL

\* The event log never holds an outcome the task file does not hold, nor one twice.
THEOREM EventsAreTrue == Spec => []EventsMatchOutcome
<1>1. IInv => EventsMatchOutcome
  BY DEF IInv
<1>2. QED
  BY <1>1, Invariance, PTL

\* The steps that leave every task file and lease alone.
LEMMA Quiet ==
    ASSUME NEW p \in Proc,
           \/ \E c \in Call : Start(p, c)
           \/ Acquire(p) \/ GiveUp(p) \/ ReadDependency(p) \/ Announce(p) \/ Unlock(p)
           \/ ReadSnapshot(p) \/ WriteSnapshot(p) \/ RecoverLock(p) \/ Crash(p)
    PROVE  UNCHANGED boardVars
  BY DEF Start, Acquire, GiveUp, ReadDependency, Announce, Unlock, ReadSnapshot,
         WriteSnapshot, RecoverLock, Crash, boardVars

\* A step either writes the task it holds the lock of, or creates one, or leaves
\* the files alone but for the clock.
LEMMA BoardSteps ==
    ASSUME IInv, [Next]_vars
    PROVE  \/ \E d \in Drafts : Create(d)
           \/ \E t \in Task : LeaseExpires(t)
           \/ \E p \in Proc : \/ WriteClaim(p) \/ WriteFinish(p)
                              \/ WriteUnclaim(p) \/ WriteEdit(p)
           \/ UNCHANGED boardVars
<1>1. ASSUME NEW p \in Proc, NewCalls(p)
      PROVE  UNCHANGED boardVars
  BY <1>1, NewCallsTyping, Quiet DEF IInv, Typing
<1>2. ASSUME UNCHANGED vars
      PROVE  UNCHANGED boardVars
  BY <1>2 DEF vars, boardVars
<1>3. QED
  BY <1>1, <1>2, Quiet DEF Next, Step

\* No write is lost: each raises the version of the record it replaces by one.
THEOREM WritesAreSerial == Spec => NoLostWrite
<1>1. ASSUME IInv, [Next]_vars
      PROVE  [\A t \in Task : task'[t] # task[t] =>
                  task'[t].version = task[t].version + 1]_vars
  <2> SUFFICES ASSUME NEW t \in Task, task'[t] # task[t]
               PROVE  task'[t].version = task[t].version + 1
    OBVIOUS
  <2>1. task \in [Task -> TaskRecord]
    BY <1>1 DEF IInv, TypeOK
  <2>2. ASSUME NEW d \in Drafts, Create(d)
        PROVE  task'[t].version = task[t].version + 1
    BY <2>1, <2>2 DEF Create, CreateTask, Absent, NewTask
  <2>3. ASSUME NEW u \in Task, LeaseExpires(u)
        PROVE  FALSE
    BY <2>3 DEF LeaseExpires, LeaseRunsOut
  <2>4. ASSUME NEW p \in Proc,
               WriteClaim(p) \/ WriteFinish(p) \/ WriteUnclaim(p) \/ WriteEdit(p)
        PROVE  task'[t].version = task[t].version + 1
    BY <1>1, <2>1, <2>4, WriteEffect
  <2>5. QED
    BY <1>1, <2>2, <2>3, <2>4, BoardSteps DEF boardVars
<1>2. QED
  BY <1>1, Invariance, PTL DEF Spec, NoLostWrite

\* A recorded outcome and the owner who reached it stay for good.
THEOREM OutcomesAreFinal == Spec => OutcomeIsFinal
<1>1. ASSUME IInv, [Next]_vars
      PROVE  [\A t \in Task : task[t].status \in Terminal =>
                  /\ task'[t].status = task[t].status
                  /\ task'[t].owner = task[t].owner]_vars
  <2> SUFFICES ASSUME NEW t \in Task, task[t].status \in Terminal
               PROVE  task'[t].status = task[t].status /\ task'[t].owner = task[t].owner
    OBVIOUS
  <2>1. task \in [Task -> TaskRecord]
    BY <1>1 DEF IInv, TypeOK
  <2>2. ASSUME NEW d \in Drafts, Create(d)
        PROVE  task'[t] = task[t]
    BY <2>1, <2>2 DEF Create, CreateTask, Absent, Terminal
  <2>3. ASSUME NEW u \in Task, LeaseExpires(u)
        PROVE  task'[t] = task[t]
    BY <2>3 DEF LeaseExpires, LeaseRunsOut
  <2>4. ASSUME NEW p \in Proc,
               WriteClaim(p) \/ WriteFinish(p) \/ WriteUnclaim(p) \/ WriteEdit(p)
        PROVE  task'[t].status = task[t].status /\ task'[t].owner = task[t].owner
    BY <1>1, <2>1, <2>4, WriteEffect
  <2>5. QED
    BY <1>1, <2>2, <2>3, <2>4, BoardSteps DEF boardVars
<1>2. QED
  BY <1>1, Invariance, PTL DEF Spec, OutcomeIsFinal

\* While its lease runs, a claim ends only by a call that shows its token.
THEOREM LeasesProtect == Spec => LeaseProtectsClaim
<1>1. ASSUME IInv, [Next]_vars
      PROVE  [\A t \in Task :
                /\ task[t].claim # NoClaim
                /\ ~expired[t]
                /\ task'[t].claim # task[t].claim
                => \E p \in Proc : /\ pc[p] = "check"
                                   /\ call[p].op \in {"finish", "release"}
                                   /\ call[p].task = t
                                   /\ call[p].token = task[t].claim.token]_vars
  <2> SUFFICES ASSUME NEW t \in Task, task[t].claim # NoClaim, ~expired[t],
                      task'[t].claim # task[t].claim
               PROVE  \E p \in Proc : /\ pc[p] = "check"
                                      /\ call[p].op \in {"finish", "release"}
                                      /\ call[p].task = t
                                      /\ call[p].token = task[t].claim.token
    OBVIOUS
  <2>1. task \in [Task -> TaskRecord] /\ task[t].status = "in_progress"
    BY <1>1 DEF IInv, TypeOK, OneLiveClaim
  <2>2. ASSUME NEW d \in Drafts, Create(d)
        PROVE  FALSE
    BY <2>1, <2>2 DEF Create, CreateTask, Absent
  <2>3. ASSUME NEW u \in Task, LeaseExpires(u)
        PROVE  FALSE
    BY <2>3 DEF LeaseExpires, LeaseRunsOut
  <2>4. ASSUME NEW p \in Proc,
               WriteClaim(p) \/ WriteFinish(p) \/ WriteUnclaim(p) \/ WriteEdit(p)
        PROVE  /\ pc[p] = "check" /\ call[p].op \in {"finish", "release"}
               /\ call[p].task = t /\ call[p].token = task[t].claim.token
    <3>1. /\ call[p].task = t /\ seen[p] = task[t] /\ pc[p] = "check"
          /\ task'[t] # task[t]
      <4>1. Typing /\ task' = [task EXCEPT ![call[p].task] = task'[call[p].task]]
        BY <1>1, <2>4, WriteEffect DEF IInv, Typing
      <4>2. pc[p] = "check" /\ call[p].task = t
        BY <2>1, <2>4, <4>1, WriteShape
      <4>3. QED
        BY <1>1, <4>2 DEF IInv, Reading
    <3>2. ~WriteClaim(p)
      BY <1>1, <2>1, <3>1 DEF WriteClaim, IInv, Reading, Claimable
    <3>3. ~WriteEdit(p)
      BY <2>1, <3>1 DEF WriteEdit, Write, Edited
    <3>4. call[p].op # "reclaim"
      BY <1>1, <3>1 DEF IInv, Reading
    <3>5. QED
      BY <1>1, <2>4, <3>1, <3>2, <3>3, <3>4 DEF WriteFinish, WriteUnclaim, IInv, Reading
  <2>5. QED
    BY <1>1, <2>2, <2>3, <2>4, BoardSteps DEF boardVars
<1>2. QED
  BY <1>1, Invariance, PTL DEF Spec, LeaseProtectsClaim

\* A task is granted only when everything it depends on at that moment is completed.
THEOREM GrantsAreReady == Spec => DependenciesDoneAtGrant
<1>1. ASSUME IInv, [Next]_vars
      PROVE  [\A t \in Task : issued'[t] # issued[t] =>
                  \A d \in task'[t].deps : task'[d].status = "completed"]_vars
  <2> SUFFICES ASSUME NEW t \in Task, issued'[t] # issued[t]
               PROVE  \A d \in task'[t].deps : task'[d].status = "completed"
    OBVIOUS
  <2>1. PICK p \in Proc : WriteClaim(p)
    BY <1>1, BoardSteps DEF Create, CreateTask, LeaseExpires, LeaseRunsOut, WriteFinish,
       WriteUnclaim, WriteEdit, boardVars
  <2>2. /\ task \in [Task -> TaskRecord] /\ issued \in [Task -> Nat]
        /\ call[p].op = "claim" /\ pc[p] = "check" /\ unread[p] = {}
    BY <1>1, <2>1 DEF IInv, TypeOK, WriteClaim, Write
  <2>3. call[p].task = t /\ seen[p] = task[t]
    BY <1>1, <2>1, <2>2 DEF WriteClaim, IInv, Reading
  <2>4. task'[t].deps = task[t].deps /\ task[t].deps \in SUBSET Task
    BY <2>1, <2>2, <2>3 DEF WriteClaim, Write, Claimed, TaskRecord
  <2>5. \A d \in task[t].deps : task[d].status = "completed"
    BY <1>1, <2>2, <2>3 DEF IInv, Reading
  <2>6. \A d \in Task : task[d].status = "completed" => task'[d].status = "completed"
    BY <1>1, <2>1, <2>2, WriteEffect DEF Terminal
  <2>7. QED
    BY <2>4, <2>5, <2>6
<1>2. QED
  BY <1>1, Invariance, PTL DEF Spec, DependenciesDoneAtGrant

-----------------------------------------------------------------------------
(* The handlers implement the atomic task store *)

\* Each write under the claim lock is the operation TaskBoard promises, with the
\* conditions that were checked under the lock still true when it happens.
THEOREM ImplementsBoard == Spec => BoardSpec
<1>1. Init => BoardInit
  BY DEF Init
<1>2. ASSUME IInv, [Next]_vars
      PROVE  [BoardNext]_boardVars
  <2>1. ASSUME NEW d \in Drafts, Create(d)
        PROVE  BoardNext
    BY <2>1, BoundAssumption DEF Create, BoardNext
  <2>2. ASSUME NEW t \in Task, LeaseExpires(t)
        PROVE  BoardNext
    BY <2>2 DEF LeaseExpires, BoardNext
  <2>3. ASSUME NEW p \in Proc, WriteClaim(p) \/ WriteFinish(p) \/ WriteUnclaim(p) \/ WriteEdit(p)
        PROVE  BoardNext
    <3> DEFINE t == call[p].task
    <3>1. /\ t \in Task /\ call[p].to \in Terminal /\ call[p].deps \in SUBSET Task
          /\ seen[p] = task[t] /\ task[t] # Absent
          /\ task \in [Task -> TaskRecord] /\ pc[p] = "check" /\ unread[p] = {}
          /\ call[p].op = "claim" => call[p].worker \in Worker
      <4>1. Typing /\ pc[p] = "check" /\ unread[p] = {}
        BY <1>2, <2>3, WriteShape DEF IInv, Typing
      <4>2. QED
        BY <1>2, <4>1, RunningCall DEF IInv, TypeOK, Calling, Reading
    <3>2. ASSUME WriteClaim(p)
          PROVE  GrantClaim(t, call[p].worker) /\ call[p].worker \in Worker
      <4>1. call[p].op = "claim"
        BY <3>2 DEF WriteClaim
      <4>2. Claimable(task[t], call[p].worker, expired[t]) /\ Ready(t)
        BY <1>2, <3>1, <4>1 DEF IInv, Reading, Ready, Done
      <4>3. QED
        BY <3>1, <3>2, <4>1, <4>2 DEF WriteClaim, Write, FreshLease, GrantClaim
    <3>3. ASSUME WriteFinish(p)
          PROVE  Finish(t, call[p].to)
      <4>1. task[t].status = "in_progress"
        BY <1>2, <3>1, <3>3 DEF WriteFinish, IInv, Reading
      <4>2. QED
        BY <3>1, <3>3, <4>1 DEF WriteFinish, Write, FreshLease, Finish
    <3>4. ASSUME WriteUnclaim(p)
          PROVE  Unclaim(t)
      <4>1. task[t].status = "in_progress"
        BY <1>2, <3>1, <3>4 DEF WriteUnclaim, IInv, Reading
      <4>2. QED
        BY <3>1, <3>4, <4>1 DEF WriteUnclaim, Write, FreshLease, Unclaim
    <3>5. ASSUME WriteEdit(p)
          PROVE  EditTask(t, call[p].deps)
      BY <3>1, <3>5 DEF WriteEdit, Write, EditTask
    <3>6. QED
      BY <2>3, <3>1, <3>2, <3>3, <3>4, <3>5 DEF BoardNext
  <2>4. QED
    BY <1>2, <2>1, <2>2, <2>3, BoardSteps
<1>3. QED
  BY <1>1, <1>2, Invariance, PTL DEF Spec, BoardSpec

-----------------------------------------------------------------------------
(* The lock of a task is one that Lock describes *)

\* What is inside is what is there before, but for p.
LEMMA OthersStayInside ==
    ASSUME NEW p \in Proc, NEW t \in Task,
           \A q \in Proc \ {p} : pc'[q] = pc[q] /\ call'[q] = call[q]
    PROVE  /\ Inside(t)' \ {p} = Inside(t) \ {p}
           /\ p \in Inside(t) <=> pc[p] \in Locked /\ call[p].task = t
           /\ p \in Inside(t)' <=> pc'[p] \in Locked /\ call'[p].task = t
           /\ (p \in Inside(t)' <=> p \in Inside(t)) => Inside(t)' = Inside(t)
BY DEF Inside

LEMMA InsideHolds ==
    ASSUME IInv, NEW t \in Task
    PROVE  /\ \A p \in Inside(t) : lock[t] = p
           /\ \A p \in Inside(t) : Inside(t) = {p}
           /\ lock[t] = Orphan => Inside(t) = {}
           /\ lock[t] = Free => Inside(t) = {}
BY LockAssumption DEF IInv, Holding, Inside

\* The steps that leave all locks alone, and do not enter or leave a section.
LEMMA SectionKept ==
    ASSUME IInv, NEW p \in Proc, NEW t \in Task,
           \/ \E c \in Call : Start(p, c)
           \/ GiveUp(p) \/ ReadDependency(p) \/ Announce(p)
           \/ WriteClaim(p) \/ WriteFinish(p) \/ WriteUnclaim(p) \/ WriteEdit(p)
           \/ ReadSnapshot(p) \/ WriteSnapshot(p)
    PROVE  UNCHANGED <<Inside(t), lock>>
<1>1. /\ lock' = lock
      /\ \A q \in Proc \ {p} : pc'[q] = pc[q] /\ call'[q] = call[q]
      /\ \/ pc[p] \notin Locked /\ pc'[p] \notin Locked
         \/ pc[p] \in Locked /\ pc'[p] \in Locked /\ call'[p] = call[p]
  <2> USE DEF IInv, TypeOK, Locked
  <2>1. CASE (\E c \in Call : Start(p, c)) \/ GiveUp(p) \/ ReadSnapshot(p) \/ WriteSnapshot(p)
    BY <2>1 DEF Start, GiveUp, ReadSnapshot, WriteSnapshot, Return
  <2>2. CASE ReadDependency(p) \/ Announce(p)
    BY <2>2 DEF ReadDependency, Announce
  <2>3. CASE WriteClaim(p) \/ WriteFinish(p) \/ WriteUnclaim(p) \/ WriteEdit(p)
    BY <2>3 DEF WriteClaim, WriteFinish, WriteUnclaim, WriteEdit, Write
  <2> QED
    BY <2>1, <2>2, <2>3
<1> QED
  BY <1>1, OthersStayInside

LEMMA LockUse ==
    ASSUME IInv, [Next]_vars, NEW t \in Task
    PROVE  L(t)!LockNext \/ UNCHANGED <<Inside(t), lock[t] = Orphan>>
<1>1. ASSUME NEW p \in Proc, NewCalls(p)
      PROVE  UNCHANGED <<Inside(t), lock>>
  BY <1>1, NewCallsTyping, SectionKept DEF IInv, Typing
<1>2. ASSUME NEW p \in Proc, Acquire(p)
      PROVE  L(t)!LockNext \/ UNCHANGED <<Inside(t), lock[t] = Orphan>>
  <2>1. /\ call' = call /\ pc[p] = "lock" /\ lock[call[p].task] = Free
        /\ lock' = [lock EXCEPT ![call[p].task] = p]
        /\ \A q \in Proc \ {p} : pc'[q] = pc[q]
        /\ pc'[p] \in Locked /\ pc[p] \notin Locked
    BY <1>2 DEF Acquire, IInv, TypeOK, Locked
  <2>2. CASE call[p].task = t
    <3>1. lock[t] = Free /\ lock'[t] = p
      BY <2>1, <2>2 DEF IInv, TypeOK
    <3>2. Inside(t) = {} /\ lock[t] # Orphan /\ lock'[t] # Orphan
      BY <3>1, InsideHolds, LockAssumption
    <3>3. Inside(t)' = {p}
      BY <2>1, <2>2, <3>2, OthersStayInside
    <3> QED
      BY <3>2, <3>3 DEF L!LockNext, L!Take
  <2>3. CASE call[p].task # t
    <3>1. lock'[t] = lock[t]
      BY <2>1, <2>3 DEF IInv, TypeOK
    <3>2. Inside(t)' = Inside(t)
      BY <2>1, <2>3, OthersStayInside
    <3> QED
      BY <3>1, <3>2
  <2> QED
    BY <2>2, <2>3
<1>3. ASSUME NEW p \in Proc, Unlock(p) \/ Crash(p)
      PROVE  L(t)!LockNext \/ UNCHANGED <<Inside(t), lock[t] = Orphan>>
  <2>1. /\ \A q \in Proc \ {p} : pc'[q] = pc[q] /\ call'[q] = call[q]
        /\ pc'[p] \notin Locked
    BY <1>3 DEF Unlock, Crash, Return, IInv, TypeOK, Locked
  <2>2. CASE p \in Inside(t)
    <3>1. pc[p] \in Locked /\ call[p].task = t /\ lock[t] = p /\ Inside(t) = {p}
      BY <2>2, InsideHolds DEF Inside
    <3>2. Inside(t)' = {}
      BY <2>1, <3>1, OthersStayInside
    <3>3. CASE Unlock(p)
      <4>1. lock[t] # Orphan /\ lock'[t] # Orphan
        BY <3>1, <3>3, LockAssumption DEF Unlock, IInv, TypeOK
      <4> QED
        BY <3>1, <3>2, <4>1 DEF L!LockNext, L!Give
    <3>4. CASE Crash(p)
      <4>1. lock'[t] = Orphan
        BY <3>1, <3>4 DEF Crash, IInv, TypeOK
      <4> QED
        BY <3>1, <3>2, <4>1 DEF L!LockNext, L!Die
    <3> QED
      BY <1>3, <3>3, <3>4
  <2>3. CASE p \notin Inside(t)
    <3>1. Inside(t)' = Inside(t)
      BY <2>1, <2>3, OthersStayInside
    <3>2. lock'[t] = lock[t]
      BY <1>3, <2>3 DEF Unlock, Crash, IInv, TypeOK, Inside, Locked
    <3> QED
      BY <3>1, <3>2
  <2> QED
    BY <2>2, <2>3
<1>4. ASSUME NEW p \in Proc, RecoverLock(p)
      PROVE  L(t)!LockNext \/ UNCHANGED <<Inside(t), lock[t] = Orphan>>
  <2>1. /\ UNCHANGED <<pc, call>> /\ lock[call[p].task] = Orphan
        /\ lock' = [lock EXCEPT ![call[p].task] = Free]
    BY <1>4 DEF RecoverLock, callVars
  <2>2. Inside(t)' = Inside(t)
    BY <2>1 DEF Inside
  <2>3. CASE call[p].task = t
    <3>1. lock[t] = Orphan /\ lock'[t] # Orphan
      BY <2>1, <2>3, LockAssumption DEF IInv, TypeOK
    <3> QED
      BY <2>2, <3>1 DEF L!LockNext, L!Recover
  <2>4. CASE call[p].task # t
    BY <2>1, <2>2, <2>4 DEF IInv, TypeOK
  <2> QED
    BY <2>3, <2>4
<1>5. ASSUME (\E d \in Drafts : Create(d)) \/ (\E u \in Task : LeaseExpires(u)) \/ UNCHANGED vars
      PROVE  UNCHANGED <<Inside(t), lock>>
  <2>1. UNCHANGED <<pc, call, lock>>
    BY <1>5 DEF Create, LeaseExpires, vars, callVars
  <2> QED
    BY <2>1 DEF Inside
<1> QED
  BY <1>1, <1>2, <1>3, <1>4, <1>5, SectionKept DEF Next, Step

\* The handlers of tasks.ts use the lock of every task as Lock allows: nobody is in the
\* section beside another, whoever waits, gives up, dies or recovers.
THEOREM UsesLocks == Spec => LocksAsPromised
<1> SUFFICES ASSUME NEW t \in Task
             PROVE  Spec => L(t)!LockSpec
  BY DEF LocksAsPromised
<1>1. Init => L(t)!LockInit
  BY LockAssumption DEF Init, L!LockInit, Inside, Locked
<1>2. IInv /\ [Next]_vars => [L(t)!LockNext]_<<Inside(t), lock[t] = Orphan>>
  BY LockUse
<1> QED
  BY <1>1, <1>2, Invariance, PTL DEF Spec, L!LockSpec

=============================================================================
