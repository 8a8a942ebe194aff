----------------------------- MODULE TaskClaims ------------------------------
(***************************************************************************)
(* The task store as it runs: src/src/team/state/tasks.ts and the part of  *)
(* src/src/team/state.ts that calls it.  Workers, the leader and CLI       *)
(* invocations are separate operating-system processes that share the task *)
(* files; a Proc is one such process, and at any time it executes at most  *)
(* one call.  The handlers interleave between every two of their awaits:   *)
(*                                                                         *)
(*   idle -> lock -> check -> announce -> unlock                           *)
(*        -> readSnapshot -> writeSnapshot -> idle                         *)
(*                                                                         *)
(* and a process may crash at any of these points, leaving the lock        *)
(* directory of its task behind (Orphan) until someone finds it stale.     *)
(*                                                                         *)
(* The claim lock is taken to exclude: a lock directory is only recovered  *)
(* once its holder has gone.  DirLock models the lock itself and shows     *)
(* when that is so.                                                        *)
(***************************************************************************)
EXTENDS TaskBoard

CONSTANTS Proc,          \* processes calling the store
          Free, Orphan,  \* lock directory missing / left by a crashed process
          Drafts,        \* bound: the tasks that may be created
          Requests,      \* bound: the calls <<op, task>> that are made
          DepChoices,    \* bound: the dependency sets edits ask for
          MaxClaims,     \* bound: no claim call once t had MaxClaims[t] grants
          MaxVersion     \* bound: no edit call once t has version MaxVersion[t]

ASSUME LockAssumption == /\ Free \notin Proc
                         /\ Orphan \notin Proc
                         /\ Free # Orphan
ASSUME BoundAssumption == /\ Drafts \subseteq [task  : Task,
                                                owner : Worker \cup {Nobody},
                                                deps  : SUBSET Task]
                          /\ DepChoices \subseteq SUBSET Task
                          /\ MaxClaims \in [Task -> Nat]
                          /\ MaxVersion \in [Task -> Nat]

VARIABLES lock,          \* lock[t]: holder of the directory .lock-<t>
          pc,            \* where each process is
          call,          \* the arguments of its call
          seen,          \* the task record it read under the lock
          unread,        \* dependencies its readiness check has still to read
          completions,   \* completions[t]: task_completed events logged for t
          failures,      \* failures[t]: task_failed events logged for t
          snapshot,      \* monitor snapshot file
          copy           \* the snapshot a process has read

callVars == <<pc, call, seen, unread>>
logVars == <<completions, failures>>
snapVars == <<snapshot, copy>>
vars == <<task, expired, issued, lock, pc, call, seen, unread, completions,
          failures, snapshot, copy>>

-----------------------------------------------------------------------------
(* Calls *)

Label == {"idle", "lock", "check", "announce", "unlock",
          "readSnapshot", "writeSnapshot"}

\* The labels between taking the claim lock and giving it back.
Locked == {"check", "announce", "unlock"}

\* Arguments a call does not use keep a default value; version 0 stands for
\* expectedVersion === null.
Call == [op      : {"claim", "finish", "release", "reclaim", "edit"},
         task    : Task,
         worker  : Worker \cup {Nobody},
         token   : Nat,
         to      : Terminal,
         deps    : SUBSET Task,
         version : Nat]

NoCall == [op |-> "none"]

NewCall(op, t) ==
    [op |-> op, task |-> t, worker |-> Nobody, token |-> 0,
     to |-> "completed", deps |-> {}, version |-> 0]

\* What writeMonitorSnapshot persists of the tasks: taskStatusById (absent: no
\* entry) and completedEventTaskIds.
Snapshot == [status : [Task -> TaskStatus \cup {"absent"}],
             announced : SUBSET Task]
NoSnapshot == [status |-> [t \in Task |-> "absent"], announced |-> {}]

-----------------------------------------------------------------------------

Init ==
    /\ BoardInit
    /\ lock = [t \in Task |-> Free]
    /\ pc = [p \in Proc |-> "idle"]
    /\ call = [p \in Proc |-> NoCall]
    /\ seen = [p \in Proc |-> Absent]
    /\ unread = [p \in Proc |-> {}]
    /\ completions = [t \in Task |-> 0]
    /\ failures = [t \in Task |-> 0]
    /\ snapshot = NoSnapshot
    /\ copy = [p \in Proc |-> NoSnapshot]

-----------------------------------------------------------------------------
(* A call starts.  Checks made before the lock is taken are its guard: when *)
(* they fail the handler returns an error and changes nothing.              *)

\* createTask runs under a lock of its own.  As in TaskBoard its id is assumed to be
\* fresh: TeamRoster is about when that is so, and what becomes of a task when it is not.
Create(d) ==
    /\ CreateTask(d.task, d.owner, d.deps)
    /\ UNCHANGED <<lock, callVars, logVars, snapVars>>

Start(p, c) ==
    /\ <<c.op, c.task>> \in Requests
    /\ pc[p] = "idle"
    /\ pc' = [pc EXCEPT ![p] = "lock"]
    /\ call' = [call EXCEPT ![p] = c]
    /\ UNCHANGED <<boardVars, lock, seen, unread, logVars, snapVars>>

CallClaim(p, t, w) ==
    /\ task[t] # Absent
    /\ Ready(t)
    /\ issued[t] < MaxClaims[t]
    /\ \E version \in {0, task[t].version} :
          LET c == [NewCall("claim", t) EXCEPT !.worker = w]
          IN Start(p, [c EXCEPT !.version = version])

\* The caller may show any token ever handed out for the task: its own, or one
\* that has lost its claim since.
CallFinish(p, t) ==
    \E token \in 1..issued[t], to \in Terminal :
        LET c == [NewCall("finish", t) EXCEPT !.token = token]
        IN Start(p, [c EXCEPT !.to = to])

CallRelease(p, t) ==
    \E token \in 1..issued[t] :
        Start(p, [NewCall("release", t) EXCEPT !.token = token])

\* monitorTeam calls reclaimExpiredTaskClaim for tasks it read as in progress
\* with a lease that is over.
CallReclaim(p, t) ==
    /\ task[t].status = "in_progress"
    /\ expired[t]
    /\ Start(p, NewCall("reclaim", t))

\* update-task refuses status, owner, result and error; of what it may change
\* only the dependencies matter here.
CallEdit(p, t) ==
    /\ task[t].version < MaxVersion[t]
    /\ \E deps \in DepChoices :
          Start(p, [NewCall("edit", t) EXCEPT !.deps = deps])

-----------------------------------------------------------------------------
(* The section under the claim lock *)

\* The condition under which the call changes the record v it has read.
Allowed(c, v) ==
    LET leaseOver == expired[c.task]
    IN \/ /\ c.op = "claim"
          /\ c.version \in {0, v.version}
          /\ Claimable(v, c.worker, leaseOver)
       \/ /\ c.op = "finish"
          /\ v.status = "in_progress"
          /\ HoldsLease(v, c.token, leaseOver)
       \/ /\ c.op = "release"
          /\ v.status \notin Terminal
          /\ HoldsLease(v, c.token, leaseOver)
       \/ /\ c.op = "reclaim"
          /\ v.status = "in_progress"
          /\ v.claim # NoClaim
          /\ leaseOver
       \/ /\ c.op = "edit"
          /\ v # Absent

\* mkdir of the lock directory succeeds; the task is read again under the lock
\* and the call is refused or goes on.  One step: until the write nobody else
\* can change the file, and a clock that is read later than the file only makes
\* the call the one that acquired the lock later.
Acquire(p) ==
    LET t == call[p].task
    IN /\ pc[p] = "lock"
       /\ lock[t] = Free
       /\ lock' = [lock EXCEPT ![t] = p]
       /\ \/ /\ Allowed(call[p], task[t])
             /\ pc' = [pc EXCEPT ![p] = "check"]
             /\ seen' = [seen EXCEPT ![p] = task[t]]
             /\ unread' = [unread EXCEPT ![p] =
                              IF call[p].op = "claim" THEN task[t].deps ELSE {}]
          \/ /\ ~Allowed(call[p], task[t])
             /\ pc' = [pc EXCEPT ![p] = "unlock"]
             /\ UNCHANGED <<seen, unread>>
       /\ UNCHANGED <<boardVars, call, logVars, snapVars>>

\* The call ends and its local variables with it.
Return(p) ==
    /\ pc' = [pc EXCEPT ![p] = "idle"]
    /\ call' = [call EXCEPT ![p] = NoCall]
    /\ seen' = [seen EXCEPT ![p] = Absent]
    /\ unread' = [unread EXCEPT ![p] = {}]

WaitForever(p) ==      \* mutant: the loop has no deadline
    /\ pc[p] = "lock"
    /\ lock[call[p].task] # Free
    /\ UNCHANGED vars

ProceedUnlocked(p) ==  \* mutant: after the deadline the call goes on all the same
    LET t == call[p].task
    IN /\ pc[p] = "lock"
       /\ lock[t] # Free
       /\ Allowed(call[p], task[t])
       /\ pc' = [pc EXCEPT ![p] = "check"]
       /\ seen' = [seen EXCEPT ![p] = task[t]]
       /\ UNCHANGED <<boardVars, lock, call, unread, logVars, snapVars>>

\* The deadline passes while the directory exists: claim_conflict.
GiveUp(p) ==
    /\ pc[p] = "lock"
    /\ lock[call[p].task] # Free
    /\ Return(p)
    /\ UNCHANGED <<boardVars, lock, logVars, snapVars>>

\* A claim reads its dependencies one file at a time, without their locks, and
\* is refused at the first that is not completed.
ReadDependency(p) ==
    /\ pc[p] = "check"
    /\ \E d \in unread[p] :
          /\ unread' = [unread EXCEPT ![p] = @ \ {d}]
          /\ pc' = [pc EXCEPT ![p] = IF Done(d) THEN "check" ELSE "unlock"]
    /\ UNCHANGED <<boardVars, lock, call, seen, logVars, snapVars>>

\* Replace the file: everything but the changed fields comes from the copy.
Write(p, v, next) ==
    /\ pc[p] = "check"
    /\ unread[p] = {}
    /\ task' = [task EXCEPT ![call[p].task] = v]
    /\ pc' = [pc EXCEPT ![p] = next]
    /\ UNCHANGED <<lock, call, seen, unread, logVars, snapVars>>

OldLease(p) == UNCHANGED expired   \* mutant: the old leased_until is kept

\* There is no claim, or a new one, after the write: its lease is not over.
FreshLease(p) == expired' = [expired EXCEPT ![call[p].task] = FALSE]

WriteClaim(p) ==
    LET token == issued[call[p].task] + 1
    IN /\ call[p].op = "claim"
       /\ Write(p, Claimed(seen[p], call[p].worker, token), "unlock")
       /\ issued' = [issued EXCEPT ![call[p].task] = token]
       /\ FreshLease(p)

WriteFinish(p) ==
    /\ call[p].op = "finish"
    /\ Write(p, Finished(seen[p], call[p].to), "announce")
    /\ FreshLease(p)
    /\ UNCHANGED issued

WriteUnclaim(p) ==
    /\ call[p].op \in {"release", "reclaim"}
    /\ Write(p, Unclaimed(seen[p]), "unlock")
    /\ FreshLease(p)
    /\ UNCHANGED issued

WriteEdit(p) ==
    /\ call[p].op = "edit"
    /\ Write(p, Edited(seen[p], call[p].deps), "unlock")
    /\ UNCHANGED <<expired, issued>>

\* The event is appended after the write, still under the lock.
Announce(p) ==
    LET t == call[p].task
    IN /\ pc[p] = "announce"
       /\ \/ /\ call[p].to = "completed"
             /\ completions' = [completions EXCEPT ![t] = @ + 1]
             /\ UNCHANGED failures
          \/ /\ call[p].to = "failed"
             /\ failures' = [failures EXCEPT ![t] = @ + 1]
             /\ UNCHANGED completions
       /\ pc' = [pc EXCEPT ![p] = "unlock"]
       /\ UNCHANGED <<boardVars, lock, call, seen, unread, snapVars>>

\* The lock is given up in the finally block.  A call to complete a task goes
\* on to the snapshot, whether or not it was allowed to complete it.
Unlock(p) ==
    LET completing == call[p].op = "finish" /\ call[p].to = "completed"
    IN /\ pc[p] = "unlock"
       /\ lock' = [lock EXCEPT ![call[p].task] = Free]
       /\ \/ /\ completing
             /\ pc' = [pc EXCEPT ![p] = "readSnapshot"]
             /\ UNCHANGED <<call, seen, unread>>
          \/ /\ ~completing
             /\ Return(p)
       /\ UNCHANGED <<boardVars, logVars, snapVars>>

-----------------------------------------------------------------------------
(* The monitor snapshot: read, modified and written back without a lock *)

ReadSnapshot(p) ==
    /\ pc[p] = "readSnapshot"
    /\ copy' = [copy EXCEPT ![p] = snapshot]
    /\ pc' = [pc EXCEPT ![p] = "writeSnapshot"]
    /\ UNCHANGED <<boardVars, lock, call, seen, unread, logVars, snapshot>>

WriteSnapshot(p) ==
    /\ pc[p] = "writeSnapshot"
    /\ snapshot' = [copy[p] EXCEPT !.announced = @ \cup {call[p].task}]
    /\ copy' = [copy EXCEPT ![p] = NoSnapshot]
    /\ Return(p)
    /\ UNCHANGED <<boardVars, lock, logVars>>

-----------------------------------------------------------------------------
(* The environment *)

LeaseExpires(t) ==
    /\ LeaseRunsOut(t)
    /\ UNCHANGED <<lock, callVars, logVars, snapVars>>

\* The process dies in the middle of a call; its lock directory stays.
Crash(p) ==
    /\ pc[p] # "idle"
    /\ Return(p)
    /\ copy' = [copy EXCEPT ![p] = NoSnapshot]
    /\ lock' = IF pc[p] \in Locked
               THEN [lock EXCEPT ![call[p].task] = Orphan] ELSE lock
    /\ UNCHANGED <<boardVars, logVars, snapshot>>

RecoverLiveLock(p) ==  \* mutant: the holder is still in the section
    /\ pc[p] = "lock"
    /\ lock[call[p].task] # Free
    /\ lock' = [lock EXCEPT ![call[p].task] = Free]
    /\ UNCHANGED <<boardVars, callVars, logVars, snapVars>>

\* A waiting caller finds the directory older than LOCK_STALE_MS.
RecoverLock(p) ==
    /\ pc[p] = "lock"
    /\ lock[call[p].task] = Orphan
    /\ lock' = [lock EXCEPT ![call[p].task] = Free]
    /\ UNCHANGED <<boardVars, callVars, logVars, snapVars>>

-----------------------------------------------------------------------------

NewCalls(p) ==
    \E t \in Task : \/ \E w \in Worker : CallClaim(p, t, w)
                    \/ CallFinish(p, t)
                    \/ CallRelease(p, t)
                    \/ CallReclaim(p, t)
                    \/ CallEdit(p, t)

\* One step of the call p is executing.
Step(p) ==
    \/ Acquire(p) \/ GiveUp(p)
    \/ ReadDependency(p)
    \/ WriteClaim(p) \/ WriteFinish(p) \/ WriteUnclaim(p) \/ WriteEdit(p)
    \/ Announce(p) \/ Unlock(p)
    \/ ReadSnapshot(p) \/ WriteSnapshot(p)

Next ==
    \/ \E d \in Drafts : Create(d)
    \/ \E t \in Task : LeaseExpires(t)
    \/ \E p \in Proc : NewCalls(p) \/ Step(p) \/ RecoverLock(p) \/ Crash(p)

Spec == Init /\ [][Next]_vars

\* A process that is running keeps running: awaits complete, deadlines pass.
\* Nothing makes a process start a call, a lease run out or a process crash.
FairSpec == Spec /\ \A p \in Proc : WF_vars(Step(p))

-----------------------------------------------------------------------------
(* Properties *)

TypeOK ==
    /\ task \in [Task -> TaskRecord]
    /\ expired \in [Task -> BOOLEAN]
    /\ issued \in [Task -> Nat]
    /\ lock \in [Task -> Proc \cup {Free, Orphan}]
    /\ pc \in [Proc -> Label]
    /\ call \in [Proc -> Call \cup {NoCall}]
    /\ seen \in [Proc -> TaskRecord]
    /\ unread \in [Proc -> SUBSET Task]
    /\ completions \in [Task -> Nat]
    /\ failures \in [Task -> Nat]
    /\ snapshot \in Snapshot
    /\ copy \in [Proc -> Snapshot]

\* An event is logged for an outcome only after that outcome is in the task
\* file, once, and no more than one outcome is ever logged for a task: a worker
\* whose claim was taken over cannot log a second one.  What is missing is
\* still to be appended by the process that wrote the outcome, or lost with it.
EventsMatchOutcome ==
    \A t \in Task :
        /\ completions[t] <= IF task[t].status = "completed" THEN 1 ELSE 0
        /\ failures[t] <= IF task[t].status = "failed" THEN 1 ELSE 0

\* A completed or failed task stays so under the same owner: no stale copy
\* written by a slower process (an edit, a release, a reclaim) reopens it.
OutcomeIsFinal ==
    [][\A t \in Task : task[t].status \in Terminal =>
          /\ task'[t].status = task[t].status
          /\ task'[t].owner = task[t].owner]_vars

\* Every write builds on the version before it: no write is lost.
NoLostWrite ==
    [][\A t \in Task : task'[t] # task[t] =>
          task'[t].version = task[t].version + 1]_vars

\* While its lease runs a claim ends only through a call that shows its token,
\* whatever other processes have read before and do at the same time.
LeaseProtectsClaim ==
    [][\A t \in Task :
          /\ task[t].claim # NoClaim
          /\ ~expired[t]
          /\ task'[t].claim # task[t].claim
          => \E p \in Proc : /\ pc[p] = "check"
                             /\ call[p].op \in {"finish", "release"}
                             /\ call[p].task = t
                             /\ call[p].token = task[t].claim.token]_vars

\* Work starts only on a task all of whose dependencies, as they are recorded at
\* that moment, are completed, although they are read one by one and may be
\* edited by others.
DependenciesDoneAtGrant ==
    [][\A t \in Task :
          issued'[t] # issued[t] => \A d \in task'[t].deps : task'[d].status = "completed"]_vars

\* Every call returns, also when the holder of its lock has crashed: the wait for
\* the lock has a deadline.
CallsReturn == \A p \in Proc : pc[p] # "idle" ~> pc[p] = "idle"

\* The calls use the lock of a task as Lock allows, which is what DirLock keeps: a call
\* is between its mkdir and its rm alone, whoever else gives up, dies or recovers.
Inside(t) == {p \in Proc : pc[p] \in Locked /\ call[p].task = t}

L(t) == INSTANCE Lock WITH inside <- Inside(t), orphaned <- lock[t] = Orphan

LocksAsPromised == \A t \in Task : L(t)!LockSpec

-----------------------------------------------------------------------------
(* Why the safety properties hold: the inductive invariant *)

\* A process that has started a call and not returned has its arguments.
Calling ==
    \A p \in Proc : pc[p] # "idle" =>
        /\ call[p] \in Call
        /\ call[p].op = "claim" => call[p].worker \in Worker

\* A process in the section owns the lock of its task.
Holding == \A p \in Proc : pc[p] \in Locked => lock[call[p].task] = p

\* A process about to write holds an up-to-date copy, which permits its call;
\* only the clock may have moved on, and only towards the end of the lease.
Reading ==
    \A p \in Proc : pc[p] = "check" =>
        LET c == call[p]
            v == seen[p]
        IN /\ v = task[c.task]
           /\ v # Absent
           /\ c.op \in {"finish", "release", "reclaim"} => v.status = "in_progress"
           /\ c.op \in {"finish", "release"} => v.claim.token = c.token
           /\ c.op = "reclaim" => expired[c.task]
           /\ c.op = "claim" =>
                 /\ Claimable(v, c.worker, expired[c.task])
                 /\ unread[p] \subseteq v.deps
                 /\ \A d \in v.deps \ unread[p] : task[d].status = "completed"

\* The outcome a process is about to log is in the task file and not logged yet.
Announcing ==
    \A p \in Proc : pc[p] = "announce" =>
        LET t == call[p].task
        IN /\ task[t].status = call[p].to
           /\ completions[t] = 0
           /\ failures[t] = 0

IInv ==
    /\ TypeOK
    /\ Calling
    /\ Holding
    /\ Reading
    /\ OneLiveClaim
    /\ EventsMatchOutcome
    /\ Announcing

=============================================================================
