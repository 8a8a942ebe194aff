------------------------------ MODULE TaskBoard ------------------------------
(***************************************************************************)
(* What the task store of a team promises to its callers: every operation  *)
(* of src/src/team/state/tasks.ts acts on one task file as a single atomic *)
(* step.  TaskClaims models the handlers as they run (lock, read, check,   *)
(* write, event, unlock, interleaved with other processes and crashes) and *)
(* is shown to implement this module.                                      *)
(*                                                                         *)
(* A task is the persisted record of a task-<id>.json file.  A claim token *)
(* is a random UUID in the code; here it is the number of the grant on its *)
(* task, because tokens are only ever compared with tokens of that task.   *)
(* leased_until is only ever compared with the clock, so a lease is the    *)
(* flag expired[t], which time may set at any moment (LeaseRunsOut) and    *)
(* which a new grant resets.                                               *)
(***************************************************************************)
EXTENDS Naturals

CONSTANTS Task,        \* task ids
          Worker,      \* workers named in the team config
          Nobody       \* "owner: undefined"

ASSUME NobodyAssumption == Nobody \notin Worker

VARIABLES task,        \* task[t]: the record in the file of t, or Absent
          expired,     \* expired[t]: leased_until of the claim of t has passed
          issued       \* issued[t]: number of claim tokens handed out for t

boardVars == <<task, expired, issued>>

-----------------------------------------------------------------------------
(* Records *)

TaskStatus == {"pending", "blocked", "in_progress", "completed", "failed"}
Terminal == {"completed", "failed"}

Claim == [owner : Worker \cup {Nobody}, token : Nat]
NoClaim == [owner |-> Nobody, token |-> 0]

TaskRecord == [status  : TaskStatus \cup {"absent"},
               owner   : Worker \cup {Nobody},
               claim   : Claim,
               version : Nat,
               deps    : SUBSET Task]

\* No file: readTask answers null.
Absent == [status |-> "absent", owner |-> Nobody, claim |-> NoClaim,
           version |-> 0, deps |-> {}]

\* The record createTask writes: version 1, depends_on taken from blocked_by,
\* and possibly an owner the leader has chosen beforehand.
NewTask(owner, deps) ==
    [status |-> "pending", owner |-> owner, claim |-> NoClaim,
     version |-> 1, deps |-> deps]

-----------------------------------------------------------------------------
(* Conditions the operations test, and the records they write *)

\* claimTask grants the record v to worker w: an in_progress task only when the
\* lease of its claim has run out, a waiting one unless a live claim or another
\* owner stands in the way.
Claimable(v, w, leaseOver) ==
    \/ /\ v.status = "in_progress"
       /\ v.claim # NoClaim
       /\ leaseOver
    \/ /\ v.status \in {"pending", "blocked"}
       /\ v.claim = NoClaim \/ leaseOver
       /\ v.owner \in {Nobody, w}

Claimed(v, w, token) ==
    [status |-> "in_progress", owner |-> w,
     claim |-> [owner |-> w, token |-> token],
     version |-> v.version + 1, deps |-> v.deps]

HoldsAnyLease(v, token, leaseOver) ==      \* mutant: the token is not compared
    v.owner # Nobody /\ v.claim # NoClaim /\ v.claim.owner = v.owner /\ ~leaseOver

\* The caller shows the token of the claim of v, and its lease still runs:
\* the test shared by transitionTaskStatus and releaseTaskClaim.
HoldsLease(v, token, leaseOver) ==
    /\ v.owner # Nobody
    /\ v.claim # NoClaim
    /\ v.claim.owner = v.owner
    /\ v.claim.token = token
    /\ ~leaseOver

Finished(v, to) ==
    [status |-> to, owner |-> v.owner, claim |-> NoClaim,
     version |-> v.version + 1, deps |-> v.deps]

UnclaimedKeepingClaim(v) ==                \* mutant: the claim is not removed
    [status |-> "pending", owner |-> Nobody, claim |-> v.claim,
     version |-> v.version + 1, deps |-> v.deps]

UnclaimedAsTodo(v) ==                      \* mutant: a status no reader knows
    [status |-> "todo", owner |-> Nobody, claim |-> NoClaim,
     version |-> v.version + 1, deps |-> v.deps]

\* Back to the pool, by releaseTaskClaim or reclaimExpiredTaskClaim.
Unclaimed(v) ==
    [status |-> "pending", owner |-> Nobody, claim |-> NoClaim,
     version |-> v.version + 1, deps |-> v.deps]

Edited(v, deps) ==
    [status |-> v.status, owner |-> v.owner, claim |-> v.claim,
     version |-> v.version + 1, deps |-> deps]

Settled(d) == task[d].status \in Terminal   \* mutant: a failed dependency will do

\* computeTaskReadiness: every dependency is a completed task.
Done(d) == task[d].status = "completed"
Ready(t) == \A d \in task[t].deps : Done(d)

-----------------------------------------------------------------------------
(* Operations *)

BoardInit ==
    /\ task = [t \in Task |-> Absent]
    /\ expired = [t \in Task |-> FALSE]
    /\ issued = [t \in Task |-> 0]

\* ASSUMPTION: the id is fresh.  createTask takes next_task_id of the manifest and writes the
\* file of that id whether or not there is one.  That there is none is what TeamRoster shows
\* (FreshTaskIds), up to the first save of an old copy of the manifest.  After such a save an
\* id can come again (its run team_roster_tasks), the new task takes the place of the old one,
\* with version 1 and without a claim, and what is promised here of a task from one step to
\* the next holds only of what has been written since.
CreateTask(t, owner, deps) ==
    /\ task[t] = Absent
    /\ task' = [task EXCEPT ![t] = NewTask(owner, deps)]
    /\ UNCHANGED <<expired, issued>>

GrantClaim(t, w) ==
    /\ Claimable(task[t], w, expired[t])
    /\ Ready(t)
    /\ issued' = [issued EXCEPT ![t] = @ + 1]
    /\ task' = [task EXCEPT ![t] = Claimed(@, w, issued[t] + 1)]
    /\ expired' = [expired EXCEPT ![t] = FALSE]

\* The outcome is recorded by whoever holds the claim; the lease may run out
\* between the handler's test of it and its write, so only the token counts.
Finish(t, to) ==
    /\ task[t].status = "in_progress"
    /\ task' = [task EXCEPT ![t] = Finished(@, to)]
    /\ expired' = [expired EXCEPT ![t] = FALSE]
    /\ UNCHANGED issued

Unclaim(t) ==
    /\ task[t].status = "in_progress"
    /\ task' = [task EXCEPT ![t] = Unclaimed(@)]
    /\ expired' = [expired EXCEPT ![t] = FALSE]
    /\ UNCHANGED issued

EditTask(t, deps) ==
    /\ task[t] # Absent
    /\ task' = [task EXCEPT ![t] = Edited(@, deps)]
    /\ UNCHANGED <<expired, issued>>

LeaseRunsOut(t) ==
    /\ task[t].claim # NoClaim
    /\ ~expired[t]
    /\ expired' = [expired EXCEPT ![t] = TRUE]
    /\ UNCHANGED <<task, issued>>

BoardNext ==
    \E t \in Task :
        \/ \E owner \in Worker \cup {Nobody}, deps \in SUBSET Task :
              CreateTask(t, owner, deps)
        \/ \E w \in Worker : GrantClaim(t, w)
        \/ \E to \in Terminal : Finish(t, to)
        \/ Unclaim(t)
        \/ \E deps \in SUBSET Task : EditTask(t, deps)
        \/ LeaseRunsOut(t)

BoardSpec == BoardInit /\ [][BoardNext]_boardVars

-----------------------------------------------------------------------------
(* Properties *)

BoardTypeOK ==
    /\ task \in [Task -> TaskRecord]
    /\ expired \in [Task -> BOOLEAN]
    /\ issued \in [Task -> Nat]

\* A task carries a claim exactly while it is in progress; the claim names the
\* owner of the task and carries the newest token, so that however many
\* processes were granted the task before, one at most can still finish it
\* (claimTask, transitionTaskStatus, releaseTaskClaim, reclaimExpiredTaskClaim).
OneLiveClaim ==
    \A t \in Task :
        LET v == task[t]
        IN IF v.status = "in_progress"
           THEN v.owner # Nobody /\ v.claim = [owner |-> v.owner, token |-> issued[t]]
           ELSE v.claim = NoClaim

=============================================================================
