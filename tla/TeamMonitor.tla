---------------------------- MODULE TeamMonitor ------------------------------
(***************************************************************************)
(* The monitor of a team: monitorTeam of src/src/team/runtime.ts takes back *)
(* the tasks whose lease is over, hands out free ones, logs events for what *)
(* has changed since the snapshot it read at its beginning, and writes a    *)
(* new snapshot at its end.  Meanwhile transitionTaskStatus logs the same   *)
(* completions itself and marks them in the same snapshot file, which       *)
(* nobody locks.  Monitors are the poll loop and "omq team status" calls;   *)
(* a Proc is a process that reports an outcome.                             *)
(*                                                                         *)
(* The operations of the task store are atomic here, which TaskClaims is    *)
(* shown to implement.  What TeamPhase models of a poll is left out, and    *)
(* so are the events about the states of workers, which follow the pattern  *)
(* of the one about their end.                                              *)
(***************************************************************************)
EXTENDS TaskBoard

CONSTANTS Monitor,       \* processes that may poll
          Proc,          \* processes that report outcomes
          Modes,         \* launch modes: is worker_launch_mode "prompt"?
          MaxClaims,     \* bound: claims of a task
          Mortal,        \* bound: the workers that may die
          Many           \* bound: events of a kind are counted up to Many

ASSUME MonitorAssumption == /\ Monitor \cap Proc = {}
                            /\ Modes \subseteq BOOLEAN
                            /\ Mortal \subseteq Worker
                            /\ MaxClaims \in Nat
                            /\ Many \in Nat \ {0}

VARIABLES alive,         \* workers whose pane or process is there
          prompt,        \* the launch mode
          settled,       \* history: tasks whose claim its worker knows of
          stuck,         \* history: claims that a poll made and could not give back
                         \* for the claim lock, or was killed with
          completions,   \* task_completed events logged for each task
          stops,         \* worker_stopped events logged for each worker
          snapshot,      \* the monitor snapshot file
          pc,            \* where a poll or a report is,
          copy,          \*   the snapshot it has read,
          reported,      \*   a report: the task it is about,
          view,          \*   a poll: the statuses it has listed,
          again,         \*     whether it has to list the tasks again,
          overdue,       \*     tasks it found in progress with a lease that is over,
          free,          \*     tasks it found pending, unowned and ready,
          seen,          \*     workers it found alive,
          held           \*     the claim it has made and not yet dispatched

teamVars == <<boardVars, alive, prompt, settled, stuck>>
eventVars == <<completions, stops>>
listVars == <<view, again, overdue, free>>
vars == <<teamVars, eventVars, snapshot, pc, copy, reported, listVars, seen, held>>

-----------------------------------------------------------------------------

Agent == Monitor \cup Proc

\* A snapshot that does not exist and one without entries are read alike.
Snapshot == [status    : [Task -> TaskStatus \cup {"absent"}],
             alive     : [Worker -> {"unknown", "yes", "no"}],
             announced : SUBSET Task]
NoSnapshot == [status    |-> [t \in Task |-> "absent"],
               alive     |-> [w \in Worker |-> "unknown"],
               announced |-> {}]

Bump(n) == IF n < Many THEN n + 1 ELSE Many

Goto(a, from, to) == pc[a] = from /\ pc' = [pc EXCEPT ![a] = to]

Init ==
    /\ BoardInit
    /\ alive = Worker
    /\ prompt \in Modes
    /\ settled = {}
    /\ stuck = {}
    /\ completions = [t \in Task |-> 0]
    /\ stops = [w \in Worker |-> 0]
    /\ snapshot = NoSnapshot
    /\ pc = [a \in Agent |-> "idle"]
    /\ copy = [a \in Agent |-> NoSnapshot]
    /\ reported = [p \in Proc |-> {}]
    /\ view = [m \in Monitor |-> NoSnapshot.status]
    /\ again = [m \in Monitor |-> FALSE]
    /\ overdue = [m \in Monitor |-> {}]
    /\ free = [m \in Monitor |-> {}]
    /\ seen = [m \in Monitor |-> {}]
    /\ held = [m \in Monitor |-> {}]

-----------------------------------------------------------------------------
(* The team at work.  A worker has the token of a claim it made, and reads the *)
(* one of a task that was assigned to it.                                      *)

SelfClaim(t, w) ==
    /\ w \in alive
    /\ issued[t] < MaxClaims
    /\ GrantClaim(t, w)
    /\ settled' = settled \cup {t}

Fail(t) ==
    /\ \E token \in 1..issued[t] : HoldsLease(task[t], token, expired[t])
    /\ Finish(t, "failed")
    /\ settled' = settled \ {t}

Work ==
    /\ \E t \in Task :
          \/ CreateTask(t, Nobody, {}) /\ UNCHANGED settled
          \/ \E w \in Worker : SelfClaim(t, w)
          \/ Fail(t)
          \/ LeaseRunsOut(t) /\ UNCHANGED settled
    /\ UNCHANGED <<alive, prompt, stuck, eventVars, snapshot, pc, copy, reported, listVars,
                   seen, held>>

Die(w) ==
    /\ w \in alive \cap Mortal
    /\ alive' = alive \ {w}
    /\ UNCHANGED <<boardVars, prompt, settled, stuck, eventVars, snapshot, pc, copy, reported,
                   listVars, seen, held>>

-----------------------------------------------------------------------------
(* A report: transitionTaskStatus to completed *)

reportUnchanged == <<alive, prompt, stuck, stops, listVars, seen, held>>

\* With whatever token was ever handed out; the snapshot comes next also when the
\* report was refused.
Report(p, t, token) ==
    /\ \/ /\ HoldsLease(task[t], token, expired[t])
          /\ Finish(t, "completed")
          /\ settled' = settled \ {t}
          /\ Goto(p, "idle", "announce")
       \/ /\ ~HoldsLease(task[t], token, expired[t])
          /\ UNCHANGED <<boardVars, settled>>
          /\ Goto(p, "idle", "readSnapshot")
    /\ reported' = [reported EXCEPT ![p] = {t}]
    /\ UNCHANGED <<completions, snapshot, copy, reportUnchanged>>

Announce(p) ==
    /\ Goto(p, "announce", "readSnapshot")
    /\ completions' = [t \in Task |-> IF t \in reported[p] THEN Bump(completions[t])
                                                            ELSE completions[t]]
    /\ UNCHANGED <<boardVars, settled, snapshot, copy, reported, reportUnchanged>>

ReadSnapshot(p) ==
    /\ Goto(p, "readSnapshot", "writeSnapshot")
    /\ copy' = [copy EXCEPT ![p] = snapshot]
    /\ UNCHANGED <<boardVars, settled, completions, snapshot, reported, reportUnchanged>>

EndReport(p) ==
    /\ pc' = [pc EXCEPT ![p] = "idle"]
    /\ copy' = [copy EXCEPT ![p] = NoSnapshot]
    /\ reported' = [reported EXCEPT ![p] = {}]

MarkOnly(p) ==                \* mutant: the rest of the snapshot is not kept
    /\ pc[p] = "writeSnapshot"
    /\ snapshot' = [NoSnapshot EXCEPT !.announced = reported[p]]
    /\ EndReport(p)
    /\ UNCHANGED <<boardVars, settled, completions, reportUnchanged>>

MarkAnnounced(p) ==
    /\ pc[p] = "writeSnapshot"
    /\ snapshot' = [copy[p] EXCEPT !.announced = @ \cup reported[p]]
    /\ EndReport(p)
    /\ UNCHANGED <<boardVars, settled, completions, reportUnchanged>>

\* The process dies; the event or the mark is never written.
CrashReport(p) ==
    /\ pc[p] # "idle"
    /\ EndReport(p)
    /\ UNCHANGED <<boardVars, settled, completions, snapshot, reportUnchanged>>

-----------------------------------------------------------------------------
(* A poll: monitorTeam *)

Begin(m) ==
    /\ Goto(m, "idle", "list")
    /\ copy' = [copy EXCEPT ![m] = snapshot]
    /\ UNCHANGED <<teamVars, eventVars, snapshot, reported, listVars, seen, held>>

Statuses == [t \in Task |-> task[t].status]
Unowned == {t \in Task : task[t].status = "pending" /\ task[t].owner = Nobody /\ Ready(t)}
Overdue == {t \in Task : /\ task[t].status = "in_progress"
                         /\ task[t].claim # NoClaim
                         /\ expired[t]}

List(m) ==
    /\ Goto(m, "list", "reclaim")
    /\ view' = [view EXCEPT ![m] = Statuses]
    /\ free' = [free EXCEPT ![m] = Unowned]
    /\ overdue' = [overdue EXCEPT ![m] = Overdue]
    /\ UNCHANGED <<teamVars, eventVars, snapshot, copy, reported, again, seen, held>>

SkipReclaim(m, t) ==          \* mutant: what is overdue is only reported
    /\ pc[m] = "reclaim"
    /\ t \in overdue[m]
    /\ overdue' = [overdue EXCEPT ![m] = @ \ {t}]
    /\ UNCHANGED <<teamVars, eventVars, snapshot, pc, copy, reported, view, again, free, seen,
                   held>>

\* reclaimExpiredTaskClaim looks again: the task may be finished, or granted anew.  When
\* it does not get the claim lock the task is left to a later poll.
Reclaim(m, t) ==
    /\ pc[m] = "reclaim"
    /\ t \in overdue[m]
    /\ overdue' = [overdue EXCEPT ![m] = @ \ {t}]
    /\ \/ /\ t \in Overdue
          /\ Unclaim(t)
          /\ settled' = settled \ {t}
          /\ again' = [again EXCEPT ![m] = TRUE]
       \/ UNCHANGED <<boardVars, settled, again>>
    /\ UNCHANGED <<alive, prompt, stuck, eventVars, snapshot, pc, copy, reported, view, free,
                   seen, held>>

\* When something was reclaimed the tasks are listed again; then the workers are
\* looked at, and without one that lives nothing is assigned.
Scan(m) ==
    LET listed == IF again[m] THEN Unowned ELSE free[m]
    IN /\ overdue[m] = {}
       /\ Goto(m, "reclaim", "assign")
       /\ view' = [view EXCEPT ![m] = IF again[m] THEN Statuses ELSE @]
       /\ seen' = [seen EXCEPT ![m] = alive]
       /\ free' = [free EXCEPT ![m] = IF alive = {} THEN {} ELSE listed]
       /\ again' = [again EXCEPT ![m] = FALSE]
       /\ UNCHANGED <<teamVars, eventVars, snapshot, copy, reported, overdue, held>>

\* assignTask, from its claim on.  It reads the task and claims that version.
Assign(m, t, w) ==
    /\ Goto(m, "assign", "dispatch")
    /\ t \in free[m] /\ w \in seen[m]
    /\ issued[t] < MaxClaims
    /\ GrantClaim(t, w)
    /\ settled' = settled \ {t}
    /\ held' = [held EXCEPT ![m] = {<<t, issued[t] + 1>>}]
    /\ free' = [free EXCEPT ![m] = @ \ {t}]
    /\ UNCHANGED <<alive, prompt, stuck, eventVars, snapshot, copy, reported, view, again,
                   overdue, seen>>

\* All workers are busy, the plan of the task is not approved, or the claim fails.
LeaveFree(m, t) ==
    /\ pc[m] = "assign"
    /\ t \in free[m]
    /\ free' = [free EXCEPT ![m] = @ \ {t}]
    /\ UNCHANGED <<teamVars, eventVars, snapshot, pc, copy, reported, view, again, overdue, seen,
                   held>>

\* The tasks of these claims that are still under them.
Current(claims) == {t \in Task : <<t, task[t].claim.token>> \in claims}

Dispatch(m) ==
    /\ \/ /\ Goto(m, "dispatch", "assign")
          /\ settled' = settled \cup Current(held[m])
          /\ held' = [held EXCEPT ![m] = {}]
          /\ again' = [again EXCEPT ![m] = TRUE]
       \/ /\ Goto(m, "dispatch", "release")
          /\ UNCHANGED <<settled, held, again>>
    /\ UNCHANGED <<boardVars, alive, prompt, stuck, eventVars, snapshot, copy, reported, view,
                   overdue, free, seen>>

KeepClaim(m) ==               \* mutant: the claim is not rolled back
    /\ Goto(m, "release", "assign")
    /\ held' = [held EXCEPT ![m] = {}]
    /\ UNCHANGED <<teamVars, eventVars, snapshot, copy, reported, listVars, seen>>

\* The worker could not be told: releaseTaskClaim, which refuses when the lease is
\* over or the task is not held under this token any more.  It also refuses when it does
\* not get the claim lock in time, and assignTask throws: the claim stays.
RollBack(m) ==
    /\ Goto(m, "release", "assign")
    /\ \E t \in Task, token \in 1..MaxClaims :
          /\ <<t, token>> \in held[m]
          /\ \/ /\ HoldsLease(task[t], token, expired[t])
                /\ Unclaim(t)
                /\ settled' = settled \ {t}
                /\ UNCHANGED stuck
             \/ /\ ~HoldsLease(task[t], token, expired[t])
                /\ UNCHANGED <<boardVars, settled, stuck>>
             \/ /\ stuck' = stuck \cup {<<t, token>>}
                /\ UNCHANGED <<boardVars, settled>>
    /\ held' = [held EXCEPT ![m] = {}]
    /\ UNCHANGED <<alive, prompt, eventVars, snapshot, copy, reported, listVars, seen>>

Ended(m, now) ==              \* mutant: failed tasks are logged as completed
    {t \in Task : /\ copy[m].status[t] \notin {"absent", "completed", "failed"}
                  /\ now[t] \in Terminal
                  /\ t \notin copy[m].announced}

\* emitMonitorDerivedEvents, after the tasks were listed again if one was assigned:
\* a completion since the snapshot, unless it is marked there, and the end of a
\* worker that was alive then.
Completed(m, now) ==
    {t \in Task : /\ copy[m].status[t] \notin {"absent", "completed"}
                  /\ now[t] = "completed"
                  /\ t \notin copy[m].announced}
Stopped(m) ==
    {w \in Worker : /\ w \notin seen[m]
                    /\ \/ copy[m].alive[w] = "yes"
                       \/ prompt /\ copy[m].alive[w] = "unknown"}

Emit(m) ==
    LET now == IF again[m] THEN Statuses ELSE view[m]
    IN /\ free[m] = {}
       /\ Goto(m, "assign", "write")
       /\ view' = [view EXCEPT ![m] = now]
       /\ again' = [again EXCEPT ![m] = FALSE]
       /\ completions' = [t \in Task |-> IF t \in Completed(m, now) THEN Bump(completions[t])
                                                                   ELSE completions[t]]
       /\ stops' = [w \in Worker |-> IF w \in Stopped(m) THEN Bump(stops[w]) ELSE stops[w]]
       /\ UNCHANGED <<teamVars, snapshot, copy, reported, overdue, free, seen, held>>

\* The poll is over and its local variables with it.
EndPoll(m) ==
    /\ pc' = [pc EXCEPT ![m] = "idle"]
    /\ copy' = [copy EXCEPT ![m] = NoSnapshot]
    /\ view' = [view EXCEPT ![m] = NoSnapshot.status]
    /\ again' = [again EXCEPT ![m] = FALSE]
    /\ overdue' = [overdue EXCEPT ![m] = {}]
    /\ free' = [free EXCEPT ![m] = {}]
    /\ seen' = [seen EXCEPT ![m] = {}]
    /\ held' = [held EXCEPT ![m] = {}]

RecordLatest(m) ==            \* mutant: the tasks are listed once more for the snapshot
    /\ pc[m] = "write"
    /\ snapshot' = [status |-> Statuses,
                    alive |-> [w \in Worker |-> IF w \in seen[m] THEN "yes" ELSE "no"],
                    announced |-> copy[m].announced]
    /\ EndPoll(m)
    /\ UNCHANGED <<teamVars, eventVars, reported>>

\* The marks are those of the snapshot the poll began with.
Record(m) ==
    /\ pc[m] = "write"
    /\ snapshot' = [status |-> view[m],
                    alive |-> [w \in Worker |-> IF w \in seen[m] THEN "yes" ELSE "no"],
                    announced |-> copy[m].announced]
    /\ EndPoll(m)
    /\ UNCHANGED <<teamVars, eventVars, reported>>

\* The poll is interrupted.
Abort(m) ==
    /\ pc[m] # "idle"
    /\ EndPoll(m)
    /\ stuck' = stuck \cup held[m]
    /\ UNCHANGED <<boardVars, alive, prompt, settled, eventVars, snapshot, reported>>

-----------------------------------------------------------------------------

Poll(m) ==
    \/ List(m) \/ \E t \in Task : Reclaim(m, t)
    \/ Scan(m)
    \/ \E t \in Task : (\E w \in Worker : Assign(m, t, w)) \/ LeaveFree(m, t)
    \/ Dispatch(m) \/ RollBack(m) \/ Emit(m) \/ Record(m)

Next ==
    \/ Work
    \/ \E w \in Worker : Die(w)
    \/ \E p \in Proc : \/ \E t \in Task : \E token \in 1..issued[t] : Report(p, t, token)
                       \/ Announce(p) \/ ReadSnapshot(p) \/ MarkAnnounced(p) \/ CrashReport(p)
    \/ \E m \in Monitor : Begin(m) \/ Poll(m) \/ Abort(m)

Spec == Init /\ [][Next]_vars

\* reclaimExpiredTaskClaim gets the lock.
TakenBack(m, t) == Reclaim(m, t) /\ again'[m] /\ t \notin Overdue'

\* A poll that has started gets on, and whoever asks again and again for a claim lock gets
\* it some time: its sections are short, and what a crash leaves of it is recovered.  That
\* reports get on is not needed.
FairSpec == Spec /\ \A m \in Monitor : WF_vars(Poll(m))
                                      /\ \A t \in Task : SF_vars(TakenBack(m, t))

-----------------------------------------------------------------------------
(* Properties *)

TypeOK ==
    /\ task \in [Task -> TaskRecord]
    /\ expired \in [Task -> BOOLEAN]
    /\ issued \in [Task -> 0..MaxClaims]
    /\ alive \subseteq Worker
    /\ prompt \in Modes
    /\ settled \subseteq {t \in Task : task[t].status = "in_progress"}
    /\ stuck \subseteq Task \X (1..MaxClaims)
    /\ completions \in [Task -> 0..Many]
    /\ stops \in [Worker -> 0..Many]
    /\ snapshot \in Snapshot
    /\ pc \in [Agent -> {"idle", "list", "reclaim", "assign", "dispatch", "release",
                         "write", "announce", "readSnapshot", "writeSnapshot"}]
    /\ copy \in [Agent -> Snapshot]
    /\ reported \in [Proc -> SUBSET Task]
    /\ view \in [Monitor -> [Task -> TaskStatus \cup {"absent"}]]
    /\ again \in [Monitor -> BOOLEAN]
    /\ overdue \in [Monitor -> SUBSET Task]
    /\ free \in [Monitor -> SUBSET Task]
    /\ seen \in [Monitor -> SUBSET Worker]
    /\ held \in [Monitor -> SUBSET (Task \X (1..MaxClaims))]

\* Nobody logs a completion, from however old a view, of a task that is not
\* completed.
CompletionsTrue == \A t \in Task : completions[t] > 0 => task[t].status = "completed"

\* A claim whose lease runs is one its worker knows of, or the poll that made it will
\* tell the worker or give it back: "Roll back claim to avoid stuck in_progress tasks on
\* any post-claim dispatch failure" (src/src/team/runtime.ts:2111).  The exceptions are a
\* poll that was killed in between and one that could not have the claim lock for that.
ClaimKnown ==
    \A t \in Task :
        LET claim == <<t, task[t].claim.token>>
        IN task[t].status = "in_progress" /\ ~expired[t] =>
              t \in settled \/ claim \in stuck \/ \E m \in Monitor : claim \in held[m]

\* The premise of what must happen: the team is polled for ever.
PolledForever == []<><<\E m \in Monitor : Record(m)>>_vars

\* A claim whose lease is over is taken back, whatever became of its worker and of the
\* poll that made it, and however often a poll does not get the lock to do so.
OverdueEnds == PolledForever => \A t \in Task : t \in Overdue ~> t \notin Overdue

\* A task all snapshots show unfinished, in the file and in memory, and that is never
\* marked, is announced when it is completed, also when the process that completed
\* it died before it could log that.
Unfinished(t) ==
    /\ snapshot.status[t] \notin {"absent", "completed"}
    /\ \A a \in Agent : pc[a] \in {"idle", "announce", "readSnapshot"}
                           \/ copy[a].status[t] \notin {"absent", "completed"}
    /\ \A m \in Monitor : pc[m] \in {"idle", "list"} \/ view[m][t] # "absent"
CompletionAnnounced ==
    PolledForever => \A t \in Task :
        [](/\ Unfinished(t)
           /\ [](t \notin snapshot.announced)
           /\ <>(task[t].status = "completed")
           => <>(completions[t] > 0))

\* So is the end of a worker that all snapshots show alive (in prompt mode: do not
\* show dead), although reports put back older snapshots.
NotedAlive(w) ==
    LET noted == IF prompt THEN {"yes", "unknown"} ELSE {"yes"}
    IN /\ snapshot.alive[w] \in noted
       /\ \A a \in Agent : pc[a] \in {"idle", "announce", "readSnapshot"}
                              \/ copy[a].alive[w] \in noted
StopAnnounced ==
    PolledForever => \A w \in Worker :
        [](NotedAlive(w) /\ <>(w \notin alive) => <>(stops[w] > 0))

\* "monitorTeam does not emit duplicate task_completed when transitionTaskStatus
\* completed the task first (issue #161)"
\* (src/src/team/__tests__/runtime.test.ts:3262).
NoDuplicate == \A t \in Task : completions[t] <= 1

=============================================================================
