------------------------- MODULE TeamMonitor_proofs --------------------------
(***************************************************************************)
(* Proofs about TeamMonitor: its types, that no poll of the monitor leaves *)
(* a task under a claim its worker never hears of but for a kill or a lock *)
(* it cannot have, and that none announces a task that is not completed,   *)
(* for any number of tasks, workers, monitors and reporting processes.     *)
(***************************************************************************)
EXTENDS TeamMonitor, TaskBoard_proofs

-----------------------------------------------------------------------------
(* The inductive invariant *)

\* A poll has one claim in hand from the moment it made it until the worker is
\* told or the claim given back, and none otherwise.
Telling ==
    \A m \in Monitor :
        IF pc[m] \in {"dispatch", "release"}
        THEN \E t \in Task, k \in 1..MaxClaims : held[m] = {<<t, k>>}
        ELSE held[m] = {}

\* What a poll has listed as completed is completed, however old its list; and so
\* is what a report is about to announce.
ViewsTrue ==
    /\ \A m \in Monitor, t \in Task : view[m][t] = "completed" => task[t].status = "completed"
    /\ \A p \in Proc : pc[p] = "announce" =>
          \A t \in reported[p] : task[t].status = "completed"

IInv == TypeOK /\ OneLiveClaim /\ Telling /\ ViewsTrue /\ CompletionsTrue /\ ClaimKnown

\* The parts of TypeOK that are not about the files of the tasks.
AgentTypes ==
    /\ alive \subseteq Worker
    /\ prompt \in Modes
    /\ stuck \subseteq Task \X (1..MaxClaims)
    /\ completions \in [Task -> 0..Many]
    /\ stops \in [Worker -> 0..Many]
    /\ snapshot \in Snapshot
    /\ pc \in [Agent -> {"idle", "list", "reclaim", "assign", "dispatch", "release",
                         "write", "announce", "readSnapshot", "writeSnapshot"}]
    /\ copy \in [Agent -> Snapshot]
    /\ reported \in [Proc -> SUBSET Task]
    /\ view \in [Monitor -> [Task -> TaskStatus \cup {"absent"}]]
    /\ again \in [Monitor -> BOOLEAN]
    /\ overdue \in [Monitor -> SUBSET Task]
    /\ free \in [Monitor -> SUBSET Task]
    /\ seen \in [Monitor -> SUBSET Worker]
    /\ held \in [Monitor -> SUBSET (Task \X (1..MaxClaims))]
SettledBusy == settled \subseteq {t \in Task : task[t].status = "in_progress"}
IssuedBounded == \A t \in Task : issued[t] <= MaxClaims

LEMMA TypeParts ==
    /\ TypeOK => BoardTypeOK /\ AgentTypes /\ SettledBusy /\ IssuedBounded
    /\ BoardTypeOK /\ AgentTypes /\ SettledBusy /\ IssuedBounded => TypeOK
<1>1. ASSUME BoardTypeOK, IssuedBounded
      PROVE  issued \in [Task -> 0..MaxClaims]
  BY <1>1, MonitorAssumption DEF BoardTypeOK, IssuedBounded
<1>2. ASSUME TypeOK
      PROVE  BoardTypeOK /\ IssuedBounded
  BY <1>2, MonitorAssumption DEF TypeOK, BoardTypeOK, IssuedBounded
<1>3. QED
  BY <1>1, <1>2 DEF TypeOK, BoardTypeOK, AgentTypes, SettledBusy

-----------------------------------------------------------------------------
(* Every step is an operation of the task store, or leaves the store alone *)

LEMMA WorkOnBoard == Work => BoardNext
<1> SUFFICES ASSUME Work PROVE BoardNext
  OBVIOUS
<1>1. PICK t \in Task :
        \/ CreateTask(t, Nobody, {})
        \/ \E w \in Worker : SelfClaim(t, w)
        \/ Fail(t)
        \/ LeaseRunsOut(t)
  BY DEF Work
<1>2. CASE CreateTask(t, Nobody, {})
  BY <1>2 DEF BoardNext
<1>3. CASE \E w \in Worker : SelfClaim(t, w)
  BY <1>3 DEF BoardNext, SelfClaim
<1>4. CASE Fail(t)
  BY <1>4 DEF BoardNext, Fail, Terminal
<1>5. CASE LeaseRunsOut(t)
  BY <1>5 DEF BoardNext
<1>6. QED
  BY <1>1, <1>2, <1>3, <1>4, <1>5

LEMMA ReportOnBoard ==
    ASSUME NEW p \in Proc,
           \/ \E t \in Task : \E token \in 1..issued[t] : Report(p, t, token)
           \/ Announce(p) \/ ReadSnapshot(p) \/ MarkAnnounced(p) \/ CrashReport(p)
    PROVE  [BoardNext]_boardVars
<1>1. ASSUME NEW t \in Task, NEW token \in 1..issued[t], Report(p, t, token)
      PROVE  [BoardNext]_boardVars
  BY <1>1 DEF Report, BoardNext, Terminal
<1>2. CASE Announce(p) \/ ReadSnapshot(p) \/ MarkAnnounced(p) \/ CrashReport(p)
  BY <1>2 DEF Announce, ReadSnapshot, MarkAnnounced, CrashReport
<1>3. QED
  BY <1>1, <1>2

LEMMA PollOnBoard ==
    ASSUME NEW m \in Monitor, Begin(m) \/ Poll(m) \/ Abort(m)
    PROVE  [BoardNext]_boardVars
<1>1. CASE Begin(m) \/ List(m) \/ Scan(m) \/ Dispatch(m) \/ Emit(m) \/ Record(m) \/ Abort(m)
  BY <1>1 DEF Begin, List, Scan, Dispatch, Emit, Record, Abort, teamVars
<1>2. ASSUME NEW t \in Task, Reclaim(m, t)
      PROVE  [BoardNext]_boardVars
  BY <1>2 DEF Reclaim, BoardNext
<1>3. ASSUME NEW t \in Task, NEW w \in Worker, Assign(m, t, w)
      PROVE  [BoardNext]_boardVars
  BY <1>3 DEF Assign, BoardNext
<1>4. ASSUME NEW t \in Task, LeaveFree(m, t)
      PROVE  [BoardNext]_boardVars
  BY <1>4 DEF LeaveFree, teamVars
<1>5. CASE RollBack(m)
  <2>1. (\E t \in Task : Unclaim(t)) \/ UNCHANGED boardVars
    BY <1>5 DEF RollBack
  <2>2. QED
    BY <2>1 DEF BoardNext
<1>6. QED
  BY <1>1, <1>2, <1>3, <1>4, <1>5 DEF Poll

LEMMA StepsOnBoard == [Next]_vars => [BoardNext]_boardVars
  BY WorkOnBoard, ReportOnBoard, PollOnBoard DEF Next, Die, vars, teamVars, boardVars

-----------------------------------------------------------------------------
(* Types *)

LEMMA Snapshots ==
    /\ NoSnapshot \in Snapshot
    /\ NoSnapshot.status \in [Task -> TaskStatus \cup {"absent"}]
    /\ \A st \in [Task -> TaskStatus \cup {"absent"}], S \in SUBSET Worker, A \in SUBSET Task :
          [status |-> st,
           alive |-> [w \in Worker |-> IF w \in S THEN "yes" ELSE "no"],
           announced |-> A] \in Snapshot
    /\ \A c \in Snapshot : c.announced \in SUBSET Task
    /\ \A c \in Snapshot, A \in SUBSET Task : [c EXCEPT !.announced = A] \in Snapshot
    /\ BoardTypeOK => Statuses \in [Task -> TaskStatus \cup {"absent"}]
<1> USE DEF Snapshot
<1>1. NoSnapshot.status \in [Task -> TaskStatus \cup {"absent"}]
  BY DEF NoSnapshot
<1>2. NoSnapshot \in Snapshot
  BY DEF NoSnapshot
<1>3. ASSUME NEW st \in [Task -> TaskStatus \cup {"absent"}], NEW S \in SUBSET Worker,
             NEW A \in SUBSET Task
      PROVE  [status |-> st,
              alive |-> [w \in Worker |-> IF w \in S THEN "yes" ELSE "no"],
              announced |-> A] \in Snapshot
  OBVIOUS
<1>4. \A c \in Snapshot : c.announced \in SUBSET Task
  OBVIOUS
<1>5. \A c \in Snapshot, A \in SUBSET Task : [c EXCEPT !.announced = A] \in Snapshot
  OBVIOUS
<1>6. BoardTypeOK => Statuses \in [Task -> TaskStatus \cup {"absent"}]
  BY DEF BoardTypeOK, TaskRecord, Statuses
<1>7. QED
  BY <1>1, <1>2, <1>3, <1>4, <1>5, <1>6

LEMMA Bumped == \A n \in 0..Many : Bump(n) \in 0..Many
  BY MonitorAssumption DEF Bump

LEMMA TeamTypes ==
    ASSUME AgentTypes, Work \/ \E w \in Worker : Die(w)
    PROVE  AgentTypes'
  BY DEF AgentTypes, Work, Die, eventVars, listVars

LEMMA ReportTypes ==
    ASSUME BoardTypeOK, AgentTypes, NEW p \in Proc,
           \/ \E t \in Task : \E token \in 1..issued[t] : Report(p, t, token)
           \/ Announce(p) \/ ReadSnapshot(p) \/ MarkAnnounced(p) \/ CrashReport(p)
    PROVE  AgentTypes'
<1> USE DEF AgentTypes, reportUnchanged, listVars, Goto
<1>0. p \in Agent
  BY DEF Agent
<1>1. ASSUME NEW t \in Task, NEW token \in 1..issued[t], Report(p, t, token)
      PROVE  AgentTypes'
  BY <1>0, <1>1 DEF Report
<1>2. CASE Announce(p)
  BY <1>0, <1>2, Bumped DEF Announce
<1>3. CASE ReadSnapshot(p)
  BY <1>0, <1>3 DEF ReadSnapshot
<1>4. CASE MarkAnnounced(p)
  <2>1. snapshot' \in Snapshot
    <3>1. copy[p] \in Snapshot /\ reported[p] \in SUBSET Task
      BY <1>0
    <3>2. copy[p].announced \cup reported[p] \in SUBSET Task
      BY <3>1, Snapshots
    <3>3. [copy[p] EXCEPT !.announced = copy[p].announced \cup reported[p]] \in Snapshot
      BY <3>1, <3>2, Snapshots
    <3>4. QED
      BY <1>4, <3>3 DEF MarkAnnounced
  <2>2. EndReport(p) /\ UNCHANGED <<boardVars, settled, completions, reportUnchanged>>
    BY <1>4 DEF MarkAnnounced
  <2>3. QED
    BY <1>0, <2>1, <2>2, Snapshots DEF EndReport
<1>5. CASE CrashReport(p)
  BY <1>0, <1>5, Snapshots DEF CrashReport, EndReport
<1>6. QED
  BY <1>1, <1>2, <1>3, <1>4, <1>5

LEMMA EndPollTypes ==
    ASSUME AgentTypes, NEW m \in Monitor, EndPoll(m),
           UNCHANGED <<alive, prompt, eventVars, reported>>, snapshot' \in Snapshot,
           stuck' \subseteq Task \X (1..MaxClaims)
    PROVE  AgentTypes'
  BY Snapshots DEF AgentTypes, EndPoll, eventVars, Agent

LEMMA PollTypes ==
    ASSUME BoardTypeOK, AgentTypes, NEW m \in Monitor, Begin(m) \/ Poll(m) \/ Abort(m)
    PROVE  AgentTypes'
<1> USE DEF AgentTypes, teamVars, eventVars, listVars, Goto
<1>0. m \in Agent /\ Statuses \in [Task -> TaskStatus \cup {"absent"}]
  BY Snapshots DEF Agent
<1>1. CASE Begin(m)
  BY <1>0, <1>1 DEF Begin
<1>2. CASE List(m)
  BY <1>0, <1>2 DEF List, Unowned, Overdue
<1>3. ASSUME NEW t \in Task, Reclaim(m, t)
      PROVE  AgentTypes'
  BY <1>0, <1>3 DEF Reclaim
<1>4. CASE Scan(m)
  BY <1>0, <1>4 DEF Scan, Unowned
<1>5. ASSUME NEW t \in Task, NEW w \in Worker, Assign(m, t, w), issued[t] + 1 \in 1..MaxClaims
      PROVE  AgentTypes'
  BY <1>0, <1>5 DEF Assign
<1>6. ASSUME NEW t \in Task, LeaveFree(m, t)
      PROVE  AgentTypes'
  BY <1>0, <1>6 DEF LeaveFree
<1>7. CASE Dispatch(m)
  BY <1>0, <1>7 DEF Dispatch
<1>8. CASE RollBack(m)
  BY <1>0, <1>8 DEF RollBack
<1>9. CASE Emit(m)
  BY <1>0, <1>9, Bumped DEF Emit
<1>10. CASE Record(m)
  <2>1. view[m] \in [Task -> TaskStatus \cup {"absent"}] /\ seen[m] \in SUBSET Worker
        /\ copy[m].announced \in SUBSET Task
    BY <1>0, Snapshots
  <2>2. snapshot' \in Snapshot
    BY <1>10, <2>1, Snapshots DEF Record
  <2>3. QED
    BY <1>10, <2>2, EndPollTypes DEF Record
<1>11. CASE Abort(m)
  BY <1>11, EndPollTypes DEF Abort
<1>12. \A t \in Task, w \in Worker : Assign(m, t, w) => issued[t] + 1 \in 1..MaxClaims
  BY MonitorAssumption DEF Assign, BoardTypeOK
<1>13. QED
  BY <1>1, <1>2, <1>3, <1>4, <1>5, <1>6, <1>7, <1>8, <1>9, <1>10, <1>11, <1>12 DEF Poll

-----------------------------------------------------------------------------
(* What the operations do to a task, and leave of the others *)

LEMMA GrantEffect ==
    ASSUME BoardTypeOK, NEW t \in Task, NEW w \in Worker, GrantClaim(t, w)
    PROVE  /\ task'[t].status = "in_progress"
           /\ task'[t].claim.token = issued[t] + 1
           /\ issued'[t] = issued[t] + 1
           /\ \A u \in Task \ {t} :
                 task'[u] = task[u] /\ expired'[u] = expired[u] /\ issued'[u] = issued[u]
  BY DEF BoardTypeOK, GrantClaim, Claimed

LEMMA EndEffect ==
    ASSUME BoardTypeOK, NEW t \in Task,
           Unclaim(t) \/ \E to \in Terminal : Finish(t, to)
    PROVE  /\ task[t].status = "in_progress"
           /\ task'[t].status # "in_progress"
           /\ issued' = issued
           /\ \A u \in Task \ {t} : task'[u] = task[u] /\ expired'[u] = expired[u]
<1>1. CASE Unclaim(t)
  BY <1>1 DEF BoardTypeOK, Unclaim, Unclaimed
<1>2. ASSUME NEW to \in Terminal, Finish(t, to)
      PROVE  /\ task[t].status = "in_progress"
             /\ task'[t].status # "in_progress"
             /\ issued' = issued
             /\ \A u \in Task \ {t} : task'[u] = task[u] /\ expired'[u] = expired[u]
  BY <1>2 DEF BoardTypeOK, Finish, Finished, Terminal
<1>3. QED
  BY <1>1, <1>2

-----------------------------------------------------------------------------
(* Claims and who knows of them *)

Known == SettledBusy /\ IssuedBounded /\ ClaimKnown

\* Nothing happens to the tasks and the claims.
LEMMA QuietStep ==
    ASSUME Known, UNCHANGED <<task, expired, issued, settled, stuck, held>>
    PROVE  Known'
  BY DEF Known, SettledBusy, IssuedBounded, ClaimKnown

\* A claim is made, and its worker knows of it.
LEMMA OwnGrantStep ==
    ASSUME BoardTypeOK, Known, NEW t \in Task, NEW w \in Worker, SelfClaim(t, w),
           UNCHANGED <<held, stuck>>
    PROVE  Known'
<1>1. /\ issued[t] < MaxClaims /\ GrantClaim(t, w) /\ settled' = settled \cup {t}
      /\ issued[t] \in Nat
  BY DEF SelfClaim, BoardTypeOK
<1>2. QED
  BY <1>1, GrantEffect, MonitorAssumption DEF Known, SettledBusy, IssuedBounded, ClaimKnown

\* A task is finished or goes back to the pool.
LEMMA EndStep ==
    ASSUME BoardTypeOK, Known, NEW t \in Task,
           Unclaim(t) \/ \E to \in Terminal : Finish(t, to),
           settled' = settled \ {t}, UNCHANGED stuck,
           \A u \in Task \ {t}, m \in Monitor : \A k : <<u, k>> \in held[m] => <<u, k>> \in held'[m]
    PROVE  Known'
  BY EndEffect DEF Known, SettledBusy, IssuedBounded, ClaimKnown

\* A poll tells the worker of the claim it made, or drops it where it is settled or
\* not current any more.
LEMMA TellStep ==
    ASSUME BoardTypeOK, OneLiveClaim, Known, AgentTypes, NEW m \in Monitor,
           UNCHANGED <<task, expired, issued, stuck>>,
           settled' = settled \cup Current(held[m]),
           held' = [held EXCEPT ![m] = {}]
    PROVE  Known'
<1>1. held[m] \in SUBSET (Task \X (1..MaxClaims))
  BY DEF AgentTypes
<1>2. \A t \in Current(held[m]) : t \in Task /\ task[t].claim.token \in 1..MaxClaims
  BY <1>1 DEF Current
<1>3. \A t \in Current(held[m]) : t \in Task /\ task[t].status = "in_progress"
  <2> SUFFICES ASSUME NEW t \in Current(held[m]), task[t].status # "in_progress"
               PROVE  FALSE
    BY <1>2
  <2>1. task[t].claim = NoClaim
    BY <1>2 DEF OneLiveClaim
  <2>2. task[t].claim.token = 0 /\ MaxClaims \in Nat
    BY <2>1, MonitorAssumption DEF NoClaim
  <2>3. QED
    BY <1>2, <2>2
<1>4. SettledBusy' /\ IssuedBounded'
  BY <1>3 DEF Known, SettledBusy, IssuedBounded
<1>5. ClaimKnown'
  <2> SUFFICES ASSUME NEW t \in Task, task[t].status = "in_progress", ~expired[t]
               PROVE  \/ t \in settled' \/ <<t, task[t].claim.token>> \in stuck
                      \/ \E n \in Monitor : <<t, task[t].claim.token>> \in held'[n]
    BY DEF ClaimKnown
  <2>1. CASE t \in settled \/ <<t, task[t].claim.token>> \in stuck
    BY <2>1
  <2>2. ASSUME NEW n \in Monitor, <<t, task[t].claim.token>> \in held[n]
        PROVE  \/ t \in settled'
               \/ \E o \in Monitor : <<t, task[t].claim.token>> \in held'[o]
    <3>1. CASE n = m
      BY <2>2, <3>1 DEF Current
    <3>2. CASE n # m
      BY <2>2, <3>2 DEF AgentTypes
    <3>3. QED
      BY <3>1, <3>2
  <2>3. QED
    BY <2>1, <2>2 DEF Known, ClaimKnown
<1>6. QED
  BY <1>4, <1>5 DEF Known

\* A poll is killed with the claim it made.
LEMMA KilledStep ==
    ASSUME Known, AgentTypes, NEW m \in Monitor,
           UNCHANGED <<task, expired, issued, settled>>,
           stuck' = stuck \cup held[m],
           held' = [held EXCEPT ![m] = {}]
    PROVE  Known'
<1>1. SettledBusy' /\ IssuedBounded'
  BY DEF Known, SettledBusy, IssuedBounded
<1>2. \A n \in Monitor \ {m} : held'[n] = held[n]
  BY DEF AgentTypes
<1>3. ClaimKnown'
  BY <1>2 DEF Known, ClaimKnown
<1>4. QED
  BY <1>1, <1>3 DEF Known

\* assignTask makes a claim: the poll has it in hand, and had none.
LEMMA AssignStep ==
    ASSUME BoardTypeOK, Known, Telling, AgentTypes,
           NEW m \in Monitor, NEW t \in Task, NEW w \in Worker, Assign(m, t, w)
    PROVE  Known'
<1>1. /\ issued[t] < MaxClaims /\ GrantClaim(t, w) /\ settled' = settled \ {t}
      /\ held' = [held EXCEPT ![m] = {<<t, issued[t] + 1>>}]
      /\ pc[m] = "assign"
      /\ issued[t] \in Nat
      /\ UNCHANGED stuck
  BY DEF Assign, BoardTypeOK, Goto
<1>2. held[m] = {}
  BY <1>1 DEF Telling
<1>3. /\ held'[m] = {<<t, issued[t] + 1>>}
      /\ \A n \in Monitor \ {m} : held'[n] = held[n]
  BY <1>1 DEF AgentTypes
<1>4. SettledBusy' /\ IssuedBounded'
  BY <1>1, GrantEffect, MonitorAssumption DEF Known, SettledBusy, IssuedBounded
<1>5. ClaimKnown'
  <2> SUFFICES ASSUME NEW u \in Task, task'[u].status = "in_progress", ~expired'[u]
               PROVE  \/ u \in settled' \/ <<u, task'[u].claim.token>> \in stuck'
                      \/ \E n \in Monitor : <<u, task'[u].claim.token>> \in held'[n]
    BY DEF ClaimKnown
  <2>1. CASE u = t
    BY <1>1, <1>3, <2>1, GrantEffect
  <2>2. CASE u # t
    <3>1. /\ task'[u] = task[u] /\ expired'[u] = expired[u]
          /\ u \in settled => u \in settled'
      BY <1>1, <2>2, GrantEffect
    <3>2. \/ u \in settled \/ <<u, task[u].claim.token>> \in stuck
          \/ \E n \in Monitor : <<u, task[u].claim.token>> \in held[n]
      BY <3>1 DEF Known, ClaimKnown
    <3>3. QED
      BY <1>1, <1>2, <1>3, <3>1, <3>2
  <2>3. QED
    BY <2>1, <2>2
<1>6. QED
  BY <1>4, <1>5 DEF Known

\* The claim in hand is given back, or is no longer in force, or the lock is not had.
LEMMA RollBackStep ==
    ASSUME BoardTypeOK, OneLiveClaim, Known, Telling, AgentTypes,
           NEW m \in Monitor, RollBack(m)
    PROVE  Known'
<1>1. PICK t \in Task, token \in 1..MaxClaims :
        /\ <<t, token>> \in held[m]
        /\ \/ /\ HoldsLease(task[t], token, expired[t])
              /\ Unclaim(t)
              /\ settled' = settled \ {t}
              /\ UNCHANGED stuck
           \/ /\ ~HoldsLease(task[t], token, expired[t])
              /\ UNCHANGED <<boardVars, settled, stuck>>
           \/ /\ stuck' = stuck \cup {<<t, token>>}
              /\ UNCHANGED <<boardVars, settled>>
  BY DEF RollBack
<1>2. held[m] = {<<t, token>>}
  <2>1. \E u \in Task, k \in 1..MaxClaims : held[m] = {<<u, k>>}
    BY DEF Telling, RollBack, Goto
  <2>2. QED
    BY <1>1, <2>1
<1>3. /\ held'[m] = {}
      /\ \A n \in Monitor \ {m} : held'[n] = held[n]
  BY DEF RollBack, AgentTypes
<1>4. CASE Unclaim(t) /\ settled' = settled \ {t} /\ UNCHANGED stuck
  <2>1. \A u \in Task \ {t}, n \in Monitor : \A k :
           <<u, k>> \in held[n] => <<u, k>> \in held'[n]
    BY <1>2, <1>3
  <2>2. QED
    BY <1>4, <2>1, EndStep
<1>5. CASE ~HoldsLease(task[t], token, expired[t]) /\ UNCHANGED <<boardVars, settled, stuck>>
  <2>1. SettledBusy' /\ IssuedBounded'
    BY <1>5 DEF Known, SettledBusy, IssuedBounded, boardVars
  <2>2. task[t].status = "in_progress" /\ ~expired[t] => task[t].claim.token # token
    <3> SUFFICES ASSUME task[t].status = "in_progress", ~expired[t],
                        task[t].claim.token = token
                 PROVE  HoldsLease(task[t], token, expired[t])
      BY <1>5
    <3>1. task[t].owner # Nobody /\ task[t].claim = [owner |-> task[t].owner, token |-> issued[t]]
      BY DEF OneLiveClaim
    <3>2. task[t].claim # NoClaim
      BY <3>1 DEF NoClaim
    <3>3. QED
      BY <3>1, <3>2 DEF HoldsLease
  <2>3. ClaimKnown'
    <3> SUFFICES ASSUME NEW u \in Task, task[u].status = "in_progress", ~expired[u]
                 PROVE  \/ u \in settled \/ <<u, task[u].claim.token>> \in stuck
                        \/ \E n \in Monitor : <<u, task[u].claim.token>> \in held'[n]
      BY <1>5 DEF ClaimKnown, boardVars
    <3>1. <<u, task[u].claim.token>> \notin held[m]
      BY <1>2, <2>2
    <3>2. QED
      BY <1>3, <3>1 DEF Known, ClaimKnown
  <2>4. QED
    BY <2>1, <2>3 DEF Known
<1>6. CASE stuck' = stuck \cup {<<t, token>>} /\ UNCHANGED <<boardVars, settled>>
  <2>1. held' = [held EXCEPT ![m] = {}] /\ stuck' = stuck \cup held[m]
    BY <1>2, <1>6 DEF RollBack
  <2>2. QED
    BY <1>6, <2>1, KilledStep DEF boardVars
<1>7. QED
  BY <1>1, <1>4, <1>5, <1>6

LEMMA WorkKnown ==
    ASSUME BoardTypeOK, Known, Work
    PROVE  Known'
<1>1. PICK t \in Task :
        \/ CreateTask(t, Nobody, {}) /\ UNCHANGED settled
        \/ \E w \in Worker : SelfClaim(t, w)
        \/ Fail(t)
        \/ LeaseRunsOut(t) /\ UNCHANGED settled
  BY DEF Work
<1>2. UNCHANGED <<held, stuck>>
  BY DEF Work
<1>3. CASE CreateTask(t, Nobody, {}) /\ UNCHANGED settled
  BY <1>2, <1>3 DEF CreateTask, NewTask, Absent, BoardTypeOK, Known, SettledBusy,
                    IssuedBounded, ClaimKnown
<1>4. CASE \E w \in Worker : SelfClaim(t, w)
  BY <1>2, <1>4, OwnGrantStep
<1>5. CASE Fail(t)
  BY <1>2, <1>5, EndStep DEF Fail, Terminal
<1>6. CASE LeaseRunsOut(t) /\ UNCHANGED settled
  BY <1>2, <1>6 DEF LeaseRunsOut, BoardTypeOK, Known, SettledBusy, IssuedBounded, ClaimKnown
<1>7. QED
  BY <1>1, <1>3, <1>4, <1>5, <1>6

LEMMA ReportKnown ==
    ASSUME BoardTypeOK, Known, NEW p \in Proc,
           \/ \E t \in Task : \E token \in 1..issued[t] : Report(p, t, token)
           \/ Announce(p) \/ ReadSnapshot(p) \/ MarkAnnounced(p) \/ CrashReport(p)
    PROVE  Known'
<1> USE DEF reportUnchanged, boardVars
<1>1. ASSUME NEW t \in Task, NEW token \in 1..issued[t], Report(p, t, token)
      PROVE  Known'
  <2>1. UNCHANGED <<held, stuck>>
    BY <1>1 DEF Report
  <2>2. \/ Finish(t, "completed") /\ settled' = settled \ {t}
        \/ UNCHANGED <<boardVars, settled>>
    BY <1>1 DEF Report
  <2>3. CASE Finish(t, "completed") /\ settled' = settled \ {t}
    BY <2>1, <2>3, EndStep DEF Terminal
  <2>4. CASE UNCHANGED <<boardVars, settled>>
    BY <2>1, <2>4, QuietStep
  <2>5. QED
    BY <2>2, <2>3, <2>4
<1>2. CASE Announce(p) \/ ReadSnapshot(p) \/ MarkAnnounced(p) \/ CrashReport(p)
  BY <1>2, QuietStep DEF Announce, ReadSnapshot, MarkAnnounced, CrashReport
<1>3. QED
  BY <1>1, <1>2

LEMMA PollKnown ==
    ASSUME BoardTypeOK, OneLiveClaim, Known, Telling, AgentTypes,
           NEW m \in Monitor, Begin(m) \/ Poll(m) \/ Abort(m)
    PROVE  Known'
<1>1. CASE Begin(m) \/ List(m) \/ Scan(m) \/ Emit(m)
  BY <1>1, QuietStep DEF Begin, List, Scan, Emit, teamVars, boardVars
<1>2. ASSUME NEW t \in Task, Reclaim(m, t)
      PROVE  Known'
  <2>1. UNCHANGED <<held, stuck>>
    BY <1>2 DEF Reclaim
  <2>2. \/ Unclaim(t) /\ settled' = settled \ {t}
        \/ UNCHANGED <<boardVars, settled>>
    BY <1>2 DEF Reclaim
  <2>3. QED
    BY <2>1, <2>2, EndStep, QuietStep DEF boardVars
<1>3. ASSUME NEW t \in Task, NEW w \in Worker, Assign(m, t, w)
      PROVE  Known'
  BY <1>3, AssignStep
<1>4. ASSUME NEW t \in Task, LeaveFree(m, t)
      PROVE  Known'
  BY <1>4, QuietStep DEF LeaveFree, teamVars, boardVars
<1>5. CASE Dispatch(m)
  <2>1. CASE settled' = settled \cup Current(held[m]) /\ held' = [held EXCEPT ![m] = {}]
    BY <1>5, <2>1, TellStep DEF Dispatch, boardVars
  <2>2. CASE UNCHANGED <<settled, held>>
    BY <1>5, <2>2, QuietStep DEF Dispatch, boardVars
  <2>3. QED
    BY <1>5, <2>1, <2>2 DEF Dispatch
<1>6. CASE RollBack(m)
  BY <1>6, RollBackStep
<1>7. CASE Record(m)
  <2>1. held[m] = {} /\ held' = [held EXCEPT ![m] = {}]
    BY <1>7 DEF Record, EndPoll, Telling
  <2>2. held' = held
    BY <2>1 DEF AgentTypes
  <2>3. QED
    BY <1>7, <2>2, QuietStep DEF Record, teamVars, boardVars
<1>8. CASE Abort(m)
  BY <1>8, KilledStep DEF Abort, EndPoll, boardVars
<1>9. QED
  BY <1>1, <1>2, <1>3, <1>4, <1>5, <1>6, <1>7, <1>8 DEF Poll

-----------------------------------------------------------------------------
(* The claim in hand *)

LEMMA OthersTelling ==
    ASSUME Telling, UNCHANGED held, \A m \in Monitor : pc'[m] = pc[m]
    PROVE  Telling'
  BY DEF Telling

LEMMA ReportTelling ==
    ASSUME Telling, AgentTypes, NEW p \in Proc,
           \/ \E t \in Task : \E token \in 1..issued[t] : Report(p, t, token)
           \/ Announce(p) \/ ReadSnapshot(p) \/ MarkAnnounced(p) \/ CrashReport(p)
    PROVE  Telling'
<1>1. \E l : pc' = [pc EXCEPT ![p] = l]
  BY DEF Report, Announce, ReadSnapshot, MarkAnnounced, CrashReport, EndReport, Goto
<1>2. UNCHANGED held
  BY DEF Report, Announce, ReadSnapshot, MarkAnnounced, CrashReport, reportUnchanged
<1>3. \A m \in Monitor : m \in Agent /\ m # p
  BY MonitorAssumption DEF Agent
<1>4. \A m \in Monitor : pc'[m] = pc[m]
  BY <1>1, <1>3 DEF AgentTypes
<1>5. QED
  BY <1>2, <1>4, OthersTelling

LEMMA PollTelling ==
    ASSUME Telling, AgentTypes, BoardTypeOK, IssuedBounded,
           NEW m \in Monitor, Begin(m) \/ Poll(m) \/ Abort(m)
    PROVE  Telling'
<1> DEFINE InHand(n) == IF pc'[n] \in {"dispatch", "release"}
                        THEN \E t \in Task, k \in 1..MaxClaims : held'[n] = {<<t, k>>}
                        ELSE held'[n] = {}
           OthersStay == \A n \in Monitor \ {m} : pc'[n] = pc[n] /\ held'[n] = held[n]
<1>0. /\ m \in Agent /\ Monitor \subseteq Agent
      /\ pc \in [Agent -> {"idle", "list", "reclaim", "assign", "dispatch", "release",
                           "write", "announce", "readSnapshot", "writeSnapshot"}]
      /\ held \in [Monitor -> SUBSET (Task \X (1..MaxClaims))]
  BY DEF Agent, AgentTypes
<1>1. ASSUME InHand(m), OthersStay
      PROVE  Telling'
  <2>1. ASSUME NEW n \in Monitor, n # m
        PROVE  InHand(n)
    BY <1>1, <2>1 DEF Telling
  <2>2. \A n \in Monitor : InHand(n)
    BY <1>1, <2>1
  <2>3. QED
    BY <2>2 DEF Telling
<1>2. ASSUME pc'[m] \notin {"dispatch", "release"}, held'[m] = {}, OthersStay
      PROVE  Telling'
  BY <1>1, <1>2
<1>3. CASE Begin(m) \/ List(m) \/ Scan(m) \/ Emit(m)
  <2>1. held[m] = {} /\ held' = held
    BY <1>3 DEF Begin, List, Scan, Emit, Goto, Telling
  <2>2. pc'[m] \notin {"dispatch", "release"} /\ OthersStay
    BY <1>0, <1>3, <2>1 DEF Begin, List, Scan, Emit, Goto
  <2>3. QED
    BY <1>2, <2>1, <2>2
<1>4. ASSUME NEW t \in Task, Reclaim(m, t) \/ LeaveFree(m, t)
      PROVE  Telling'
  BY <1>4, OthersTelling DEF Reclaim, LeaveFree
<1>5. ASSUME NEW t \in Task, NEW w \in Worker, Assign(m, t, w)
      PROVE  Telling'
  <2>1. issued[t] + 1 \in 1..MaxClaims
    BY <1>5, MonitorAssumption DEF Assign, BoardTypeOK
  <2>2. pc'[m] = "dispatch" /\ held'[m] = {<<t, issued[t] + 1>>} /\ OthersStay
    BY <1>0, <1>5 DEF Assign, Goto
  <2>3. QED
    BY <1>1, <2>1, <2>2
<1>6. CASE Dispatch(m)
  <2>1. pc[m] = "dispatch" /\ OthersStay
    BY <1>0, <1>6 DEF Dispatch, Goto
  <2>2. CASE pc'[m] = "assign" /\ held'[m] = {}
    BY <1>2, <2>1, <2>2
  <2>3. CASE pc'[m] = "release" /\ held' = held
    <3>1. \E t \in Task, k \in 1..MaxClaims : held[m] = {<<t, k>>}
      BY <2>1 DEF Telling
    <3>2. InHand(m)
      BY <2>3, <3>1
    <3>3. QED
      BY <1>1, <2>1, <3>2
  <2>4. QED
    BY <1>0, <1>6, <2>2, <2>3 DEF Dispatch, Goto
<1>7. CASE RollBack(m) \/ Record(m) \/ Abort(m)
  <2>1. pc'[m] \in {"assign", "idle"} /\ held'[m] = {} /\ OthersStay
    BY <1>0, <1>7 DEF RollBack, Record, Abort, EndPoll, Goto
  <2>2. QED
    BY <1>2, <2>1
<1>8. QED
  BY <1>3, <1>4, <1>5, <1>6, <1>7 DEF Poll

-----------------------------------------------------------------------------
(* What is listed, reported and announced as completed *)

Truth == ViewsTrue /\ CompletionsTrue

LEMMA QuietTruth ==
    ASSUME BoardTypeOK, [BoardNext]_boardVars, Truth, AgentTypes,
           UNCHANGED <<completions, view, pc, reported>>
    PROVE  Truth'
<1>1. \A t \in Task : task[t].status = "completed" => task'[t].status = "completed"
  BY CompletedStays
<1>2. \A p \in Proc : reported[p] \in SUBSET Task
  BY DEF AgentTypes
<1>3. QED
  BY <1>1, <1>2 DEF Truth, ViewsTrue, CompletionsTrue

LEMMA ReportTruth ==
    ASSUME BoardTypeOK, [BoardNext]_boardVars, Truth, AgentTypes, NEW p \in Proc,
           \/ \E t \in Task : \E token \in 1..issued[t] : Report(p, t, token)
           \/ Announce(p) \/ ReadSnapshot(p) \/ MarkAnnounced(p) \/ CrashReport(p)
    PROVE  Truth'
<1>0. /\ p \in Agent /\ Proc \subseteq Agent
      /\ \A t \in Task : task[t].status = "completed" => task'[t].status = "completed"
      /\ UNCHANGED view
  BY CompletedStays
     DEF Agent, Report, Announce, ReadSnapshot, MarkAnnounced, CrashReport, reportUnchanged, listVars
<1>1. \A m \in Monitor, t \in Task : view'[m][t] = "completed" => task'[t].status = "completed"
  BY <1>0 DEF Truth, ViewsTrue
<1>2. ASSUME NEW t \in Task, NEW token \in 1..issued[t], Report(p, t, token)
      PROVE  Truth'
  <2>1. pc'[p] = "announce" => task'[t].status = "completed"
    BY <1>0, <1>2 DEF Report, Goto, AgentTypes, BoardTypeOK, Finish, Finished
  <2>2. /\ reported' = [reported EXCEPT ![p] = {t}]
        /\ \E l : pc' = [pc EXCEPT ![p] = l]
        /\ UNCHANGED completions
    BY <1>2 DEF Report, Goto
  <2>3. \A q \in Proc : pc'[q] = "announce" => \A u \in reported'[q] : task'[u].status = "completed"
    BY <1>0, <2>1, <2>2 DEF AgentTypes, Truth, ViewsTrue
  <2>4. QED
    BY <1>0, <1>1, <2>2, <2>3 DEF Truth, ViewsTrue, CompletionsTrue
<1>3. CASE Announce(p)
  <2>1. \A t \in reported[p] : task[t].status = "completed"
    BY <1>3 DEF Announce, Goto, Truth, ViewsTrue
  <2>2. \A q \in Proc : pc'[q] = "announce" => pc[q] = "announce" /\ reported'[q] = reported[q]
    BY <1>0, <1>3 DEF Announce, Goto, AgentTypes
  <2>3. \A q \in Proc : reported[q] \in SUBSET Task
    BY DEF AgentTypes
  <2>4. \A q \in Proc : pc'[q] = "announce" => \A u \in reported'[q] : task'[u].status = "completed"
    BY <1>0, <2>2, <2>3 DEF Truth, ViewsTrue
  <2>5. \A t \in Task : completions'[t] > 0 => completions[t] > 0 \/ t \in reported[p]
    BY <1>3 DEF Announce
  <2>6. CompletionsTrue'
    BY <1>0, <2>1, <2>5 DEF Truth, CompletionsTrue
  <2>7. QED
    BY <1>1, <2>4, <2>6 DEF Truth, ViewsTrue
<1>4. CASE ReadSnapshot(p) \/ MarkAnnounced(p) \/ CrashReport(p)
  <2>1. UNCHANGED completions
    BY <1>4 DEF ReadSnapshot, MarkAnnounced, CrashReport
  <2>2. \A q \in Proc : pc'[q] = "announce" => pc[q] = "announce" /\ reported'[q] = reported[q]
    BY <1>0, <1>4 DEF ReadSnapshot, MarkAnnounced, CrashReport, EndReport, Goto, AgentTypes
  <2>3. \A q \in Proc : reported[q] \in SUBSET Task
    BY DEF AgentTypes
  <2>4. \A q \in Proc : pc'[q] = "announce" => \A u \in reported'[q] : task'[u].status = "completed"
    BY <1>0, <2>2, <2>3 DEF Truth, ViewsTrue
  <2>5. QED
    BY <1>0, <1>1, <2>1, <2>4 DEF Truth, ViewsTrue, CompletionsTrue
<1>5. QED
  BY <1>2, <1>3, <1>4

\* A poll lists only what is there, and announces only what it has listed.
LEMMA PollTruth ==
    ASSUME BoardTypeOK, [BoardNext]_boardVars, Truth, AgentTypes,
           NEW m \in Monitor, Begin(m) \/ Poll(m) \/ Abort(m)
    PROVE  Truth'
<1>0. /\ m \in Agent
      /\ \A t \in Task : task[t].status = "completed" => task'[t].status = "completed"
      /\ \A t \in Task : Statuses[t] = task[t].status
      /\ \A t \in Task : NoSnapshot.status[t] # "completed"
  BY CompletedStays DEF Agent, Statuses, NoSnapshot
\* The processes that report stay where they are.
<1>1. /\ \E l : pc' = [pc EXCEPT ![m] = l]
      /\ UNCHANGED reported
  <2>1. pc = [pc EXCEPT ![m] = pc[m]]
    BY <1>0 DEF AgentTypes
  <2>2. QED
    BY <2>1 DEF Begin, Poll, Abort, EndPoll, Goto, List, Reclaim, Scan, Assign, LeaveFree, Dispatch,
                RollBack, Emit, Record
<1>2. \A q \in Proc : pc'[q] = "announce" => \A t \in reported'[q] : task'[t].status = "completed"
  <2>1. \A q \in Proc : q \in Agent /\ q # m /\ reported[q] \in SUBSET Task
    BY MonitorAssumption DEF Agent, AgentTypes
  <2>2. \A q \in Proc : pc'[q] = pc[q]
    BY <1>1, <2>1 DEF AgentTypes
  <2>3. QED
    BY <1>0, <1>1, <2>1, <2>2 DEF Truth, ViewsTrue
<1>3. ASSUME NEW s, view' = [view EXCEPT ![m] = s],
             \A t \in Task : s[t] = "completed" => view[m][t] = "completed" \/ Statuses[t] = "completed"
      PROVE  ViewsTrue'
  <2>1. \A n \in Monitor \ {m} : view'[n] = view[n]
    BY <1>3 DEF AgentTypes
  <2>2. view'[m] = s
    BY <1>3 DEF AgentTypes
  <2>3. QED
    BY <1>0, <1>2, <1>3, <2>1, <2>2 DEF Truth, ViewsTrue
<1>4. view = [view EXCEPT ![m] = view[m]]
  BY DEF AgentTypes
<1>5. ViewsTrue'
  <2>1. ASSUME UNCHANGED view
        PROVE  ViewsTrue'
    BY <1>3, <1>4, <2>1
  <2>2. CASE Begin(m) \/ Dispatch(m) \/ RollBack(m)
    BY <2>1, <2>2 DEF Begin, Dispatch, RollBack, listVars
  <2>3. CASE \E t \in Task : Reclaim(m, t) \/ LeaveFree(m, t) \/ \E w \in Worker : Assign(m, t, w)
    BY <2>1, <2>3 DEF Reclaim, LeaveFree, Assign
  <2>4. CASE List(m) \/ Scan(m) \/ Emit(m)
    BY <1>3, <2>4 DEF List, Scan, Emit
  <2>5. CASE Record(m) \/ Abort(m)
    BY <1>0, <1>3, <2>5 DEF Record, Abort, EndPoll
  <2>6. QED
    BY <2>2, <2>3, <2>4, <2>5 DEF Poll
<1>6. CompletionsTrue'
  <2>1. ASSUME UNCHANGED completions
        PROVE  CompletionsTrue'
    BY <1>0, <2>1 DEF Truth, CompletionsTrue
  <2>2. CASE Emit(m)
    <3> DEFINE now == IF again[m] THEN Statuses ELSE view[m]
    <3>1. \A t \in Task : completions'[t] > 0 => completions[t] > 0 \/ now[t] = "completed"
      BY <2>2 DEF Emit, Completed
    <3>2. \A t \in Task : now[t] = "completed" => task[t].status = "completed"
      BY <1>0 DEF Truth, ViewsTrue
    <3> HIDE DEF now
    <3>3. QED
      BY <1>0, <3>1, <3>2 DEF Truth, CompletionsTrue
  <2>3. CASE ~Emit(m)
    <3>1. UNCHANGED completions
      BY <2>3 DEF Begin, Poll, Abort, List, Reclaim, Scan, Assign, LeaveFree, Dispatch, RollBack,
                  Record, eventVars
    <3>2. QED
      BY <2>1, <3>1
  <2>4. QED
    BY <2>2, <2>3
<1>7. QED
  BY <1>5, <1>6 DEF Truth

-----------------------------------------------------------------------------
(* The inductive invariant *)

LEMMA Initially == Init => IInv
<1> SUFFICES ASSUME Init PROVE IInv
  OBVIOUS
<1>1. BoardTypeOK /\ OneLiveClaim /\ SettledBusy /\ IssuedBounded /\ ClaimKnown
  BY InitiallyOnBoard, MonitorAssumption
     DEF Init, BoardInit, Absent, SettledBusy, IssuedBounded, ClaimKnown
<1>2. AgentTypes
  BY Snapshots, MonitorAssumption DEF Init, AgentTypes
<1>3. Telling /\ ViewsTrue /\ CompletionsTrue
  BY DEF Init, Telling, ViewsTrue, CompletionsTrue, NoSnapshot, Agent
<1>4. QED
  BY <1>1, <1>2, <1>3, TypeParts DEF IInv

LEMMA Standstill ==
    ASSUME AgentTypes, Known, Telling, Truth, UNCHANGED vars
    PROVE  AgentTypes' /\ Known' /\ Telling' /\ Truth'
<1> USE DEF vars, teamVars, eventVars, listVars, boardVars
<1>1. AgentTypes'
  BY DEF AgentTypes
<1>2. Known'
  BY QuietStep
<1>3. Telling'
  BY OthersTelling
<1>4. Truth'
  BY DEF Truth, ViewsTrue, CompletionsTrue
<1>5. QED
  BY <1>1, <1>2, <1>3, <1>4

LEMMA Inductive == IInv /\ [Next]_vars => IInv'
<1> SUFFICES ASSUME IInv, [Next]_vars
             PROVE  IInv'
  OBVIOUS
<1>1. /\ BoardTypeOK /\ AgentTypes /\ OneLiveClaim
      /\ Known /\ Telling /\ Truth
  BY TypeParts DEF IInv, Known, Truth
<1>2. [BoardNext]_boardVars
  BY StepsOnBoard
<1>3. BoardTypeOK' /\ OneLiveClaim'
  BY <1>1, <1>2, OperationsKeepTypes, OperationsKeepClaims
<1>4. AgentTypes' /\ Known' /\ Telling' /\ Truth'
  <2>1. CASE UNCHANGED vars
    BY <1>1, <2>1, Standstill
  <2>2. CASE Work
    <3>1. UNCHANGED <<completions, view, pc, reported, held>>
      BY <2>2 DEF Work, eventVars, listVars
    <3>2. QED
      BY <1>1, <1>2, <2>2, <3>1, TeamTypes, WorkKnown, OthersTelling, QuietTruth
  <2>3. ASSUME NEW w \in Worker, Die(w)
        PROVE  AgentTypes' /\ Known' /\ Telling' /\ Truth'
    <3>1. UNCHANGED <<task, expired, issued, settled, stuck, completions, view, pc, reported,
                      held>>
      BY <2>3 DEF Die, eventVars, listVars, boardVars
    <3>2. QED
      BY <1>1, <1>2, <2>3, <3>1, TeamTypes, QuietStep, OthersTelling, QuietTruth
  <2>4. ASSUME NEW p \in Proc,
               \/ \E t \in Task : \E token \in 1..issued[t] : Report(p, t, token)
               \/ Announce(p) \/ ReadSnapshot(p) \/ MarkAnnounced(p) \/ CrashReport(p)
        PROVE  AgentTypes' /\ Known' /\ Telling' /\ Truth'
    BY <1>1, <1>2, <2>4, ReportTypes, ReportKnown, ReportTelling, ReportTruth
  <2>5. ASSUME NEW m \in Monitor, Begin(m) \/ Poll(m) \/ Abort(m)
        PROVE  AgentTypes' /\ Known' /\ Telling' /\ Truth'
    <3>1. IssuedBounded
      BY <1>1 DEF Known
    <3>2. QED
      BY <1>1, <1>2, <2>5, <3>1, PollTypes, PollKnown, PollTelling, PollTruth
  <2>6. QED
    BY <2>1, <2>2, <2>3, <2>4, <2>5 DEF Next
<1>5. TypeOK'
  <2>1. BoardTypeOK' /\ AgentTypes' /\ SettledBusy' /\ IssuedBounded'
    BY <1>3, <1>4 DEF Known
  <2>2. issued' \in [Task -> 0..MaxClaims]
    BY <2>1, MonitorAssumption DEF BoardTypeOK, IssuedBounded
  <2>3. QED
    BY <2>1, <2>2 DEF TypeOK, BoardTypeOK, AgentTypes, SettledBusy
<1>6. QED
  BY <1>3, <1>4, <1>5 DEF IInv, Known, Truth

LEMMA Invariance == Spec => []IInv
  BY Initially, Inductive, PTL DEF Spec

-----------------------------------------------------------------------------
(* Results *)

\* The variables of the model, the claim a poll has in hand among them, keep their
\* types.
THEOREM TypeCorrect == Spec => []TypeOK
<1>1. IInv => TypeOK
  BY DEF IInv
<1>2. QED
  BY <1>1, Invariance, PTL

\* Every claim whose lease runs is known to its worker, or in the hand of a poll that
\* will tell the worker or give it back: assignTask rolls back what it could not dispatch,
\* unless it is killed or does not get the claim lock for it.
THEOREM EveryClaimKnown == Spec => []ClaimKnown
<1>1. IInv => ClaimKnown
  BY DEF IInv
<1>2. QED
  BY <1>1, Invariance, PTL

\* However old the list and the snapshot of a poll are, it logs no completion of a
\* task that is not completed, and neither does a report.
THEOREM CompletionsAreTrue == Spec => []CompletionsTrue
<1>1. IInv => CompletionsTrue
  BY DEF IInv
<1>2. QED
  BY <1>1, Invariance, PTL

\* The monitor, with the processes that report, uses the task store as it is
\* specified: every step is an operation of the store or leaves it alone, so that
\* what holds of the store (one live claim at most, say) holds here.
THEOREM MonitorUsesBoard == Spec => BoardSpec
<1>1. Init => BoardInit
  BY DEF Init
<1>2. QED
  BY <1>1, StepsOnBoard, PTL DEF Spec, BoardSpec

=============================================================================
