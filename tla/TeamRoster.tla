----------------------------- MODULE TeamRoster ------------------------------
(***************************************************************************)
(* The team manifest: which workers a team has, and the counters from      *)
(* which the next worker name and the next task id are taken.  It is read  *)
(* whole, changed in memory and saved whole by                             *)
(*   startTeam           (src/src/team/runtime.ts)   under no lock,        *)
(*   createTask          (src/src/team/state.ts)     under the team lock,  *)
(*   scaleUp, scaleDown  (src/src/team/scaling.ts)   under the scaling     *)
(* lock, and scaleUp and startTeam call createTask between their reading   *)
(* and their saving.  A Proc is one such invocation, in a process of its   *)
(* own, which ends, throws or crashes.                                     *)
(*                                                                         *)
(* writeConfig also writes config.json, which is read back only where      *)
(* there is no manifest; all that is modelled of it comes from one file.   *)
(* A worker is <<i, p>>: worker-<i>, in the tmux pane invocation p started.*)
(* The team lock excludes (DirLock says when a lock does): a section under *)
(* it is two file writes.  A scaleUp or scaleDown waits for workers with   *)
(* the scaling lock, so that it may lose it although it lives.             *)
(***************************************************************************)
EXTENDS Naturals, FiniteSets

CONSTANTS Proc,
          Starter,       \* the invocation that is startTeam
          Free,          \* nobody holds the lock
          NoPane,        \* "pane_id: undefined"
          Initial,       \* workers the team starts with
          MaxWorkers,    \* max_workers
          Batch,         \* bound: workers one scaleUp adds, at most
          NewTasks       \* bound: tasks one startTeam or scaleUp creates, at most

ASSUME RosterAssumption == /\ Starter \in Proc
                           /\ Free \notin Proc
                           /\ NoPane \notin Proc
                           /\ Initial \in Nat \ {0}
                           /\ MaxWorkers \in Nat /\ Initial <= MaxWorkers
                           /\ Batch \in Nat /\ NewTasks \in Nat

VARIABLES manifest,      \* the file manifest.v2.json
          created,       \* ids of the tasks createTask has returned to a caller
          panes,         \* workers whose pane exists
          teamLock, scalingLock,
          pc, op,        \* where an invocation is, and of what
          own,           \* the manifest startTeam, scaleUp or scaleDown works on
          cfg,           \* the manifest createTask works on
          todo,          \* tasks it has still to create
          wanted,        \* workers scaleUp has still to add
          made,          \* task ids it has created
          chosen,        \* workers scaleUp has added or scaleDown removes
          first,         \* initialNextIndex: the worker index scaleUp began with
          stale,         \* history: a save has put back what it had read although
                         \* the file had changed since
          robbed         \* history: the scaling lock of a live invocation was recovered

locks == <<teamLock, scalingLock>>
locals == <<op, own, cfg, todo, wanted, made, chosen, first>>
vars == <<manifest, created, panes, locks, pc, locals, stale, robbed>>

-----------------------------------------------------------------------------

Worker == (Nat \ {0}) \X (Proc \cup {NoPane})
Manifest == [nextTask : Nat \ {0}, workers : SUBSET Worker, nextIndex : Nat \ {0}]

WithRoster(m, workers, nextIndex) ==
    [nextTask |-> m.nextTask, workers |-> workers, nextIndex |-> nextIndex]

NewTeam == [nextTask |-> 1,
            workers |-> (1..Initial) \X {NoPane},
            nextIndex |-> Initial + 1]

Label == {"idle", "lockTeam", "write", "advance", "launch", "save", "boot",
          "lockScaling", "bootstrap", "rollback", "restore", "teardown", "remove",
          "done", "thrown", "dead"}

\* initTeamState has run, and startTeam goes on.
Init ==
    /\ manifest = NewTeam
    /\ created = {}
    /\ panes = {}
    /\ teamLock = Free
    /\ scalingLock = Free
    /\ op = [p \in Proc |-> IF p = Starter THEN "start" ELSE "none"]
    /\ own = [p \in Proc |-> NewTeam]
    /\ cfg = [p \in Proc |-> NewTeam]
    /\ todo \in {[p \in Proc |-> IF p = Starter THEN n ELSE 0] : n \in 0..NewTasks}
    /\ pc = [p \in Proc |-> IF p # Starter THEN "idle"
                            ELSE IF todo[p] > 0 THEN "lockTeam" ELSE "launch"]
    /\ wanted = [p \in Proc |-> 0]
    /\ made = [p \in Proc |-> {}]
    /\ chosen = [p \in Proc |-> {}]
    /\ first = [p \in Proc |-> 1]
    /\ stale = FALSE
    /\ robbed = FALSE

\* Nobody knows of the team before its panes are there.
Up == pc[Starter] \in {"save", "boot", "done", "dead"}

Goto(p, from, to) == pc[p] = from /\ pc' = [pc EXCEPT ![p] = to]

\* The finally of withTeamLock and withScalingLock: only the owner's lock is removed.
GivenBack(lock, p) == IF lock = p THEN Free ELSE lock

\* writeConfig: all the fields come from the copy v, made from what was read, r.
Save(r, v) ==
    /\ manifest' = v
    /\ stale' = (stale \/ manifest # r)

-----------------------------------------------------------------------------
(* createTask, by itself or called by another operation *)

CallCreate(p) ==
    /\ Up
    /\ Goto(p, "idle", "lockTeam")
    /\ op' = [op EXCEPT ![p] = "create"]
    /\ todo' = [todo EXCEPT ![p] = 1]
    /\ UNCHANGED <<manifest, created, panes, locks, own, cfg, wanted, made, chosen, first,
                   stale, robbed>>

\* The lock is taken and the manifest read.
TakeId(p) ==
    /\ teamLock = Free
    /\ Goto(p, "lockTeam", "write")
    /\ teamLock' = p
    /\ cfg' = [cfg EXCEPT ![p] = manifest]
    /\ UNCHANGED <<manifest, created, panes, scalingLock, op, own, todo, wanted, made,
                   chosen, first, stale, robbed>>

\* Somebody holds the lock for too long: createTask throws, and scaleUp with it.
GiveUpCreate(p) ==
    /\ op[p] # "start"
    /\ teamLock # Free
    /\ Goto(p, "lockTeam", "done")
    /\ scalingLock' = GivenBack(scalingLock, p)
    /\ UNCHANGED <<manifest, created, panes, teamLock, locals, stale, robbed>>

\* The task file is written, over whatever file has that id.  Until createTask has
\* returned the task nobody relies on it, so that created changes only then.
WriteTask(p) ==
    /\ Goto(p, "write", "advance")
    /\ UNCHANGED <<manifest, created, panes, locks, locals, stale, robbed>>

KeepId(p) ==             \* mutant: the counter is not advanced
    /\ Goto(p, "advance", IF todo[p] > 1 THEN "lockTeam"
                          ELSE IF op[p] = "create" THEN "done" ELSE "launch")
    /\ created' = created \cup {cfg[p].nextTask}
    /\ made' = [made EXCEPT ![p] = @ \cup {cfg[p].nextTask}]
    /\ todo' = [todo EXCEPT ![p] = @ - 1]
    /\ teamLock' = Free
    /\ UNCHANGED <<manifest, panes, scalingLock, op, own, cfg, wanted, chosen, first, stale, robbed>>

OneTooMany(p) ==         \* mutant: off by one in the loop over the tasks
    LET id == cfg[p].nextTask
    IN /\ Goto(p, "advance", IF todo[p] >= 1 THEN "lockTeam"
                             ELSE IF op[p] = "create" THEN "done" ELSE "launch")
       /\ Save(cfg[p], [cfg[p] EXCEPT !.nextTask = id + 1])
       /\ created' = created \cup {id}
       /\ made' = [made EXCEPT ![p] = @ \cup {id}]
       /\ todo' = [todo EXCEPT ![p] = @ - 1]
       /\ teamLock' = Free
       /\ UNCHANGED <<panes, scalingLock, op, own, cfg, wanted, chosen, first, robbed>>

\* The counter is advanced after the task is written; the next task of the caller,
\* or what it needs the tasks for, comes next.
AdvanceId(p) ==
    LET id == cfg[p].nextTask
    IN /\ Goto(p, "advance", IF todo[p] > 1 THEN "lockTeam"
                             ELSE IF op[p] = "create" THEN "done" ELSE "launch")
       /\ Save(cfg[p], [cfg[p] EXCEPT !.nextTask = id + 1])
       /\ created' = created \cup {id}
       /\ made' = [made EXCEPT ![p] = @ \cup {id}]
       /\ todo' = [todo EXCEPT ![p] = @ - 1]
       /\ teamLock' = Free
       /\ UNCHANGED <<panes, scalingLock, op, own, cfg, wanted, chosen, first, robbed>>

-----------------------------------------------------------------------------
(* startTeam, from its tasks on.  When it fails it deletes the team. *)

LaunchTeam(p) ==
    /\ op[p] = "start"
    /\ Goto(p, "launch", "save")
    /\ panes' = (1..Initial) \X {p}
    /\ UNCHANGED <<manifest, created, locks, locals, stale, robbed>>

\* The config that initTeamState returned is saved ...
SaveTeam(p) ==
    /\ Goto(p, "save", "boot")
    /\ Save(own[p], own[p])
    /\ UNCHANGED <<created, panes, locks, locals, robbed>>

\* ... and saved again, with the panes, when all the workers are told to start.
SaveBooted(p) ==
    LET booted == [own[p] EXCEPT !.workers = (1..Initial) \X {p}]
    IN /\ Goto(p, "boot", "done")
       /\ Save(own[p], booted)
       /\ own' = [own EXCEPT ![p] = booted]
       /\ UNCHANGED <<created, panes, locks, op, cfg, todo, wanted, made, chosen, first, robbed>>

-----------------------------------------------------------------------------
(* The scaling lock *)

CallScaling(p, kind) ==
    /\ Up
    /\ Goto(p, "idle", "lockScaling")
    /\ op' = [op EXCEPT ![p] = kind]
    /\ UNCHANGED <<manifest, created, panes, locks, own, cfg, todo, wanted, made, chosen,
                   first, stale, robbed>>

GiveUpScaling(p) ==
    /\ scalingLock # Free
    /\ Goto(p, "lockScaling", "done")
    /\ UNCHANGED <<manifest, created, panes, locks, locals, stale, robbed>>

\* Goto, and out of the section.
Finish(p, from) ==
    /\ Goto(p, from, "done")
    /\ scalingLock' = GivenBack(scalingLock, p)

-----------------------------------------------------------------------------
(* scaleUp *)

\* With room for n more workers; k tasks for them are created first.
StartScaleUp(p, n, k) ==
    /\ op[p] = "up"
    /\ scalingLock = Free
    /\ Cardinality(manifest.workers) + n <= MaxWorkers
    /\ Goto(p, "lockScaling", IF k > 0 THEN "lockTeam" ELSE "launch")
    /\ scalingLock' = p
    /\ own' = [own EXCEPT ![p] = manifest]
    /\ wanted' = [wanted EXCEPT ![p] = n]
    /\ todo' = [todo EXCEPT ![p] = k]
    /\ first' = [first EXCEPT ![p] = manifest.nextIndex]
    /\ UNCHANGED <<manifest, created, panes, teamLock, op, cfg, made, chosen, stale, robbed>>

\* No room, or nobody can be removed: an error, and nothing changes.
Refuse(p) ==
    LET n == Cardinality(manifest.workers)
    IN /\ scalingLock = Free
       /\ \/ op[p] = "up" /\ n + Batch > MaxWorkers
          \/ op[p] = "down"
       /\ Goto(p, "lockScaling", "done")
       /\ UNCHANGED <<manifest, created, panes, locks, locals, stale, robbed>>

NewWorker(p) == <<own[p].nextIndex, p>>

LaunchWorker(p) ==
    /\ op[p] = "up"
    /\ \/ /\ Goto(p, "launch", "bootstrap")
          /\ panes' = panes \cup {NewWorker(p)}
       \/ /\ Goto(p, "launch", "rollback")
          /\ UNCHANGED panes
    /\ UNCHANGED <<manifest, created, locks, locals, stale, robbed>>

\* The worker has its instructions: it is added and the config is saved.
AddWorker(p) ==
    LET grown == WithRoster(own[p], own[p].workers \cup {NewWorker(p)}, own[p].nextIndex + 1)
    IN /\ Goto(p, "bootstrap", IF wanted[p] > 1 THEN "launch" ELSE "done")
       /\ Save(own[p], grown)
       /\ own' = [own EXCEPT ![p] = grown]
       /\ chosen' = [chosen EXCEPT ![p] = @ \cup {NewWorker(p)}]
       /\ wanted' = [wanted EXCEPT ![p] = @ - 1]
       /\ scalingLock' = IF wanted[p] > 1 THEN scalingLock ELSE GivenBack(scalingLock, p)
       /\ UNCHANGED <<created, panes, teamLock, op, cfg, todo, made, first, robbed>>

BootstrapFails(p) ==
    /\ Goto(p, "bootstrap", "rollback")
    /\ UNCHANGED <<manifest, created, panes, locks, locals, stale, robbed>>

LeavePanes(p) ==         \* mutant: the panes are not killed
    /\ Goto(p, "rollback", "restore")
    /\ created' = created \ made[p]
    /\ UNCHANGED <<manifest, panes, locks, locals, stale, robbed>>

\* rollbackScaleUp: the panes and the task files of this call are removed ...
Rollback(p) ==
    /\ Goto(p, "rollback", "restore")
    /\ panes' = {w \in panes : w[2] # p}
    /\ created' = created \ made[p]
    /\ UNCHANGED <<manifest, locks, locals, stale, robbed>>

RestoreIndexOnly(p) ==   \* mutant: the workers added so far stay in the config
    LET restored == [own[p] EXCEPT !.nextIndex = first[p]]
    IN /\ Finish(p, "restore")
       /\ Save(own[p], restored)
       /\ own' = [own EXCEPT ![p] = restored]
       /\ UNCHANGED <<created, panes, teamLock, op, cfg, todo, wanted, made, chosen, first, robbed>>

\* ... and the roster and the worker index are restored.
Restore(p) ==
    LET restored == WithRoster(own[p], own[p].workers \ chosen[p], first[p])
    IN /\ Finish(p, "restore")
       /\ Save(own[p], restored)
       /\ own' = [own EXCEPT ![p] = restored]
       /\ UNCHANGED <<created, panes, teamLock, op, cfg, todo, wanted, made, chosen, first, robbed>>

-----------------------------------------------------------------------------
(* scaleDown *)

\* The workers to remove are named by the caller or picked by their status; one
\* worker at least must remain.
StartScaleDown(p) ==
    /\ op[p] = "down"
    /\ scalingLock = Free
    /\ \E targets \in (SUBSET manifest.workers) \ {{}, manifest.workers} :
          chosen' = [chosen EXCEPT ![p] = targets]
    /\ Goto(p, "lockScaling", "teardown")
    /\ scalingLock' = p
    /\ own' = [own EXCEPT ![p] = manifest]
    /\ UNCHANGED <<manifest, created, panes, teamLock, op, cfg, todo, wanted, made,
                   first, stale, robbed>>

\* Their panes are killed, as far as the config names them.
Teardown(p) ==
    /\ Goto(p, "teardown", "remove")
    /\ panes' = panes \ chosen[p]
    /\ UNCHANGED <<manifest, created, locks, locals, stale, robbed>>

\* A worktree cannot be removed: the call ends before the config is changed.
CleanupFails(p) ==
    /\ Finish(p, "remove")
    /\ UNCHANGED <<manifest, created, panes, teamLock, locals, stale, robbed>>

RemoveWorkers(p) ==
    LET shrunk == WithRoster(own[p], own[p].workers \ chosen[p], own[p].nextIndex)
    IN /\ Finish(p, "remove")
       /\ Save(own[p], shrunk)
       /\ own' = [own EXCEPT ![p] = shrunk]
       /\ UNCHANGED <<created, panes, teamLock, op, cfg, todo, wanted, made, chosen, first, robbed>>

-----------------------------------------------------------------------------
(* The environment *)

\* Before its panes are there a start that crashes leaves no team.
Crash(p) ==
    /\ pc[p] \notin {"idle", "done", "thrown", "dead"}
    /\ p = Starter => Up
    /\ pc' = [pc EXCEPT ![p] = "dead"]
    /\ UNCHANGED <<manifest, created, panes, locks, locals, stale, robbed>>

\* Something a handler writes to or runs (a file, git, tmux) fails where it catches
\* nothing: its locks are given back and what it has done so far stays as it is.  What
\* startTeam throws deletes the team.
Throws(p) ==
    /\ p # Starter
    /\ pc[p] \in {"write", "advance", "launch", "bootstrap", "restore", "teardown", "remove"}
    /\ pc' = [pc EXCEPT ![p] = "thrown"]
    /\ teamLock' = GivenBack(teamLock, p)
    /\ scalingLock' = GivenBack(scalingLock, p)
    /\ UNCHANGED <<manifest, created, panes, locals, stale, robbed>>

\* The lock of a crashed invocation is older than LOCK_STALE_MS.
RecoverTeamLock ==
    /\ \E p \in Proc : teamLock = p /\ pc[p] = "dead"
    /\ teamLock' = Free
    /\ UNCHANGED <<manifest, created, panes, scalingLock, pc, locals, stale, robbed>>

\* Here the invocation may as well be alive: a scaleUp waits up to 45 s for every worker
\* it launches, a scaleDown 30 s for the ones it drains.
RecoverScalingLock ==
    \E p \in Proc :
       /\ scalingLock = p
       /\ scalingLock' = Free
       /\ robbed' = (robbed \/ pc[p] # "dead")
       /\ UNCHANGED <<manifest, created, panes, teamLock, pc, locals, stale>>

-----------------------------------------------------------------------------

Create(p) ==
    \/ CallCreate(p) \/ TakeId(p) \/ GiveUpCreate(p) \/ WriteTask(p) \/ AdvanceId(p)

StartUp(p) == LaunchTeam(p) \/ SaveTeam(p) \/ SaveBooted(p)

Scaling(p) ==
    \/ \E kind \in {"up", "down"} : CallScaling(p, kind)
    \/ GiveUpScaling(p) \/ Refuse(p)
    \/ \E n \in 1..Batch, k \in 0..NewTasks : StartScaleUp(p, n, k)
    \/ LaunchWorker(p) \/ AddWorker(p) \/ BootstrapFails(p) \/ Rollback(p) \/ Restore(p)
    \/ StartScaleDown(p) \/ Teardown(p) \/ CleanupFails(p) \/ RemoveWorkers(p)

Next ==
    \/ \E p \in Proc : Create(p) \/ StartUp(p) \/ Scaling(p) \/ Throws(p) \/ Crash(p)
    \/ RecoverTeamLock
    \/ RecoverScalingLock

Spec == Init /\ [][Next]_vars

-----------------------------------------------------------------------------
(* Properties *)

TypeOK ==
    /\ manifest \in Manifest
    /\ created \subseteq Nat \ {0}
    /\ panes \subseteq Worker
    /\ teamLock \in Proc \cup {Free}
    /\ scalingLock \in Proc \cup {Free}
    /\ pc \in [Proc -> Label]
    /\ op \in [Proc -> {"none", "start", "create", "up", "down"}]
    /\ own \in [Proc -> Manifest]
    /\ cfg \in [Proc -> Manifest]
    /\ todo \in [Proc -> Nat]
    /\ wanted \in [Proc -> Nat]
    /\ made \in [Proc -> SUBSET (Nat \ {0})]
    /\ chosen \in [Proc -> SUBSET Worker]
    /\ first \in [Proc -> Nat \ {0}]
    /\ stale \in BOOLEAN
    /\ robbed \in BOOLEAN

\* However saves overwrite each other, the roster in the file is one the team had
\* or could have had: no name twice, none that will be given out again, no more
\* workers than max_workers and never none.
Consistent(m) ==
    /\ \A v, w \in m.workers : v[1] = w[1] => v = w
    /\ \A w \in m.workers : w[1] < m.nextIndex
    /\ Cardinality(m.workers) \in 1..MaxWorkers
RosterConsistent == Consistent(manifest)

\* Until a save has put back an older manifest, no task is written over one that
\* createTask has returned, also when an invocation crashed between writing its
\* task and advancing the counter.
FreshTaskIds ==
    stale \/ \A p \in Proc : pc[p] = "write" => cfg[p].nextTask \notin created

\* The workers startTeam has launched before it saves its manifest again, and the one
\* that a scaleUp is launching: it may still fail there, or crash or throw with it.
InHands(w) ==
    LET p == w[2]
    IN \/ p = Starter /\ pc[p] \in {"save", "boot", "dead"}
       \/ w = NewWorker(p) /\ pc[p] \in {"bootstrap", "rollback", "thrown", "dead"}

\* Until then every running worker is in the roster or in the hands of the invocation
\* that launched it: however a scaleUp ends, and whoever has taken the scaling lock
\* from it, at most the last worker it launched runs without being listed.
PanesListed == stale \/ \A w \in panes : w \in manifest.workers \/ InHands(w)

\* "createTask does not overwrite existing tasks"
\* (src/src/team/__tests__/state.test.ts:1187).
TasksKept == \A p \in Proc : pc[p] = "write" => cfg[p].nextTask \notin created

\* Between reading the manifest under a lock and the last save under it.
Growing(p) ==
    op[p] = "up" /\ pc[p] \in {"lockTeam", "write", "advance", "launch", "bootstrap",
                               "rollback", "restore"}
Shrinking(p) == pc[p] \in {"teardown", "remove"}

Creating == {p \in Proc : pc[p] \in {"write", "advance"}}
Resizing == {p \in Proc : Growing(p) \/ Shrinking(p)}

LeftBy(holder) == holder # Free /\ pc[holder] = "dead"

TeamLock == INSTANCE Lock WITH inside <- Creating, orphaned <- LeftBy(teamLock)
ScalingLock == INSTANCE Lock WITH inside <- Resizing, orphaned <- LeftBy(scalingLock)

\* The invocations use both locks as Lock allows: whoever reads and writes the manifest
\* under one is alone, also when a scaleUp gives up on the team lock in the middle or
\* throws, and what a crash leaves is recovered.  For the scaling lock that is so up to
\* the recovery of a live invocation's lock, and not after it.
LocksAsPromised ==
    /\ TeamLock!LockSpec
    /\ ScalingLock!LockInit
    /\ [][ScalingLock!LockNext \/ robbed']_<<Resizing, LeftBy(scalingLock)>>

-----------------------------------------------------------------------------
(* The inductive invariant.  Every copy of the manifest is as good as the one *)
(* in the file, so that whole-file saves keep it good; what else is promised  *)
(* rests on the locks.                                                       *)

Phases ==
    /\ Up \/ \A q \in Proc \ {Starter} : pc[q] = "idle"
    /\ \A p \in Proc :
          /\ op[p] = "start" <=> p = Starter
          /\ pc[p] = "idle" => p # Starter
          /\ pc[p] \in {"lockTeam", "write", "advance"} => todo[p] >= 1
          /\ pc[p] \in {"save", "boot"} => op[p] = "start"
          /\ pc[p] \in {"bootstrap", "rollback", "restore"} => op[p] = "up"
          /\ Shrinking(p) => op[p] = "down"
          /\ p = Starter /\ pc[p] \notin {"done", "dead"} => own[p] = NewTeam

LocksHeld ==
    \A p \in Proc :
        /\ pc[p] \in {"write", "advance"} => teamLock = p
        /\ Growing(p) \/ Shrinking(p) => robbed \/ scalingLock = p
        /\ teamLock = p => pc[p] \in {"write", "advance", "dead"}
        /\ scalingLock = p => Growing(p) \/ Shrinking(p) \/ pc[p] = "dead"

Sound(m) == IsFiniteSet(m.workers) /\ Consistent(m)

CopiesSound ==
    /\ Sound(manifest)
    /\ \A p \in Proc : Sound(own[p]) /\ Sound(cfg[p])

\* The workers of a scaleUp come after the ones it found.
Additions ==
    \A p \in Proc :
        /\ pc[p] \in {"idle", "lockScaling", "lockTeam", "write", "advance"} => chosen[p] = {}
        /\ Growing(p) =>
              /\ wanted[p] >= 1
              /\ Cardinality(own[p].workers) + wanted[p] <= MaxWorkers
              /\ first[p] <= own[p].nextIndex
              /\ \E w \in own[p].workers : w[1] < first[p]
              /\ \A w \in own[p].workers : w \in chosen[p] \/ w[1] < first[p]
              /\ \A w \in chosen[p] : w \in own[p].workers /\ w[1] >= first[p] /\ w[2] = p

Removals == \A p \in Proc : Shrinking(p) => own[p].workers \ chosen[p] # {}

IdsBelowCounter ==
    stale \/ /\ \A id \in created : id < manifest.nextTask
             /\ \A p \in Proc : pc[p] \in {"write", "advance"} =>
                   \A id \in created : id < cfg[p].nextTask

\* No record names a worker before a scaleUp has added it, whoever works beside it.
Recorded ==
    manifest.workers \cup UNION {own[q].workers \cup cfg[q].workers \cup chosen[q] : q \in Proc}

AddedFirst ==
    \A w \in Recorded : \A p \in Proc \ {Starter} :
        w[2] = p => /\ pc[p] \notin {"idle", "lockScaling", "lockTeam", "write", "advance"}
                    /\ pc[p] \in {"launch", "bootstrap"} => w[1] < own[p].nextIndex

PanesKnown ==
    /\ \A w \in panes :
          /\ w[2] \in Proc
          /\ pc[w[2]] \in {"save", "boot", "launch", "bootstrap", "rollback", "done",
                           "thrown", "dead"}
          /\ w[2] = Starter => w \in (1..Initial) \X {Starter}
          /\ Growing(w[2]) /\ pc[w[2]] # "rollback" =>
                w \in chosen[w[2]] \/ (pc[w[2]] = "bootstrap" /\ w = NewWorker(w[2]))
    /\ \A p \in Proc : pc[p] = "remove" => panes \cap chosen[p] = {}

IInv ==
    /\ TypeOK
    /\ Phases
    /\ LocksHeld
    /\ CopiesSound
    /\ Additions
    /\ Removals
    /\ IdsBelowCounter
    /\ AddedFirst
    /\ PanesKnown
    /\ PanesListed

=============================================================================
