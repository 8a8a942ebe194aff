---------------------------- MODULE Integration -----------------------------
(***************************************************************************)
(* How the work of the workers reaches the leader's branch                 *)
(* (src/src/team/runtime.ts, src/src/team/scaling.ts).  Every worker edits *)
(* a git worktree of its own.  A poll of monitorTeam commits what is       *)
(* uncommitted there, takes each worker's commits over into the leader's   *)
(* HEAD by merge or cherry-pick, rebases idle workers when the HEAD has    *)
(* moved, and keeps per worker the last commit it took over.  shutdownTeam *)
(* checkpoints and merges every worktree before it removes it; scaleDown   *)
(* removes one.  Meanwhile workers edit and commit, the leader commits,    *)
(* polls die and git refuses.                                              *)
(*                                                                         *)
(* Of a commit the model keeps the changes it makes and the commits in its *)
(* past; one without a change is a merge (or the first).  What a textual   *)
(* conflict does is what the code asks git for: -X theirs takes the        *)
(* worker's side, rebase -X ours drops the worker's, and any command may   *)
(* refuse.  A change of the repository is one step with the reads that     *)
(* decide it, the look at a worker's commits another, and the work of      *)
(* shutdownTeam on one worktree, whose worker it has killed, one as well.  *)
(***************************************************************************)
EXTENDS Integers, FiniteSets, Sequences

CONSTANTS Worker,       \* the workers startTeam has provisioned
          Leader,       \* the leader, whose HEAD is that of the repository
          NoCommit,     \* no last_integrated_head
          Kinds,        \* may the worktrees be detached (TRUE), named (FALSE)?
          MaxChanges,   \* bound: the changes all of them make
          MaxFaults     \* bound: the times git refuses or drops, or a poll dies

ASSUME IntegrationAssumption ==
    /\ Leader \notin Worker
    /\ NoCommit \notin Nat
    /\ Kinds \subseteq BOOLEAN
    /\ {MaxChanges, MaxFaults} \subseteq Nat

VARIABLES
    detached,   \* the team's worktrees have no branch (the default)
    log,        \* all commits there are
    head,       \* HEAD of each worktree and of the leader
    dirty,      \* the uncommitted changes of each worktree
    made,       \* the changes that have been made
    alive,      \* the workers that run
    worktrees,  \* the workers whose worktree exists
    members,    \* the workers of the config
    record,     \* last_integrated_head per worker, in the monitor snapshot
    poll,       \* where the poll is
    roster,     \* the workers of the config it has read
    todo,       \* those its loop has still to visit
    next,       \* the record it will write
    start,      \* the leader's HEAD when it began to integrate
    upon,       \* the leader's HEAD it rebases on
    taking,     \* the worker whose commits it takes over
    seen,       \* HEAD of that worker's worktree when it looked
    queue,      \* the commits it has still to pick
    shut,       \* where shutdownTeam is
    closing,    \* the worktrees it has still to report on
    faults,     \* how often git has refused or dropped something, or a poll died
    overruled,  \* history: the changes a rebase has dropped
    reported,   \* history: the changes shutdownTeam reports as not merged
    untold,     \* history: the changes it could not commit and need not report
    drained     \* history: the changes scaleDown has removed with a worktree

repo    == <<log, head, dirty, worktrees>>
team    == <<detached, made, alive, members>>
monitor == <<poll, roster, todo, next, start, upon, taking, seen, queue>>
ending  == <<shut, closing>>
losses  == <<overruled, reported, untold, drained>>

gitVars == <<repo, team, record, monitor, ending, faults, losses>>

-----------------------------------------------------------------------------
(* Commits *)

\* Numbered in the order they are made, with the name of their maker.
Change == (Worker \cup {Leader}) \X (1..MaxChanges)

Past(c) == log[c].past

\* The changes in the history of a commit.
Holds(c) == UNION {log[d].what : d \in Past(c)}

\* git merge-base --is-ancestor
Ancestor(c, d) == c \in Past(d)

New == Len(log) + 1

Child(parents, changes) ==
    [what |-> changes, past |-> {New} \cup UNION {Past(c) : c \in parents}]

\* One new commit, to which HEAD of n moves.
CommitTo(n, parents, changes) ==
    /\ log' = Append(log, Child(parents, changes))
    /\ head' = [head EXCEPT ![n] = New]

MadeBy(n) == {c \in made : c[1] = n}

NewChange(n) == <<n, Cardinality(made) + 1>>

Makes(n) == Cardinality(made) < MaxChanges /\ made' = made \cup {NewChange(n)}

Landed == Holds(head[Leader])

InWorktree(w) == IF w \in worktrees THEN dirty[w] \cup Holds(head[w]) ELSE {}

Fault == faults < MaxFaults /\ faults' = faults + 1

-----------------------------------------------------------------------------

GitInit ==
    /\ detached \in Kinds
    /\ log = <<[what |-> {}, past |-> {1}]>>
    /\ head = [n \in Worker \cup {Leader} |-> 1]
    /\ dirty = [w \in Worker |-> {}]
    /\ made = {}
    /\ alive = Worker /\ worktrees = Worker /\ members = Worker
    /\ record = [w \in Worker |-> NoCommit]
    /\ poll = "idle"
    /\ roster = {} /\ todo = {}
    /\ next = [w \in Worker |-> NoCommit]
    /\ start = 1 /\ upon = 1
    /\ taking = Leader
    /\ seen = 1
    /\ queue = {}
    /\ shut = "idle"
    /\ closing = {}
    /\ faults = 0
    /\ overruled = {} /\ reported = {} /\ untold = {} /\ drained = {}

-----------------------------------------------------------------------------
(* The workers and the leader, in sessions of their own.  One that dies or *)
(* leaves takes no more steps.                                             *)

Edit(w) ==
    /\ w \in alive \cap worktrees
    /\ Makes(w)
    /\ dirty' = [dirty EXCEPT ![w] = @ \cup {NewChange(w)}]
    /\ UNCHANGED <<log, head, worktrees, detached, alive, members, record, monitor,
                   ending, faults, losses>>

\* git add -A and git commit of everything that is uncommitted.
CommitAll(w) ==
    /\ dirty[w] # {}
    /\ CommitTo(w, {head[w]}, dirty[w])
    /\ dirty' = [dirty EXCEPT ![w] = {}]

WorkerCommits(w) ==
    /\ w \in alive \cap worktrees
    /\ CommitAll(w)
    /\ UNCHANGED <<worktrees, team, record, monitor, ending, faults, losses>>

LeaderCommits ==
    /\ shut # "done"
    /\ Makes(Leader)
    /\ CommitTo(Leader, {head[Leader]}, {NewChange(Leader)})
    /\ UNCHANGED <<dirty, worktrees, detached, alive, members, record,
                   monitor, ending, faults, losses>>

-----------------------------------------------------------------------------
(* The poll *)

\* The worker the loop visits next, in the order of the config, here some order.
Turn == CHOOSE w \in todo : TRUE

PollBegins ==
    /\ poll = "idle"
    /\ shut # "done"
    /\ poll' = "commit"
    /\ roster' = members
    /\ todo' = members
    /\ next' = record
    /\ start' = head[Leader]
    /\ UNCHANGED <<repo, team, record, upon, taking, seen, queue, ending, faults, losses>>

\* The visit of w ends; after the last one the next phase begins.
Visited(w, phase) ==
    /\ todo' = IF todo = {w} THEN roster ELSE todo \ {w}
    /\ poll' = IF todo = {w} THEN phase ELSE poll

AutoCommit(w) ==
    /\ poll = "commit"
    /\ todo # {} /\ w = Turn
    /\ \/ w \in worktrees /\ CommitAll(w) /\ UNCHANGED <<worktrees, faults>>
       \/ w \in worktrees /\ dirty[w] # {} /\ Fault /\ UNCHANGED repo
       \/ (w \notin worktrees \/ dirty[w] = {}) /\ UNCHANGED <<repo, faults>>
    /\ Visited(w, "look")
    /\ UNCHANGED <<team, record, roster, next, start, upon, taking, seen, queue, ending,
                   losses>>

\* The commits to cherry-pick: rev-list baseline..HEAD.
Unpicked(w) ==
    Past(head[w]) \ Past(IF next[w] = NoCommit THEN head[Leader] ELSE next[w])

Look(w) ==
    /\ poll = "look"
    /\ todo # {} /\ w = Turn
    /\ \/ /\ w \notin worktrees
          /\ UNCHANGED <<next, taking, seen, queue>>
          /\ Visited(w, "landed")
       \/ /\ w \in worktrees
          /\ Ancestor(head[w], head[Leader])
          /\ next' = [next EXCEPT ![w] = head[w]]
          /\ UNCHANGED <<taking, seen, queue>>
          /\ Visited(w, "landed")
       \/ /\ w \in worktrees
          /\ ~Ancestor(head[w], head[Leader])
          /\ ~Ancestor(head[Leader], head[w])
          /\ Unpicked(w) = {}
          /\ UNCHANGED <<next, taking, seen, queue>>
          /\ Visited(w, "landed")
       \/ /\ w \in worktrees
          /\ ~Ancestor(head[w], head[Leader])
          /\ taking' = w
          /\ seen' = head[w]
          /\ \/ /\ Ancestor(head[Leader], head[w])
                /\ poll' = "merge"
                /\ queue' = {}
             \/ /\ ~Ancestor(head[Leader], head[w])
                /\ Unpicked(w) # {}
                /\ poll' = "pick"
                /\ queue' = Unpicked(w)
          /\ UNCHANGED <<next, todo>>
    /\ UNCHANGED <<repo, team, record, roster, start, upon, ending, faults, losses>>

\* The visit of the worker whose commits were taken over ends.
Taken ==
    /\ todo' = IF todo = {taking} THEN roster ELSE todo \ {taking}
    /\ poll' = IF todo = {taking} THEN "landed" ELSE "look"
    /\ queue' = {}
    /\ taking' = Leader
    /\ seen' = 1

\* The branch checked out in the worktree, whatever it has got since the poll
\* looked.  Detached, rev-parse --abbrev-ref HEAD says HEAD, which in the leader's
\* directory is the leader's own.
MergeSource == IF detached THEN head[Leader] ELSE head[taking]

MergeForward(source) ==     \* mutant: HEAD is set to what was ahead of it at the look
    /\ log' = log
    /\ head' = [head EXCEPT ![Leader] = source]

MergeInto(source) ==
    IF Ancestor(source, head[Leader])
    THEN UNCHANGED <<log, head>>
    ELSE CommitTo(Leader, {head[Leader], source}, {})

Merge ==
    /\ poll = "merge"
    /\ \/ /\ MergeInto(MergeSource)
          /\ next' = [next EXCEPT ![taking] = seen]
          /\ UNCHANGED faults
       \/ /\ Fault
          /\ UNCHANGED <<log, head, next>>
    /\ Taken
    /\ UNCHANGED <<dirty, worktrees, team, record, roster, start, upon, ending,
                   losses>>

\* git cherry-pick of the oldest: it refuses a merge, and a commit that would change
\* nothing.
Queued(c) ==
    /\ queue' = queue \ {c}
    /\ UNCHANGED <<poll, todo, taking, seen>>

PicksOn(c) ==               \* mutant: a failed pick is passed over
    /\ poll = "pick"
    /\ c \in queue /\ \A d \in queue : c <= d
    /\ \/ /\ ~(log[c].what \subseteq Landed)
          /\ CommitTo(Leader, {head[Leader]}, log[c].what \ Landed)
          /\ UNCHANGED faults
       \/ /\ log[c].what \subseteq Landed \/ faults < MaxFaults
          /\ faults' = IF log[c].what \subseteq Landed THEN faults ELSE faults + 1
          /\ UNCHANGED <<log, head>>
    /\ next' = [next EXCEPT ![taking] = c]
    /\ IF queue = {c} THEN Taken ELSE Queued(c)
    /\ UNCHANGED <<dirty, worktrees, team, record, roster, start, upon, ending,
                   losses>>

Pick(c) ==
    /\ poll = "pick"
    /\ c \in queue /\ \A d \in queue : c <= d
    /\ \/ /\ ~(log[c].what \subseteq Landed)
          /\ CommitTo(Leader, {head[Leader]}, log[c].what \ Landed)
          /\ next' = [next EXCEPT ![taking] = c]
          /\ IF queue = {c} THEN Taken ELSE Queued(c)
          /\ UNCHANGED faults
       \/ /\ \/ log[c].what \subseteq Landed /\ UNCHANGED faults
             \/ ~(log[c].what \subseteq Landed) /\ Fault
          /\ Taken
          /\ UNCHANGED <<log, head, next>>
    /\ UNCHANGED <<dirty, worktrees, team, record, roster, start, upon, ending,
                   losses>>

\* Phase C runs only when the leader's HEAD has moved since the cycle began.
CompareHeads ==
    /\ poll = "landed"
    /\ poll' = IF head[Leader] = start THEN "save" ELSE "rebase"
    /\ upon' = head[Leader]
    /\ UNCHANGED <<repo, team, record, roster, todo, next, start, taking, seen, queue,
                   ending, faults, losses>>

-----------------------------------------------------------------------------
(* git rebase -X ours: the commits that are not in the new base are applied *)
(* again, oldest first, each without what the base has and what it overrules*)

Kept(c, dropped) == log[c].what \ (Holds(upon) \cup dropped)

Replayed(w, dropped) ==
    {c \in Past(head[w]) \ Past(upon) : Kept(c, dropped) # {}}

Sorted(s, commits) ==
    /\ \A i, j \in DOMAIN s : i < j => s[i] < s[j]
    /\ \A c \in commits : \E i \in DOMAIN s : s[i] = c

Rebase(w, dropped) ==
    /\ dropped \subseteq Holds(head[w]) \ Holds(upon)
    /\ LET commits == Replayed(w, dropped)
           k == Cardinality(commits)
       IN \E s \in [1..k -> commits] :
            /\ Sorted(s, commits)
            /\ log' = log \o [i \in 1..k |->
                                [what |-> Kept(s[i], dropped),
                                 past |-> Past(upon) \cup (New..(Len(log) + i))]]
            /\ head' = [head EXCEPT ![w] = IF k = 0 THEN upon ELSE Len(log) + k]

\* The status that says whether the worker is idle, done or failed is a file the worker
\* writes when it likes, so that any visit may find it one way or the other.
CrossRebase(w) ==
    /\ poll = "rebase"
    /\ todo # {} /\ w = Turn
    /\ \/ /\ w \in worktrees /\ dirty[w] = {}
          /\ \/ Rebase(w, {}) /\ UNCHANGED <<faults, overruled>>
             \/ \E c \in Past(head[w]) \ Past(upon) :
                  LET dropped == log[c].what \ Holds(upon) IN
                  /\ dropped # {}
                  /\ Fault
                  /\ Rebase(w, dropped)
                  /\ overruled' = overruled \cup dropped
             \/ Fault /\ UNCHANGED <<log, head, overruled>>
          /\ UNCHANGED <<dirty, worktrees>>
       \/ UNCHANGED <<repo, faults, overruled>>
    /\ Visited(w, "save")
    /\ UNCHANGED <<team, record, roster, next, start, upon, taking, seen, queue, ending,
                   reported, untold, drained>>

\* What the poll knew is forgotten.
PollEnds ==
    /\ poll' = "idle"
    /\ roster' = {} /\ todo' = {} /\ queue' = {}
    /\ next' = [w \in Worker |-> NoCommit]
    /\ start' = 1 /\ upon' = 1 /\ seen' = 1
    /\ taking' = Leader

\* The snapshot is written whole, also into a directory that is gone.
SaveRecord ==
    /\ poll = "save"
    /\ record' = next
    /\ PollEnds
    /\ UNCHANGED <<repo, team, ending, faults, losses>>

PollDies ==
    /\ poll # "idle"
    /\ Fault
    /\ PollEnds
    /\ UNCHANGED <<repo, team, record, ending, losses>>

-----------------------------------------------------------------------------
(* scaleDown *)

\* Of a worker that rests, or of any with force; one worker has to remain.
ScaleDown(w) ==
    /\ w \in members /\ members # {w}
    /\ shut # "done"
    /\ members' = members \ {w}
    /\ alive' = alive \ {w}
    /\ worktrees' = IF detached THEN worktrees \ {w} ELSE worktrees
    /\ drained' = IF detached THEN drained \cup (InWorktree(w) \ Landed) ELSE drained
    /\ UNCHANGED <<log, head, dirty, detached, made, record, monitor, ending,
                   faults, overruled, reported, untold>>

\* git refuses to remove the worktree: the pane is gone, the worker still a member.
ScaleDownFails(w) ==
    /\ w \in members /\ members # {w}
    /\ shut # "done"
    /\ detached
    /\ Fault
    /\ alive' = alive \ {w}
    /\ UNCHANGED <<repo, detached, made, members, record, monitor, ending, losses>>

-----------------------------------------------------------------------------
(* shutdownTeam *)

ShutdownBegins ==
    /\ shut = "idle"
    /\ shut' = "asked"
    /\ closing' = members
    /\ UNCHANGED <<repo, team, record, monitor, faults, losses>>

\* The gate, a worker's rejection, or a prompt worker that does not die.
ShutdownRefused ==
    /\ shut = "asked"
    /\ shut' = "idle"
    /\ closing' = {}
    /\ UNCHANGED <<repo, team, record, monitor, faults, losses>>

KillWorkers ==
    /\ shut = "asked"
    /\ alive' = alive \ closing
    /\ shut' = "report"
    /\ UNCHANGED <<repo, detached, made, members, record, monitor, closing,
                   faults, losses>>

\* The checkpoint of what is uncommitted, and the merge of it by its hash; a merge that
\* git refuses is aborted.
MergeCheckpoint(w, uncommitted, refused) ==
    LET source == IF uncommitted = {} THEN head[w] ELSE New
        logged == IF uncommitted = {} THEN log
                  ELSE Append(log, Child({head[w]}, uncommitted))
        merge  == Len(logged) + 1
    IN \/ /\ source \notin Past(head[Leader])
          /\ ~refused
          /\ log' = Append(logged, [what |-> {}, past |-> logged[source].past
                                       \cup Past(head[Leader]) \cup {merge}])
          /\ head' = [head EXCEPT ![w] = source, ![Leader] = merge]
          /\ UNCHANGED reported
       \/ /\ source \in Past(head[Leader])
          /\ ~refused
          /\ UNCHANGED <<log, head, reported>>
       \/ /\ source \notin Past(head[Leader])
          /\ refused
          /\ log' = logged
          /\ head' = [head EXCEPT ![w] = source]
          /\ reported' = reported \cup ((uncommitted \cup Holds(head[w])) \ Landed)

ForgetsUncommitted(w, refused) ==    \* mutant: no checkpoint
    /\ MergeCheckpoint(w, {}, "merge" \in refused)
    /\ faults + Cardinality(refused) <= MaxFaults
    /\ faults' = faults + Cardinality(refused)
    /\ UNCHANGED <<dirty, worktrees, untold>>

\* Where git status fails, there is nothing to commit for the code, and the report
\* shows of what there is the diff of tracked files at most.
Checkpoint(w, refused) ==
    LET uncommitted == IF "status" \in refused THEN {} ELSE dirty[w] IN
    /\ MergeCheckpoint(w, uncommitted, "merge" \in refused)
    /\ dirty' = [dirty EXCEPT ![w] = @ \ uncommitted]
    /\ untold' = untold \cup (dirty[w] \ uncommitted)
    /\ faults + Cardinality(refused) <= MaxFaults
    /\ faults' = faults + Cardinality(refused)
    /\ UNCHANGED worktrees

\* Where git add or git commit fails, it returns before there is a report.
CheckpointFails(w) ==
    /\ dirty[w] # {}
    /\ Fault
    /\ untold' = untold \cup (InWorktree(w) \ Landed)
    /\ UNCHANGED <<repo, reported>>

ShutdownReport(w) ==
    /\ shut = "report"
    /\ closing # {} /\ w = CHOOSE v \in closing : TRUE
    /\ \/ w \in worktrees /\ \E refused \in SUBSET {"status", "merge"} : Checkpoint(w, refused)
       \/ w \in worktrees /\ CheckpointFails(w)
       \/ w \notin worktrees /\ UNCHANGED <<repo, faults, reported, untold>>
    /\ closing' = closing \ {w}
    /\ UNCHANGED <<team, record, monitor, shut, overruled, drained>>

\* Detached worktrees go, as far as git can remove them; then the state directory.
CleanUp ==
    /\ shut = "report"
    /\ closing = {}
    /\ \/ detached /\ worktrees' = worktrees \ members /\ UNCHANGED faults
       \/ detached /\ Fault /\ UNCHANGED worktrees
       \/ ~detached /\ UNCHANGED <<worktrees, faults>>
    /\ record' = [w \in Worker |-> NoCommit]
    /\ shut' = "done"
    /\ UNCHANGED <<log, head, dirty, team, monitor, closing, losses>>

-----------------------------------------------------------------------------

WorkerStep(w) == Edit(w) \/ WorkerCommits(w)

PollStep ==
    \/ PollBegins \/ Merge \/ CompareHeads \/ SaveRecord \/ PollDies
    \/ \E w \in Worker : AutoCommit(w) \/ Look(w) \/ CrossRebase(w)
    \/ \E c \in queue : Pick(c)

EndStep ==
    \/ ShutdownBegins \/ ShutdownRefused \/ KillWorkers \/ CleanUp
    \/ \E w \in Worker : ShutdownReport(w) \/ ScaleDown(w) \/ ScaleDownFails(w)

GitNext == LeaderCommits \/ PollStep \/ EndStep \/ \E w \in Worker : WorkerStep(w)

GitSpec == GitInit /\ [][GitNext]_gitVars

-----------------------------------------------------------------------------
(* Properties *)

Commits == 1..Len(log)

GitTypeOK ==
    /\ detached \in BOOLEAN
    /\ log \in Seq([what : SUBSET Change, past : SUBSET Commits])
    /\ head \in [Worker \cup {Leader} -> Commits]
    /\ dirty \in [Worker -> SUBSET Change]
    /\ made \subseteq Change
    /\ {alive, worktrees, members, roster, todo, closing} \subseteq SUBSET Worker
    /\ {record, next} \subseteq [Worker -> Commits \cup {NoCommit}]
    /\ poll \in {"idle", "commit", "look", "merge", "pick", "landed", "rebase", "save"}
    /\ {start, upon, seen} \subseteq Commits
    /\ taking \in Worker \cup {Leader}
    /\ queue \subseteq Commits
    /\ shut \in {"idle", "asked", "report", "done"}
    /\ faults \in 0..MaxFaults
    /\ {overruled, reported, untold, drained} \subseteq SUBSET Change

\* What the snapshot calls integrated is in the leader's history.
IntegratedIsLanded ==
    \A w \in Worker : record[w] # NoCommit => Holds(record[w]) \subseteq Landed

\* The same for worktrees with a branch, whatever polls that died have left behind,
\* whatever was picked, rebased or refused.
NamedIsLanded == ~detached => IntegratedIsLanded

\* The leader's HEAD only gains changes, its own included: polls merge and pick, and
\* shutdownTeam merges, on what they saw of it earlier, while the leader commits.
LandedStays == [][Landed \subseteq Landed']_gitVars

\* Each change a worker has made is in its worktree or in the leader's history, but
\* for those a rebase has overruled, scaleDown has removed with the worktree,
\* shutdownTeam has reported as not merged, or shutdownTeam could not commit: of these
\* it says nothing, or a diff at most, before the worktree goes.
WorkIsKept ==
    \A w \in Worker :
        MadeBy(w) \subseteq InWorktree(w) \cup Landed
                               \cup overruled \cup reported \cup untold \cup drained

=============================================================================
