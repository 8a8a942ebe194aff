----------------------------- MODULE TeamPhase -------------------------------
(***************************************************************************)
(* The phase of a team: src/src/team/phase-controller.ts over              *)
(* src/src/team/orchestrator.ts, as monitorTeam (src/src/team/runtime.ts)  *)
(* runs it.  A poll lists the tasks, infers the phase they call for, reads *)
(* the phase file, moves it towards that target, writes it back without a  *)
(* lock, and mirrors a terminal phase in the root mode state.  The poll    *)
(* loop of runtime-cli, which shuts the team down at the end, and any      *)
(* number of "omq team status" calls are monitors at the same time.        *)
(* Signals to runtime-cli are left out.                                    *)
(*                                                                         *)
(* Of a task only what inferPhaseTargetFromTaskCounts distinguishes is     *)
(* kept: pending, blocked and in_progress are all "open".                  *)
(***************************************************************************)
EXTENDS Integers, Sequences

CONSTANTS Task,
          Monitor,        \* processes that may poll
          Teams,          \* bound: the teams, [prompt, looping]: is worker_launch_mode
                          \* "prompt", and which monitors are a poll loop of runtime-cli
          MaxFixAttempts  \* max_fix_attempts (3 unless the phase file says otherwise)

ASSUME PhaseAssumption == /\ Teams \subseteq [prompt : BOOLEAN, looping : SUBSET Monitor]
                          /\ MaxFixAttempts \in Nat

VARIABLES status,      \* status[t] of the task files
          unverified,  \* completed code tasks without verification evidence
          prompt,      \* the launch mode: in prompt mode workers have no panes
          dead,        \* all workers are dead
          looping,     \* the monitors that are a poll loop of runtime-cli
          phase,       \* the phase file
          root,        \* the root team mode state
          outcome,     \* of runtime-cli: running, its final status, or gone when
                       \* the state of the team has been deleted
          pc,          \* a poll: where it is,
          target,      \*   the phase its list of tasks calls for,
          lost,        \*   whether it saw only dead panes,
          found        \*   the phase file it has read or written

boardVars == <<status, unverified, prompt, dead, looping>>
pollVars == <<pc, target, lost, found>>
vars == <<boardVars, phase, root, outcome, pollVars>>

-----------------------------------------------------------------------------
(* orchestrator.ts: transitions *)

Terminal == {"complete", "failed", "cancelled"}
Phase == {"team-plan", "team-prd", "team-exec", "team-verify", "team-fix"} \cup Terminal

Transitions ==
    {<<"team-plan", "team-prd">>, <<"team-prd", "team-exec">>, <<"team-exec", "team-verify">>}
    \cup {"team-verify"} \X {"team-fix", "complete", "failed"}
    \cup {"team-fix"} \X {"team-exec", "team-verify", "complete", "failed"}

\* transitionPhase; "thrown" stands for the two errors it throws.
Advance(s, to) ==
    IF s.current = "thrown" \/ <<s.current, to>> \notin Transitions
    THEN [s EXCEPT !.current = "thrown"]
    ELSE IF to # "team-fix" THEN [s EXCEPT !.current = to]
    ELSE IF s.attempts >= MaxFixAttempts THEN [s EXCEPT !.current = "failed"]
    ELSE [current |-> to, attempts |-> s.attempts + 1]

-----------------------------------------------------------------------------
(* phase-controller.ts *)

\* inferPhaseTargetFromTaskCounts
InferTarget ==
    LET with(s) == {t \in Task : status[t] = s}
    IN CASE with("open") # {} -> "team-exec"
         [] with("open") = {} /\ with("failed") # {} -> "team-fix"
         [] with("open") = {} /\ with("failed") = {} /\ unverified # {} -> "team-verify"
         [] OTHER -> "complete"

\* deadWorkerStall: without panes a team of dead workers has failed.
Target == IF prompt /\ dead /\ \E t \in Task : status[t] = "open"
          THEN "failed" ELSE InferTarget

ShortPath(from, to) == <<to>>        \* mutant: no stage in between

StuckInVerify(from, to) ==           \* mutant: no way out of team-verify
    IF from = "team-exec" THEN <<"team-verify">> ELSE <<>>

\* buildTransitionPath: forward along the stages, and from team-fix back to work
\* or to the end; what has no way is the empty path.
Stages == <<"team-plan", "team-prd", "team-exec", "team-verify">>

FromStage(i, to) ==
    CASE to = "team-exec" -> SubSeq(Stages, i + 1, 3)
      [] to = "team-verify" -> SubSeq(Stages, i + 1, 4)
      [] to \in {"team-fix", "complete", "failed"} -> SubSeq(Stages, i + 1, 4) \o <<to>>
      [] OTHER -> <<>>

FromFix(to) ==
    CASE to = "team-verify" -> <<"team-exec", "team-verify">>
      [] to \in {"team-exec", "complete", "failed"} -> <<to>>
      [] OTHER -> <<>>

Path(from, to) ==
    IF from = "team-fix" THEN FromFix(to)
    ELSE FromStage(CHOOSE i \in 1..4 : Stages[i] = from, to)

\* The loop over the path: it passes over the phase it is in, and ends in a terminal one.
Toward(s, to) == IF s.current \in Terminal \cup {to} THEN s ELSE Advance(s, to)

Walk(s, path) ==
    LET at[i \in 0..Len(path)] == IF i = 0 THEN s ELSE Toward(at[i - 1], path[i])
    IN at[Len(path)]

StayTerminal(s, to) ==     \* mutant: a terminal phase is never left
    IF s.current \in Terminal \/ s.current = to THEN s
    ELSE Walk(s, Path(s.current, to))

\* reconcilePhaseStateForMonitor
Reconcile(s, to) ==
    IF s.current = to \/ {s.current, to} \subseteq Terminal THEN s
    ELSE IF s.current \in Terminal THEN [current |-> to, attempts |-> 0]
    ELSE Walk(s, Path(s.current, to))

-----------------------------------------------------------------------------

NewTeam == [current |-> "team-exec", attempts |-> 0]

Init ==
    /\ status = [t \in Task |-> "absent"]
    /\ unverified = {}
    /\ \E team \in Teams : prompt = team.prompt /\ looping = team.looping
    /\ dead = FALSE
    /\ phase = NewTeam
    /\ root = [active |-> TRUE, phase |-> "team-exec"]
    /\ outcome = "running"
    /\ pc = [m \in Monitor |-> "idle"]
    /\ target = [m \in Monitor |-> "team-exec"]
    /\ lost = [m \in Monitor |-> FALSE]
    /\ found = [m \in Monitor |-> NewTeam]

\* The team at work: tasks are created and finished, with or without the evidence
\* code tasks need; update-task may change whether a task needs it.
CreateTask(t) ==
    /\ status[t] = "absent"
    /\ status' = [status EXCEPT ![t] = "open"]
    /\ UNCHANGED <<unverified, dead>>

FinishTask(t, to) ==
    /\ status[t] = "open"
    /\ ~dead
    /\ status' = [status EXCEPT ![t] = to]
    /\ \/ UNCHANGED unverified
       \/ to = "completed" /\ unverified' = unverified \cup {t}
    /\ UNCHANGED dead

ChangeRequirement(t) ==
    /\ status[t] = "completed"
    /\ unverified' = IF t \in unverified THEN unverified \ {t} ELSE unverified \cup {t}
    /\ UNCHANGED <<status, dead>>

WorkersDie ==
    /\ ~dead
    /\ dead' = TRUE
    /\ UNCHANGED <<status, unverified>>

Board ==
    /\ outcome # "gone"
    /\ \/ \E t \in Task : \/ CreateTask(t)
                          \/ \E to \in {"completed", "failed"} : FinishTask(t, to)
                          \/ ChangeRequirement(t)
       \/ WorkersDie
    /\ UNCHANGED <<prompt, looping, phase, root, outcome, pollVars>>

-----------------------------------------------------------------------------
(* A poll: monitorTeam *)

ListTasks(m) ==
    /\ outcome # "gone"
    /\ pc[m] = "idle"
    /\ pc' = [pc EXCEPT ![m] = "read"]
    /\ target' = [target EXCEPT ![m] = Target]
    /\ lost' = [lost EXCEPT ![m] = ~prompt /\ dead]
    /\ UNCHANGED <<boardVars, phase, root, outcome, found>>

ReadPhase(m) ==
    /\ pc[m] = "read"
    /\ pc' = [pc EXCEPT ![m] = "write"]
    /\ found' = [found EXCEPT ![m] = phase]
    /\ UNCHANGED <<boardVars, phase, root, outcome, target, lost>>

WritePhase(m) ==
    LET reached == Reconcile(found[m], target[m])
    IN /\ pc[m] = "write"
       /\ phase' = reached
       /\ found' = [found EXCEPT ![m] = reached]
       /\ pc' = [pc EXCEPT ![m] = "sync"]
       /\ UNCHANGED <<boardVars, root, outcome, target, lost>>

\* The poll is over and its local variables with it.
Return(m, to) ==
    /\ pc' = [pc EXCEPT ![m] = to]
    /\ target' = [target EXCEPT ![m] = "team-exec"]
    /\ lost' = [lost EXCEPT ![m] = FALSE]
    /\ found' = [found EXCEPT ![m] = NewTeam]

\* What the poll loop makes of a poll, detectDeadWorkerFailure included (blocked
\* tasks, which it does not count as work, are among the open ones here).
Conclusions(m) ==
    CASE found[m].current = "complete" -> {"completed"}
      [] found[m].current \in {"failed", "cancelled"} -> {"failed"}
      [] lost[m] /\ found[m].current = "team-fix" -> {"failed"}
      [] lost[m] /\ found[m].current \notin Terminal \cup {"team-fix"}
                 /\ target[m] = "team-exec" -> {"failed", "running"}
      [] OTHER -> {"running"}

\* The loop goes on or begins doShutdown.
Conclude(m) ==
    \/ /\ m \in looping
       /\ outcome' \in Conclusions(m)
       /\ Return(m, IF outcome' = "running" THEN "idle" ELSE "shutdown")
    \/ /\ m \notin looping
       /\ Return(m, "idle")
       /\ UNCHANGED outcome

SyncOnce(m) ==        \* mutant: a mode state that is inactive counts as synced
    /\ pc[m] = "sync"
    /\ root' = IF found[m].current \in Terminal /\ root.active
               THEN [active |-> FALSE, phase |-> found[m].current] ELSE root
    /\ Conclude(m)
    /\ UNCHANGED <<boardVars, phase>>

\* syncRootTeamModeStateOnTerminalPhase: of a phase that is not terminal the root
\* hears nothing.
SyncRoot(m) ==
    /\ pc[m] = "sync"
    /\ root' = IF found[m].current \in Terminal
               THEN [active |-> FALSE, phase |-> found[m].current] ELSE root
    /\ Conclude(m)
    /\ UNCHANGED <<boardVars, phase>>

\* shutdownTeam, by force when its gate refuses: the state directory is deleted.
\* Other polls go on with what they have read.
DeleteTeam(m) ==
    /\ pc[m] = "shutdown"
    /\ pc' = [pc EXCEPT ![m] = "ended"]
    /\ outcome' = "gone"
    /\ UNCHANGED <<boardVars, phase, root, target, lost, found>>

\* A status call is interrupted.
Abort(m) ==
    /\ m \notin looping
    /\ pc[m] # "idle"
    /\ Return(m, "idle")
    /\ UNCHANGED <<boardVars, phase, root, outcome>>

-----------------------------------------------------------------------------

Poll(m) == ReadPhase(m) \/ WritePhase(m) \/ SyncRoot(m) \/ DeleteTeam(m)

Next == Board \/ \E m \in Monitor : ListTasks(m) \/ Poll(m) \/ Abort(m)

Spec == Init /\ [][Next]_vars

\* A poll that has started gets on, and the poll loop starts the next one.  Nobody
\* has to work, and nobody has to ask for the status.
FairSpec ==
    /\ Spec
    /\ \A m \in Monitor : WF_vars(Poll(m))
    /\ \A m \in Monitor : WF_vars(m \in looping /\ ListTasks(m))

-----------------------------------------------------------------------------
(* Properties *)

PhaseFile == [current : Phase, attempts : 0..MaxFixAttempts]

\* With it: no reachable poll makes transitionPhase throw, because the paths of
\* phase-controller.ts only use the transitions of orchestrator.ts.
TypeOK ==
    /\ status \in [Task -> {"absent", "open", "completed", "failed"}]
    /\ unverified \subseteq {t \in Task : status[t] = "completed"}
    /\ [prompt |-> prompt, looping |-> looping] \in Teams
    /\ dead \in BOOLEAN
    /\ phase \in PhaseFile
    /\ root \in [active : BOOLEAN, phase : Phase]
    /\ outcome \in {"running", "completed", "failed", "gone"}
    /\ pc \in [Monitor -> {"idle", "read", "write", "sync", "shutdown", "ended"}]
    /\ target \in [Monitor -> Phase]
    /\ lost \in [Monitor -> BOOLEAN]
    /\ found \in [Monitor -> PhaseFile]

\* The premise of what follows: the team keeps being polled, by the loop of
\* runtime-cli or by people who ask for its status and get it.
PolledForever == []<><<\E m \in Monitor : SyncRoot(m)>>_vars

\* When the tasks stop changing, the phase comes to agree with them for good,
\* although polls overwrite each other's phase file with what they made of an
\* older one.  Two disagreements last: between two terminal phases the first one
\* stays, and a team that is given new work in team-verify stays in team-verify,
\* since buildTransitionPath knows no way back from there to team-exec.
Agrees == \/ phase.current = Target
          \/ {phase.current, Target} \subseteq Terminal
          \/ phase.current = "team-verify" /\ Target = "team-exec"
PhaseSettles == PolledForever /\ <>[][UNCHANGED boardVars]_vars => <>[]Agrees

\* When the phase has come to an end, the root mode state comes to say which,
\* also when polls mirror an older phase after a newer one was written.
RootSettles ==
    \A end \in Terminal :
        PolledForever /\ <>[](phase.current = end) =>
            <>[](root = [active |-> FALSE, phase |-> end])

\* When its tasks call for the end of the team, the poll loop ends and the team is
\* deleted: no phase file others have written keeps it going.
LoopEnds ==
    [](looping # {} /\ [](Target \in Terminal) => <>(outcome = "gone"))

\* runtime-cli reports a team as completed only when every task was completed, and
\* verified, as it looked; or when all workers were dead with a phase file that
\* said so.  It does not because another poll had found the tasks completed before
\* new ones came.
CompletedIsTrue ==
    [][\A m \in Monitor :
          pc[m] = "sync" /\ pc'[m] = "shutdown" /\ outcome' = "completed"
          => target[m] \in {"complete", "failed"}]_vars

\* "enforces bounded team-fix loop and transitions to failed with reason"
\* (src/src/team/__tests__/orchestrator.test.ts:49): team-fix is entered only while
\* max_fix_attempts has not been reached.
FixLoopBounded ==
    [][phase.current # "team-fix" /\ phase'.current = "team-fix"
          => phase.attempts < MaxFixAttempts]_vars

=============================================================================
