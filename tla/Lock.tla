-------------------------------- MODULE Lock ---------------------------------
(***************************************************************************)
(* What the locks of src/src/team/state/locks.ts promise, each step        *)
(* atomic: one process at a time is inside, a process that dies inside     *)
(* shuts the others out, until one of them recovers what it has left.      *)
(* DirLock is the algorithm that has to keep this; TaskClaims has one such *)
(* lock for every task, TeamRoster the team's and the scaling lock.        *)
(***************************************************************************)
CONSTANT Proc

VARIABLES inside,    \* the processes that have taken the lock and not given it back
          orphaned   \* the lock is taken by a process that has died

LockInit == inside = {} /\ orphaned = FALSE

Take(p) ==
    /\ inside = {} /\ ~orphaned
    /\ inside' = {p}
    /\ UNCHANGED orphaned

Give(p) ==
    /\ inside = {p}
    /\ inside' = {}
    /\ UNCHANGED orphaned

Die(p) ==
    /\ inside = {p}
    /\ inside' = {}
    /\ orphaned' = TRUE

Recover ==
    /\ orphaned
    /\ orphaned' = FALSE
    /\ UNCHANGED inside

LockNext == Recover \/ \E p \in Proc : Take(p) \/ Give(p) \/ Die(p)

LockSpec == LockInit /\ [][LockNext]_<<inside, orphaned>>

=============================================================================
