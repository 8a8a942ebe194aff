------------------------------ MODULE DirLock --------------------------------
(***************************************************************************)
(* The lock of src/src/team/state/locks.ts: a directory that mkdir creates *)
(* exclusively, with a file "owner" inside that names its maker.  Processes*)
(* take it, wait for it, give up after a deadline, and remove it when its  *)
(* mtime is older than LOCK_STALE_MS, because its maker may have crashed.  *)
(* The scaling, create-task, claim, mailbox and dispatch locks are this    *)
(* algorithm (the claim lock writes the file after its loop, not in it).   *)
(*                                                                         *)
(* The file system calls are atomic, two calls of one process are not: a   *)
(* waiter stats a directory and then removes whatever has that name.       *)
(* An owner token is pid.time.random, here the process: a process that     *)
(* crashed does not come back under the same token.                        *)
(***************************************************************************)
CONSTANTS Proc,         \* processes competing for the lock
          NoOwner,      \* the owner file does not exist
          Missing,      \* the directory does not exist
          Mortal,       \* bound: the processes that may crash
          SlowHolders   \* may the section take longer than LOCK_STALE_MS?

ASSUME LockConstants == /\ NoOwner \notin Proc
                        /\ Mortal \subseteq Proc
                        /\ SlowHolders \in BOOLEAN
                        /\ Missing \notin [owner : Proc \cup {NoOwner}, stale : BOOLEAN]

VARIABLES dir,          \* the lock directory
          pc,           \* where each process is
          raced         \* history: a recovery has removed a directory that was
                        \* not the stale one it had looked at

vars == <<dir, pc, raced>>

-----------------------------------------------------------------------------

Directory == [owner : Proc \cup {NoOwner}, stale : BOOLEAN]

Label == {"idle", "mkdir", "owner", "abandon", "section", "release", "remove",
          "stat", "recover", "wait", "dead"}

\* The process has made the directory and not yet given it up.
Holding == {"owner", "section", "release", "remove"}

Init ==
    /\ dir = Missing
    /\ pc = [p \in Proc |-> "idle"]
    /\ raced = FALSE

Present == dir # Missing
OwnedBy(p) == Present /\ dir.owner = p
Stale == Present /\ dir.stale

Goto(p, from, to) == pc[p] = from /\ pc' = [pc EXCEPT ![p] = to]

-----------------------------------------------------------------------------
(* Taking the lock *)

Call(p) ==
    /\ Goto(p, "idle", "mkdir")
    /\ UNCHANGED <<dir, raced>>

NewDir == [owner |-> NoOwner, stale |-> FALSE]

MakeDirAnyway(p) ==    \* mutant: mkdir as if for a path, happy with one that exists
    /\ Goto(p, "mkdir", "owner")
    /\ dir' = NewDir
    /\ UNCHANGED raced

MakeDir(p) ==
    /\ ~Present
    /\ Goto(p, "mkdir", "owner")
    /\ dir' = NewDir
    /\ UNCHANGED raced

\* EEXIST
FindDir(p) ==
    /\ Present
    /\ Goto(p, "mkdir", "stat")
    /\ UNCHANGED <<dir, raced>>

\* A new file in the directory renews its mtime; an overwritten one does not.
WriteOwner(p) ==
    /\ Present
    /\ Goto(p, "owner", "section")
    /\ dir' = [owner |-> p, stale |-> IF dir.owner = NoOwner THEN FALSE ELSE dir.stale]
    /\ UNCHANGED raced

\* ENOENT: somebody has removed the directory meanwhile.
WriteOwnerFails(p) ==
    /\ ~Present
    /\ Goto(p, "owner", "abandon")
    /\ UNCHANGED <<dir, raced>>

\* ... and the handler removes what it takes for its own, and throws.
Abandon(p) ==
    /\ Goto(p, "abandon", "idle")
    /\ dir' = Missing
    /\ UNCHANGED raced

-----------------------------------------------------------------------------
(* Giving it back: the finally block *)

LeaveLocked(p) ==         \* mutant: a section that throws is left without the finally
    /\ Goto(p, "section", "idle")
    /\ UNCHANGED <<dir, raced>>

Leave(p) ==
    /\ Goto(p, "section", "release")
    /\ UNCHANGED <<dir, raced>>

ReadOwner(p) ==
    /\ Goto(p, "release", IF OwnedBy(p) THEN "remove" ELSE "idle")
    /\ UNCHANGED <<dir, raced>>

Remove(p) ==
    /\ Goto(p, "remove", "idle")
    /\ dir' = Missing
    /\ UNCHANGED raced

-----------------------------------------------------------------------------
(* Waiting: maybeRecoverStaleLock, then the deadline, then sleep *)

Stat(p) ==
    /\ Goto(p, "stat", IF Stale THEN "recover" ELSE "wait")
    /\ UNCHANGED <<dir, raced>>

\* rm with force: of the directory that has that name now, or of none.
Recover(p) ==
    /\ Goto(p, "recover", "mkdir")
    /\ dir' = Missing
    /\ raced' = (raced \/ (Present /\ ~Stale))

NoDeadline(p) ==         \* mutant: the wait never times out
    /\ Goto(p, "wait", "wait")
    /\ UNCHANGED <<dir, raced>>

GiveUp(p) ==
    /\ Goto(p, "wait", "idle")
    /\ UNCHANGED <<dir, raced>>

Retry(p) ==
    /\ Goto(p, "wait", "mkdir")
    /\ UNCHANGED <<dir, raced>>

-----------------------------------------------------------------------------
(* The environment *)

\* LOCK_STALE_MS pass.  Unless holders may be slow, all of it passes only over a
\* directory whose maker has crashed.
Age ==
    /\ Present
    /\ ~Stale
    /\ SlowHolders \/ \A p \in Proc : pc[p] \notin Holding
    /\ dir' = [dir EXCEPT !.stale = TRUE]
    /\ UNCHANGED <<pc, raced>>

Crash(p) ==
    /\ p \in Mortal
    /\ pc[p] \notin {"idle", "dead"}
    /\ pc' = [pc EXCEPT ![p] = "dead"]
    /\ UNCHANGED <<dir, raced>>

-----------------------------------------------------------------------------

Step(p) ==
    \/ MakeDir(p) \/ FindDir(p) \/ WriteOwner(p) \/ WriteOwnerFails(p) \/ Abandon(p)
    \/ Leave(p) \/ ReadOwner(p) \/ Remove(p)
    \/ Stat(p) \/ Recover(p) \/ GiveUp(p) \/ Retry(p)

Next == Age \/ \E p \in Proc : Call(p) \/ Step(p) \/ Crash(p)

Spec == Init /\ [][Next]_vars

\* Running processes run; the section ends; a process that keeps waiting sees its
\* deadline pass.  Nothing forces a call, a crash or the clock.
FairSpec == Spec /\ \A p \in Proc : WF_vars(Step(p)) /\ SF_vars(GiveUp(p))

-----------------------------------------------------------------------------
(* Properties *)

TypeOK ==
    /\ dir \in Directory \cup {Missing}
    /\ pc \in [Proc -> Label]
    /\ raced \in BOOLEAN

\* The directory of a process in the section is its own, is not taken for stale
\* and is not removed under it, up to the first recovery that hits another
\* directory than the stale one it looked at.
HolderKeepsLock ==
    raced \/ \A p \in Proc : pc[p] \in {"section", "release", "remove"} =>
                                dir = [owner |-> p, stale |-> FALSE]

\* Up to the first recovery that hits another directory than the stale one it looked
\* at, the directory is a lock as Lock has it: whoever has made it and not removed it
\* is alone, and what is there with nobody inside is recovered before another is made.
Inside == {p \in Proc : pc[p] \in Holding}
Orphaned == Present /\ Inside = {}

L == INSTANCE Lock WITH inside <- Inside, orphaned <- Orphaned

LockUnlessRaced == L!LockInit /\ [][L!LockNext \/ raced']_<<Inside, Orphaned>>

\* A lock that is there with nobody inside was left by a process that crashed: up to
\* such a recovery, no other way through the lock forgets the directory, with the
\* owner compared before it is removed and every step of others in between.
OrphanedByCrash == raced \/ ~Orphaned \/ \E p \in Proc : pc[p] = "dead"

\* What callers rely on: "File-based scaling lock to prevent concurrent
\* scale_up/scale_down operations" (src/src/team/state.ts:1125).
MutualExclusion ==
    \A p, q \in Proc : pc[p] = "section" /\ pc[q] = "section" => p = q

\* Whoever asks for the lock gets it or an error, whatever became of the others.
AskersReturn ==
    \A p \in Proc : pc[p] = "mkdir" ~> pc[p] \in {"section", "idle", "dead"}

-----------------------------------------------------------------------------
(* The inductive invariant: one process at most has made the directory that *)
(* is there, and a waiter about to remove one saw it stale.                 *)

OneHolder == \A p, q \in Proc : pc[p] \in Holding /\ pc[q] \in Holding => p = q

MakerHasDirectory ==
    \A p \in Proc : pc[p] = "owner" => dir = NewDir

IInv ==
    /\ TypeOK
    /\ \/ raced
       \/ /\ OneHolder
          /\ MakerHasDirectory
          /\ HolderKeepsLock
          /\ OrphanedByCrash
          /\ \A p \in Proc : pc[p] # "abandon"

=============================================================================
