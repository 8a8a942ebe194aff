--------------------------- MODULE DirLock_proofs ----------------------------
(***************************************************************************)
(* Proofs about DirLock, for any number of processes and crashes.          *)
(***************************************************************************)
EXTENDS DirLock, TLAPS

LEMMA MissingIsNoDirectory == Missing \notin Directory
  BY LockConstants DEF Directory

LEMMA Initially == Init => IInv
<1> SUFFICES ASSUME Init
             PROVE  IInv
  OBVIOUS
<1>1. TypeOK
  BY DEF Init, TypeOK, Label
<1>2. \A p \in Proc : pc[p] = "idle"
  BY DEF Init
<1>3. QED
  BY <1>1, <1>2 DEF IInv, OneHolder, MakerHasDirectory, HolderKeepsLock, Holding,
                    OrphanedByCrash, Orphaned, Present, Init

LEMMA TypingKept == TypeOK /\ [Next]_vars => TypeOK'
<1> SUFFICES ASSUME TypeOK, [Next]_vars
             PROVE  TypeOK'
  OBVIOUS
<1> USE DEF TypeOK, Label, Goto, Directory, NewDir, Present, Stale, OwnedBy
<1>1. CASE Age
  BY <1>1 DEF Age
<1>2. ASSUME NEW p \in Proc, Call(p) \/ Crash(p)
      PROVE  TypeOK'
  BY <1>2 DEF Call, Crash
<1>3. ASSUME NEW p \in Proc, Step(p)
      PROVE  TypeOK'
  <2>1. CASE MakeDir(p) \/ FindDir(p) \/ WriteOwnerFails(p) \/ Abandon(p)
    <3>1. NewDir \in Directory
      OBVIOUS
    <3>2. CASE MakeDir(p)
      BY <3>1, <3>2 DEF MakeDir
    <3>3. CASE FindDir(p) \/ WriteOwnerFails(p) \/ Abandon(p)
      BY <3>3 DEF FindDir, WriteOwnerFails, Abandon
    <3>4. QED
      BY <2>1, <3>2, <3>3
  <2>2. CASE WriteOwner(p)
    <3>1. dir \in Directory
      BY <2>2 DEF WriteOwner
    <3>2. [owner |-> p, stale |-> IF dir.owner = NoOwner THEN FALSE ELSE dir.stale]
             \in Directory
      BY <3>1
    <3>3. QED
      BY <2>2, <3>2 DEF WriteOwner
  <2>3. CASE Leave(p) \/ ReadOwner(p) \/ Remove(p)
    BY <2>3 DEF Leave, ReadOwner, Remove
  <2>4. CASE Stat(p) \/ GiveUp(p) \/ Retry(p)
    BY <2>4 DEF Stat, GiveUp, Retry
  <2>5. CASE Recover(p)
    BY <2>5 DEF Recover
  <2>6. QED
    BY <1>3, <2>1, <2>2, <2>3, <2>4, <2>5 DEF Step
<1>4. CASE UNCHANGED vars
  BY <1>4 DEF vars
<1>5. QED
  BY <1>1, <1>2, <1>3, <1>4 DEF Next

\* What the invariant says while no recovery has gone wrong.
Exclusive ==
    /\ OneHolder
    /\ MakerHasDirectory
    /\ HolderKeepsLock
    /\ \A p \in Proc : pc[p] # "abandon"

LEMMA HolderHasFreshDirectory ==
    ASSUME Exclusive, ~raced, NEW p \in Proc, pc[p] \in Holding
    PROVE  Present /\ ~Stale
<1> DEFINE Fresh(q) == [owner |-> q, stale |-> FALSE]
<1>1. \E q \in Proc \cup {NoOwner} : dir = Fresh(q)
  BY DEF Exclusive, MakerHasDirectory, HolderKeepsLock, NewDir, Holding
<1>2. PICK q \in Proc \cup {NoOwner} : dir = Fresh(q)
  BY <1>1
<1>3. Fresh(q) \in Directory /\ Fresh(q).stale = FALSE
  BY DEF Directory
<1>4. dir # Missing /\ dir.stale = FALSE
  BY <1>2, <1>3, MissingIsNoDirectory
<1>5. QED
  BY <1>4 DEF Present, Stale

LEMMA ExclusiveKept ==
    ASSUME ~SlowHolders, TypeOK, Exclusive, ~raced, [Next]_vars, ~raced'
    PROVE  Exclusive'
<1>0. \A p \in Proc : pc[p] \in Holding => Present /\ ~Stale
  BY HolderHasFreshDirectory
<1> USE DEF Exclusive, OneHolder, MakerHasDirectory, HolderKeepsLock, Holding, TypeOK,
            Goto, NewDir
<1>1. CASE Age
  BY <1>1 DEF Age, Present, Stale
<1>2. ASSUME NEW p \in Proc, Call(p) \/ Crash(p)
      PROVE  Exclusive'
  BY <1>2 DEF Call, Crash
<1>3. ASSUME NEW p \in Proc, MakeDir(p)
      PROVE  Exclusive'
  BY <1>0, <1>3 DEF MakeDir, Present
<1>4. ASSUME NEW p \in Proc, FindDir(p) \/ Stat(p) \/ GiveUp(p) \/ Retry(p)
      PROVE  Exclusive'
  BY <1>4 DEF FindDir, Stat, GiveUp, Retry
<1>5. ASSUME NEW p \in Proc, WriteOwner(p)
      PROVE  Exclusive'
  <2>1. dir = NewDir /\ pc[p] = "owner" /\ pc' = [pc EXCEPT ![p] = "section"]
    BY <1>5 DEF WriteOwner
  <2>2. dir' = [owner |-> p, stale |-> FALSE]
    BY <1>5, <2>1 DEF WriteOwner
  <2>3. QED
    BY <2>1, <2>2
<1>6. ASSUME NEW p \in Proc, WriteOwnerFails(p) \/ Abandon(p)
      PROVE  Exclusive'
  BY <1>0, <1>6 DEF WriteOwnerFails, Abandon
<1>7. ASSUME NEW p \in Proc, Leave(p) \/ ReadOwner(p) \/ Remove(p)
      PROVE  Exclusive'
  BY <1>7 DEF Leave, ReadOwner, Remove, OwnedBy, Present
<1>8. ASSUME NEW p \in Proc, Recover(p)
      PROVE  Exclusive'
  BY <1>0, <1>8 DEF Recover
<1>9. CASE UNCHANGED vars
  BY <1>9 DEF vars
<1>10. QED
  BY <1>1, <1>2, <1>3, <1>4, <1>5, <1>6, <1>7, <1>8, <1>9 DEF Next, Step

-----------------------------------------------------------------------------
(* What the directory implements *)

\* A step that neither makes nor gives back the directory.
LEMMA Elsewhere ==
    ASSUME TypeOK, NEW p \in Proc, NEW to \in Label \ Holding,
           pc[p] \notin Holding, pc' = [pc EXCEPT ![p] = to]
    PROVE  Inside' = Inside
<1>1. \A q \in Proc : pc'[q] \in Holding <=> pc[q] \in Holding
  BY DEF TypeOK
<1> QED
  BY <1>1 DEF Inside

\* A step from one point to another with the directory in hand.
LEMMA StaysInside ==
    ASSUME TypeOK, NEW p \in Proc, NEW to \in Holding,
           pc[p] \in Holding, pc' = [pc EXCEPT ![p] = to]
    PROVE  Inside' = Inside
<1>1. \A q \in Proc : pc'[q] \in Holding <=> pc[q] \in Holding
  BY DEF TypeOK
<1> QED
  BY <1>1 DEF Inside

LEMMA Alone ==
    ASSUME Exclusive, NEW p \in Proc, pc[p] \in Holding
    PROVE  Inside = {p}
BY DEF Exclusive, OneHolder, Inside

LEMMA Leaves ==
    ASSUME TypeOK, Exclusive, NEW p \in Proc, NEW to \in Label \ Holding,
           pc[p] \in Holding, pc' = [pc EXCEPT ![p] = to]
    PROVE  Inside = {p} /\ Inside' = {}
<1>1. Inside = {p}
  BY Alone
<1>2. \A q \in Proc : pc'[q] \in Holding => pc[q] \in Holding /\ q # p
  BY DEF TypeOK
<1> QED
  BY <1>1, <1>2 DEF Inside

LEMMA LockStep ==
    ASSUME ~SlowHolders, TypeOK, Exclusive, ~raced, [Next]_vars, ~raced'
    PROVE  L!LockNext \/ UNCHANGED <<Inside, Orphaned>>
<1>0. \A p \in Proc : pc[p] \in Holding => Present /\ ~Stale
  BY HolderHasFreshDirectory
<1>a. {"mkdir", "stat", "recover", "wait", "idle", "dead", "abandon"} \subseteq Label \ Holding
  BY DEF Label, Holding
<1>b. {"owner", "section", "release", "remove"} \subseteq Holding
  BY DEF Holding
<1>1. CASE Age
  <2>1. pc' = pc /\ Present /\ dir' = [dir EXCEPT !.stale = TRUE]
    BY <1>1 DEF Age
  <2>2. dir' \in Directory
    BY <2>1 DEF TypeOK, Directory, Present
  <2> QED
    BY <2>1, <2>2, MissingIsNoDirectory DEF Inside, Orphaned, Present
<1>2. ASSUME NEW p \in Proc, Call(p)
      PROVE  UNCHANGED <<Inside, Orphaned>>
  <2>1. pc[p] \notin Holding /\ pc' = [pc EXCEPT ![p] = "mkdir"] /\ dir' = dir
    BY <1>2 DEF Call, Goto, Holding
  <2> QED
    BY <1>a, <2>1, Elsewhere DEF Orphaned, Present
<1>3. ASSUME NEW p \in Proc, Crash(p)
      PROVE  L!LockNext \/ UNCHANGED <<Inside, Orphaned>>
  <2>1. pc' = [pc EXCEPT ![p] = "dead"] /\ dir' = dir
    BY <1>3 DEF Crash
  <2>2. CASE pc[p] \in Holding
    <3>1. Inside = {p} /\ Inside' = {}
      BY <1>a, <2>1, <2>2, Leaves
    <3>2. Orphaned' = TRUE
      BY <1>0, <2>1, <2>2, <3>1 DEF Orphaned, Present
    <3> QED
      BY <3>1, <3>2 DEF L!LockNext, L!Die
  <2>3. CASE pc[p] \notin Holding
    <3>1. Inside' = Inside
      BY <1>a, <2>1, <2>3, Elsewhere
    <3> QED
      BY <2>1, <3>1 DEF Orphaned, Present
  <2> QED
    BY <2>2, <2>3
<1>4. ASSUME NEW p \in Proc, MakeDir(p)
      PROVE  L!LockNext
  <2>1. ~Present /\ pc[p] = "mkdir" /\ pc' = [pc EXCEPT ![p] = "owner"]
    BY <1>4 DEF MakeDir, Goto
  <2>2. Inside = {} /\ ~Orphaned
    BY <1>0, <2>1 DEF Inside, Orphaned
  <2>3. Inside' = {p}
    BY <2>1, <2>2 DEF Inside, TypeOK, Holding
  <2>4. ~Orphaned'
    BY <2>3 DEF Orphaned
  <2>5. UNCHANGED Orphaned
    BY <2>2, <2>4 DEF Orphaned
  <2> QED
    BY <2>2, <2>3, <2>5 DEF L!LockNext, L!Take
<1>5. ASSUME NEW p \in Proc, FindDir(p) \/ Stat(p) \/ GiveUp(p) \/ Retry(p)
      PROVE  UNCHANGED <<Inside, Orphaned>>
  <2>1. \E to \in Label \ Holding : pc[p] \notin Holding /\ pc' = [pc EXCEPT ![p] = to]
    BY <1>5, <1>a DEF FindDir, Stat, GiveUp, Retry, Goto, Holding
  <2>2. Inside' = Inside /\ dir' = dir
    BY <1>5, <2>1, Elsewhere DEF FindDir, Stat, GiveUp, Retry
  <2> QED
    BY <2>2 DEF Orphaned, Present
<1>6. ASSUME NEW p \in Proc, WriteOwner(p) \/ Leave(p)
      PROVE  UNCHANGED <<Inside, Orphaned>>
  <2>1. \E to \in Holding : pc[p] \in Holding /\ pc' = [pc EXCEPT ![p] = to]
    BY <1>6, <1>b DEF WriteOwner, Leave, Goto
  <2>2. Inside' = Inside /\ p \in Inside
    BY <2>1, StaysInside DEF Inside
  <2> QED
    BY <2>2 DEF Orphaned
<1>7. ASSUME NEW p \in Proc, WriteOwnerFails(p) \/ Abandon(p)
      PROVE  FALSE
  BY <1>0, <1>b, <1>7 DEF WriteOwnerFails, Abandon, Goto, Exclusive
<1>8. ASSUME NEW p \in Proc, ReadOwner(p)
      PROVE  UNCHANGED <<Inside, Orphaned>>
  <2>1. pc[p] = "release"
    BY <1>8 DEF ReadOwner, Goto
  <2>2. dir = [owner |-> p, stale |-> FALSE]
    BY <2>1 DEF Exclusive, HolderKeepsLock
  <2>3. OwnedBy(p)
    BY <1>0, <1>b, <2>1, <2>2 DEF OwnedBy
  <2>4. pc' = [pc EXCEPT ![p] = "remove"]
    BY <1>8, <2>3 DEF ReadOwner, Goto
  <2>5. Inside' = Inside /\ p \in Inside
    BY <1>b, <2>1, <2>4, StaysInside DEF Inside
  <2> QED
    BY <2>5 DEF Orphaned
<1>9. ASSUME NEW p \in Proc, Remove(p)
      PROVE  L!LockNext
  <2>1. pc[p] \in Holding /\ pc' = [pc EXCEPT ![p] = "idle"] /\ dir' = Missing
    BY <1>9, <1>b DEF Remove, Goto
  <2>2. Inside = {p} /\ Inside' = {}
    BY <1>a, <2>1, Leaves
  <2>3. UNCHANGED Orphaned
    BY <2>1, <2>2 DEF Orphaned, Present
  <2> QED
    BY <2>2, <2>3 DEF L!LockNext, L!Give
<1>10. ASSUME NEW p \in Proc, Recover(p)
       PROVE  L!LockNext \/ UNCHANGED <<Inside, Orphaned>>
  <2>1. pc[p] = "recover" /\ pc' = [pc EXCEPT ![p] = "mkdir"] /\ dir' = Missing
    BY <1>10 DEF Recover, Goto
  <2>2. Inside' = Inside
    BY <1>a, <2>1, Elsewhere DEF Holding
  <2>3. Orphaned' = FALSE
    BY <2>1 DEF Orphaned, Present
  <2> QED
    BY <2>2, <2>3 DEF L!LockNext, L!Recover, Orphaned
<1>11. CASE UNCHANGED vars
  BY <1>11 DEF vars, Inside, Orphaned, Present
<1> QED
  BY <1>1, <1>2, <1>3, <1>4, <1>5, <1>6, <1>7, <1>8, <1>9, <1>10, <1>11 DEF Next, Step

\* Who leaves a directory behind with nobody inside has crashed.
LEMMA OrphanKept ==
    ASSUME ~SlowHolders, TypeOK, Exclusive, ~raced, OrphanedByCrash, [Next]_vars, ~raced'
    PROVE  OrphanedByCrash'
<1>1. \A p \in Proc : pc[p] = "dead" => pc'[p] = "dead"
  BY DEF TypeOK, Next, Step, vars, Age, Call, Crash, MakeDir, FindDir, WriteOwner, Goto,
         WriteOwnerFails, Abandon, Leave, ReadOwner, Remove, Stat, Recover, GiveUp, Retry
<1>2. L!LockNext \/ UNCHANGED <<Inside, Orphaned>>
  BY LockStep
<1>3. CASE ~Orphaned' \/ Orphaned
  BY <1>1, <1>3 DEF OrphanedByCrash
<1>4. CASE Orphaned' /\ ~Orphaned
  <2>1. Inside # {} /\ Inside' = {}
    BY <1>2, <1>4 DEF L!LockNext, L!Take, L!Give, L!Die, L!Recover, Orphaned
  <2>2. PICK p \in Proc : pc[p] \in Holding /\ pc'[p] \notin Holding
    BY <2>1 DEF Inside
  <2>3. Present'
    BY <1>4 DEF Orphaned
  <2> SUFFICES pc'[p] = "dead"
    BY DEF OrphanedByCrash
  <2>4. CASE pc[p] = "release"
    <3>1. dir = [owner |-> p, stale |-> FALSE] /\ Present
      BY <2>4, HolderHasFreshDirectory DEF Exclusive, HolderKeepsLock, Holding
    <3>2. OwnedBy(p)
      BY <3>1 DEF OwnedBy
    <3> QED
      BY <2>2, <2>4, <3>2
      DEF TypeOK, Holding, Goto, Next, Step, vars, Age, Call, Crash, MakeDir, FindDir,
          WriteOwner, WriteOwnerFails, Abandon, Leave, ReadOwner, Remove, Stat, Recover,
          GiveUp, Retry
  <2>5. CASE pc[p] = "remove"
    BY <2>2, <2>3, <2>5
    DEF TypeOK, Present, Holding, Goto, Next, Step, vars, Age, Call, Crash, MakeDir, FindDir,
        WriteOwner, WriteOwnerFails, Abandon, Leave, ReadOwner, Remove, Stat, Recover,
        GiveUp, Retry
  <2>6. CASE pc[p] = "owner"
    BY <2>2, <2>6, HolderHasFreshDirectory
    DEF TypeOK, Holding, Goto, Next, Step, vars, Age, Call, Crash, MakeDir, FindDir,
        WriteOwner, WriteOwnerFails, Abandon, Leave, ReadOwner, Remove, Stat, Recover,
        GiveUp, Retry
  <2>7. CASE pc[p] = "section"
    BY <2>2, <2>7
    DEF TypeOK, Holding, Goto, Next, Step, vars, Age, Call, Crash, MakeDir, FindDir,
        WriteOwner, WriteOwnerFails, Abandon, Leave, ReadOwner, Remove, Stat, Recover,
        GiveUp, Retry
  <2>8. pc'[p] = "dead" \/ pc[p] \in {"release", "remove", "owner", "section"}
    BY <2>2 DEF Holding
  <2> QED
    BY <2>4, <2>5, <2>6, <2>7, <2>8
<1> QED
  BY <1>3, <1>4

LEMMA Inductive ==
    ASSUME ~SlowHolders, IInv, [Next]_vars
    PROVE  IInv'
<1>1. TypeOK'
  BY TypingKept DEF IInv
<1>2. raced => raced'
  BY DEF IInv, Next, Step, vars, Age, Call, Crash, MakeDir, FindDir, WriteOwner,
         WriteOwnerFails, Abandon, Leave, ReadOwner, Remove, Stat, Recover, GiveUp, Retry
<1>3. CASE raced'
  BY <1>1, <1>3 DEF IInv
<1>4. CASE ~raced'
  BY <1>1, <1>2, <1>4, ExclusiveKept, OrphanKept DEF IInv, Exclusive
<1>5. QED
  BY <1>3, <1>4

-----------------------------------------------------------------------------
(* What holds *)

\* However long the sections: the directory is missing or has an owner and an age, and
\* every process is at a point of the code.
THEOREM TypeCorrect == Spec => []TypeOK
<1>1. Init => TypeOK
  BY Initially DEF IInv
<1>2. QED
  BY <1>1, TypingKept, PTL DEF Spec

\* With sections shorter than LOCK_STALE_MS, the holder of a lock directory keeps
\* it until a recovery removes another directory than the stale one it looked at.
THEOREM LockIsKept ==
    ASSUME ~SlowHolders
    PROVE  Spec => []HolderKeepsLock
<1>1. IInv /\ [Next]_vars => IInv'
  BY Inductive
<1>2. IInv => HolderKeepsLock
  BY DEF IInv, HolderKeepsLock
<1>3. QED
  BY <1>1, <1>2, Initially, PTL DEF Spec

\* Hence two processes are in the section together only after such a recovery.
THEOREM ExclusionUnlessRaced ==
    ASSUME ~SlowHolders
    PROVE  Spec => [](raced \/ MutualExclusion)
<1>1. IInv /\ [Next]_vars => IInv'
  BY Inductive
<1>2. IInv => raced \/ MutualExclusion
  BY DEF IInv, OneHolder, MutualExclusion, Holding
<1>3. QED
  BY <1>1, <1>2, Initially, PTL DEF Spec

\* With sections shorter than LOCK_STALE_MS, a lock that outlives its section was left
\* by a process that crashed, up to such a recovery.
THEOREM LeftByCrash ==
    ASSUME ~SlowHolders
    PROVE  Spec => []OrphanedByCrash
<1>1. IInv /\ [Next]_vars => IInv'
  BY Inductive
<1>2. IInv => OrphanedByCrash
  BY DEF IInv, OrphanedByCrash
<1>3. QED
  BY <1>1, <1>2, Initially, PTL DEF Spec

\* With sections shorter than LOCK_STALE_MS the directory is the lock that TaskClaims
\* relies on, up to a recovery that races another.
THEOREM ImplementsLock ==
    ASSUME ~SlowHolders
    PROVE  Spec => LockUnlessRaced
<1>1. Init => L!LockInit
  BY DEF Init, L!LockInit, Inside, Orphaned, Present, Holding
<1>2. IInv /\ [Next]_vars => IInv'
  BY Inductive
<1>3. IInv /\ [Next]_vars => [L!LockNext \/ raced']_<<Inside, Orphaned>>
  <2> SUFFICES ASSUME IInv, [Next]_vars, ~raced'
               PROVE  L!LockNext \/ UNCHANGED <<Inside, Orphaned>>
    OBVIOUS
  <2>1. ~raced
    BY DEF Next, Step, vars, Age, Call, Crash, MakeDir, FindDir, WriteOwner, IInv, TypeOK,
           WriteOwnerFails, Abandon, Leave, ReadOwner, Remove, Stat, Recover, GiveUp, Retry
  <2> QED
    BY <2>1, LockStep DEF IInv, Exclusive
<1> QED
  BY <1>1, <1>2, <1>3, Initially, PTL DEF Spec, LockUnlessRaced

=============================================================================
