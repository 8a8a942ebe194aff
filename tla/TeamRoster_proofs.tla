-------------------------- MODULE TeamRoster_proofs --------------------------
(***************************************************************************)
(* Proofs about TeamRoster, for any number of invocations, workers and     *)
(* tasks.                                                                  *)
(***************************************************************************)
EXTENDS TeamRoster, FiniteSetTheorems, TLAPS

-----------------------------------------------------------------------------
(* Sets of workers and the manifests made from them *)

\* The workers a team starts with, in any panes.
LEMMA InitialWorkers ==
    ASSUME NEW x \in Proc \cup {NoPane}
    PROVE  /\ (1..Initial) \X {x} \in SUBSET Worker
           /\ IsFiniteSet((1..Initial) \X {x})
           /\ Cardinality((1..Initial) \X {x}) = Initial
<1>1. IsFiniteSet(1..Initial) /\ Cardinality(1..Initial) = Initial
  <2>1. 1 \in Int /\ Initial \in Int /\ ~(1 > Initial) /\ Initial - 1 + 1 = Initial
    BY RosterAssumption
  <2>2. QED
    BY <2>1, FS_Interval
<1>2. IsFiniteSet({x}) /\ Cardinality({x}) = 1
  BY FS_Singleton
<1>3. Initial * 1 = Initial
  BY RosterAssumption
<1>4. /\ IsFiniteSet((1..Initial) \X {x})
      /\ Cardinality((1..Initial) \X {x}) = Initial * 1
  <2> DEFINE S == 1..Initial
             T == {x}
  <2>1. IsFiniteSet(S) /\ Cardinality(S) = Initial /\ IsFiniteSet(T) /\ Cardinality(T) = 1
    BY <1>1, <1>2
  <2> HIDE DEF S, T
  <2>2. IsFiniteSet(S \X T) /\ Cardinality(S \X T) = Cardinality(S) * Cardinality(T)
    BY <2>1, FS_Product, Zenon
  <2>3. QED
    BY <2>1, <2>2 DEF S, T
<1>5. (1..Initial) \X {x} \in SUBSET Worker
  <2>1. 1..Initial \subseteq Nat \ {0}
    BY RosterAssumption
  <2>2. QED
    BY <2>1 DEF Worker
<1>6. QED
  BY <1>3, <1>4, <1>5

LEMMA TeamOfInitialWorkers ==
    ASSUME NEW x \in Proc \cup {NoPane}
    PROVE  LET m == [nextTask |-> 1, workers |-> (1..Initial) \X {x},
                     nextIndex |-> Initial + 1]
           IN m \in Manifest /\ Sound(m)
<1> DEFINE W == (1..Initial) \X {x}
<1>1. Initial \in 1..MaxWorkers /\ 1 \in Nat \ {0} /\ Initial + 1 \in Nat \ {0}
  BY RosterAssumption
<1>2. W \in SUBSET Worker /\ IsFiniteSet(W) /\ Cardinality(W) = Initial
  BY InitialWorkers
<1>3. \A v, w \in W : v[1] = w[1] => v = w
  OBVIOUS
<1>4. \A w \in W : w[1] < Initial + 1
  BY RosterAssumption
<1> HIDE DEF W
<1>5. [nextTask |-> 1, workers |-> W, nextIndex |-> Initial + 1] \in Manifest
  BY <1>1, <1>2 DEF Manifest
<1>6. QED
  BY <1>1, <1>2, <1>3, <1>4, <1>5 DEF Sound, Consistent, W

LEMMA NewTeamSound == NewTeam \in Manifest /\ Sound(NewTeam)
  BY TeamOfInitialWorkers DEF NewTeam

\* The manifest startTeam saves in the end.
LEMMA BootedSound ==
    ASSUME NEW p \in Proc
    PROVE  LET booted == [NewTeam EXCEPT !.workers = (1..Initial) \X {p}]
           IN booted \in Manifest /\ Sound(booted)
  BY TeamOfInitialWorkers DEF NewTeam

\* A worker with a name nobody has had may be added while there is room.
LEMMA GrownSound ==
    ASSUME NEW m \in Manifest, Sound(m), NEW p \in Proc,
           Cardinality(m.workers) + 1 <= MaxWorkers
    PROVE  LET w == <<m.nextIndex, p>>
               grown == WithRoster(m, m.workers \cup {w}, m.nextIndex + 1)
           IN /\ grown \in Manifest
              /\ Sound(grown)
              /\ w \notin m.workers
              /\ Cardinality(m.workers \cup {w}) = Cardinality(m.workers) + 1
<1> DEFINE w == <<m.nextIndex, p>>
           grown == WithRoster(m, m.workers \cup {w}, m.nextIndex + 1)
<1>1. /\ m.nextIndex \in Nat \ {0}
      /\ m.nextTask \in Nat \ {0}
      /\ m.workers \in SUBSET Worker
      /\ w \in Worker
  BY DEF Manifest, Worker
<1>2. \A v \in m.workers : v[1] < m.nextIndex /\ v[1] \in Nat
  BY <1>1 DEF Sound, Consistent, Worker
<1>3. w \notin m.workers
  BY <1>1, <1>2
<1>4. /\ IsFiniteSet(m.workers \cup {w})
      /\ Cardinality(m.workers \cup {w}) = Cardinality(m.workers) + 1
  BY <1>3, FS_AddElement DEF Sound
<1>5. Cardinality(m.workers \cup {w}) \in 1..MaxWorkers
  BY <1>4, FS_CardinalityType, RosterAssumption DEF Sound
<1>6. m.nextIndex + 1 \in Nat \ {0}
  BY <1>1
<1>7. grown \in Manifest
  BY <1>1, <1>6 DEF WithRoster, Manifest
<1>8. /\ \A u, v \in m.workers \cup {w} : u[1] = v[1] => u = v
      /\ \A v \in m.workers \cup {w} : v[1] < m.nextIndex + 1
  <2>1. \A v \in m.workers : v[1] # w[1]
    BY <1>1, <1>2
  <2>2. \A v \in m.workers : v[1] < m.nextIndex + 1
    BY <1>1, <1>2
  <2>3. QED
    BY <1>1, <2>1, <2>2 DEF Sound, Consistent
<1>9. QED
  BY <1>3, <1>4, <1>5, <1>7, <1>8 DEF WithRoster, Sound, Consistent

\* Workers may go as long as one remains, and an index above those that remain be
\* put back.
LEMMA ShrunkSound ==
    ASSUME NEW m \in Manifest, Sound(m), NEW gone, m.workers \ gone # {},
           NEW index \in Nat \ {0}, \A w \in m.workers \ gone : w[1] < index
    PROVE  LET shrunk == WithRoster(m, m.workers \ gone, index)
           IN shrunk \in Manifest /\ Sound(shrunk)
<1> DEFINE left == m.workers \ gone
<1>1. IsFiniteSet(left) /\ Cardinality(left) \in Nat /\ Cardinality(left) # 0
  BY FS_Subset, FS_CardinalityType, FS_EmptySet DEF Sound
<1>2. Cardinality(left) <= Cardinality(m.workers)
  BY FS_Subset DEF Sound
<1>3. Cardinality(m.workers) \in Nat
  BY FS_CardinalityType DEF Sound
<1>4. Cardinality(left) \in 1..MaxWorkers
  BY <1>1, <1>2, <1>3, RosterAssumption DEF Sound, Consistent
<1>5. WithRoster(m, left, index) \in Manifest
  BY DEF WithRoster, Manifest
<1>6. QED
  BY <1>1, <1>4, <1>5 DEF WithRoster, Sound, Consistent

-----------------------------------------------------------------------------
(* Types *)

LEMMA InitTypes == Init => TypeOK
<1> SUFFICES ASSUME Init
             PROVE  TypeOK
  OBVIOUS
<1>1. NewTeam \in Manifest
  BY NewTeamSound
<1>2. todo \in [Proc -> Nat]
  BY RosterAssumption DEF Init
<1>3. pc \in [Proc -> Label]
  BY DEF Init, Label
<1>4. /\ op \in [Proc -> {"none", "start", "create", "up", "down"}]
      /\ own \in [Proc -> Manifest] /\ cfg \in [Proc -> Manifest]
      /\ wanted \in [Proc -> Nat] /\ first \in [Proc -> Nat \ {0}]
  BY <1>1 DEF Init
<1>5. /\ made \in [Proc -> SUBSET (Nat \ {0})]
      /\ chosen \in [Proc -> SUBSET Worker]
      /\ manifest \in Manifest
      /\ created = {} /\ panes = {}
      /\ teamLock = Free /\ scalingLock = Free /\ stale = FALSE /\ robbed = FALSE
  BY <1>1 DEF Init
<1>6. QED
  BY <1>2, <1>3, <1>4, <1>5 DEF TypeOK

LEMMA WorkerTypes ==
    ASSUME TypeOK, NEW p \in Proc
    PROVE  NewWorker(p) \in Worker
  BY DEF TypeOK, Manifest, Worker, NewWorker

LEMMA TypesKept == IInv /\ [Next]_vars => TypeOK'
<1> SUFFICES ASSUME IInv, [Next]_vars
             PROVE  TypeOK'
  OBVIOUS
<1>0. TypeOK /\ Phases
  BY DEF IInv
<1> USE <1>0 DEF TypeOK, Goto, GivenBack, Label, locks, locals
<1>1. ASSUME NEW p \in Proc, Create(p)
      PROVE  TypeOK'
  <2>1. CASE CallCreate(p)
    BY <2>1 DEF CallCreate
  <2>2. CASE TakeId(p)
    BY <2>2 DEF TakeId
  <2>3. CASE GiveUpCreate(p)
    BY <2>3 DEF GiveUpCreate
  <2>4. CASE WriteTask(p)
    BY <2>4 DEF WriteTask
  <2>5. CASE AdvanceId(p)
    <3> DEFINE id == cfg[p].nextTask
               advanced == [cfg[p] EXCEPT !.nextTask = id + 1]
    <3>1. id \in Nat \ {0} /\ advanced \in Manifest
      <4>1. cfg[p] \in Manifest
        OBVIOUS
      <4>2. id \in Nat \ {0} /\ id + 1 \in Nat \ {0}
        BY <4>1 DEF Manifest
      <4>3. QED
        BY <4>1, <4>2 DEF Manifest
    <3>2. todo[p] - 1 \in Nat
      BY <2>5 DEF AdvanceId, Phases
    <3> HIDE DEF advanced
    <3>3. manifest' \in Manifest /\ stale' \in BOOLEAN
      BY <2>5, <3>1 DEF AdvanceId, Save, advanced
    <3>4. pc' \in [Proc -> Label]
      BY <2>5 DEF AdvanceId
    <3>5. /\ created' \subseteq Nat \ {0}
          /\ made' \in [Proc -> SUBSET (Nat \ {0})]
      BY <2>5, <3>1 DEF AdvanceId
    <3>6. /\ todo' \in [Proc -> Nat]
          /\ teamLock' \in Proc \cup {Free}
      BY <2>5, <3>2 DEF AdvanceId
    <3>7. UNCHANGED <<panes, scalingLock, op, own, cfg, wanted, chosen, first, robbed>>
      BY <2>5 DEF AdvanceId
    <3>8. QED
      BY <3>3, <3>4, <3>5, <3>6, <3>7
  <2>6. QED
    BY <1>1, <2>1, <2>2, <2>3, <2>4, <2>5 DEF Create
<1>2. ASSUME NEW p \in Proc, StartUp(p)
      PROVE  TypeOK'
  <2>0. (1..Initial) \X {p} \in SUBSET Worker
    BY InitialWorkers
  <2>1. CASE LaunchTeam(p)
    BY <2>0, <2>1 DEF LaunchTeam
  <2>2. CASE SaveTeam(p)
    BY <2>2 DEF SaveTeam, Save
  <2>3. CASE SaveBooted(p)
    <3> DEFINE booted == [own[p] EXCEPT !.workers = (1..Initial) \X {p}]
    <3>1. booted \in Manifest
      BY <2>0 DEF Manifest
    <3> HIDE DEF booted
    <3>2. QED
      BY <2>3, <3>1 DEF SaveBooted, Save, booted
  <2>4. QED
    BY <1>2, <2>1, <2>2, <2>3 DEF StartUp
<1>3. ASSUME NEW p \in Proc, Scaling(p)
      PROVE  TypeOK'
  <2>1. ASSUME NEW kind \in {"up", "down"}, CallScaling(p, kind)
        PROVE  TypeOK'
    BY <2>1 DEF CallScaling
  <2>2. CASE GiveUpScaling(p)
    BY <2>2 DEF GiveUpScaling
  <2>3. CASE Refuse(p)
    BY <2>3 DEF Refuse
  <2>4. ASSUME NEW n \in 1..Batch, NEW k \in 0..NewTasks, StartScaleUp(p, n, k)
        PROVE  TypeOK'
    <3>1. n \in Nat /\ k \in Nat /\ manifest.nextIndex \in Nat \ {0}
      BY RosterAssumption DEF Manifest
    <3>2. QED
      BY <2>4, <3>1 DEF StartScaleUp
  <2>5. CASE LaunchWorker(p)
    BY <2>5, WorkerTypes DEF LaunchWorker
  <2>6. CASE AddWorker(p)
    <3> DEFINE grown == WithRoster(own[p], own[p].workers \cup {NewWorker(p)},
                                   own[p].nextIndex + 1)
    <3>1. grown \in Manifest
      BY WorkerTypes DEF Manifest, WithRoster
    <3>2. wanted[p] - 1 \in Nat
      BY <2>6 DEF AddWorker, IInv, Additions, Growing, Phases
    <3> HIDE DEF grown
    <3>3. manifest' \in Manifest /\ own' \in [Proc -> Manifest] /\ stale' \in BOOLEAN
      BY <2>6, <3>1 DEF AddWorker, Save, grown
    <3>4. pc' \in [Proc -> Label] /\ scalingLock' \in Proc \cup {Free}
      BY <2>6 DEF AddWorker
    <3>5. chosen' \in [Proc -> SUBSET Worker] /\ wanted' \in [Proc -> Nat]
      BY <2>6, <3>2, WorkerTypes DEF AddWorker
    <3>6. UNCHANGED <<created, panes, teamLock, op, cfg, todo, made, first, robbed>>
      BY <2>6 DEF AddWorker
    <3>7. QED
      BY <3>3, <3>4, <3>5, <3>6
  <2>7. CASE BootstrapFails(p)
    BY <2>7 DEF BootstrapFails
  <2>8. CASE Rollback(p)
    BY <2>8 DEF Rollback
  <2>9. CASE Restore(p)
    <3> DEFINE restored == WithRoster(own[p], own[p].workers \ chosen[p], first[p])
    <3>1. restored \in Manifest
      BY DEF Manifest, WithRoster
    <3> HIDE DEF restored
    <3>2. QED
      BY <2>9, <3>1 DEF Restore, Finish, Save, restored
  <2>10. CASE StartScaleDown(p)
    <3>1. PICK targets \in SUBSET manifest.workers : chosen' = [chosen EXCEPT ![p] = targets]
      BY <2>10 DEF StartScaleDown
    <3>2. targets \in SUBSET Worker
      BY <3>1 DEF Manifest
    <3>3. QED
      BY <2>10, <3>1, <3>2 DEF StartScaleDown
  <2>11. CASE Teardown(p)
    BY <2>11 DEF Teardown
  <2>12. CASE CleanupFails(p)
    BY <2>12 DEF CleanupFails, Finish
  <2>13. CASE RemoveWorkers(p)
    <3> DEFINE shrunk == WithRoster(own[p], own[p].workers \ chosen[p], own[p].nextIndex)
    <3>1. shrunk \in Manifest
      BY DEF Manifest, WithRoster
    <3> HIDE DEF shrunk
    <3>2. QED
      BY <2>13, <3>1 DEF RemoveWorkers, Finish, Save, shrunk
  <2>14. QED
    BY <1>3, <2>1, <2>2, <2>3, <2>4, <2>5, <2>6, <2>7, <2>8, <2>9, <2>10, <2>11, <2>12,
       <2>13 DEF Scaling
<1>4. ASSUME NEW p \in Proc, Throws(p) \/ Crash(p)
      PROVE  TypeOK'
  BY <1>4 DEF Throws, Crash
<1>5. CASE RecoverTeamLock \/ RecoverScalingLock
  BY <1>5 DEF RecoverTeamLock, RecoverScalingLock
<1>6. CASE UNCHANGED vars
  BY <1>6 DEF vars
<1>7. QED
  BY <1>1, <1>2, <1>3, <1>4, <1>5, <1>6 DEF Next

-----------------------------------------------------------------------------
(* Control: where an invocation is and which locks it holds *)

LEMMA PhasesKept == IInv /\ [Next]_vars => Phases'
<1> SUFFICES ASSUME IInv, [Next]_vars
             PROVE  Phases'
  OBVIOUS
<1> USE DEF IInv, TypeOK, Phases, Up, Growing, Shrinking, Goto, GivenBack, locks, locals
<1>1. ASSUME NEW p \in Proc, Create(p)
      PROVE  Phases'
  <2>1. CASE CallCreate(p)
    BY <2>1 DEF CallCreate
  <2>2. CASE TakeId(p)
    BY <2>2 DEF TakeId
  <2>3. CASE GiveUpCreate(p)
    BY <2>3 DEF GiveUpCreate
  <2>4. CASE WriteTask(p)
    BY <2>4 DEF WriteTask
  <2>5. CASE AdvanceId(p)
    BY <2>5 DEF AdvanceId, Save
  <2>6. QED
    BY <1>1, <2>1, <2>2, <2>3, <2>4, <2>5 DEF Create
<1>2. ASSUME NEW p \in Proc, StartUp(p)
      PROVE  Phases'
  <2>1. CASE LaunchTeam(p)
    BY <2>1 DEF LaunchTeam
  <2>2. CASE SaveTeam(p)
    BY <2>2 DEF SaveTeam, Save
  <2>3. CASE SaveBooted(p)
    BY <2>3 DEF SaveBooted, Save
  <2>4. QED
    BY <1>2, <2>1, <2>2, <2>3 DEF StartUp
<1>3. ASSUME NEW p \in Proc, Scaling(p)
      PROVE  Phases'
  <2>1. ASSUME NEW kind \in {"up", "down"}, CallScaling(p, kind)
        PROVE  Phases'
    BY <2>1 DEF CallScaling
  <2>2. CASE GiveUpScaling(p)
    BY <2>2 DEF GiveUpScaling
  <2>3. CASE Refuse(p)
    BY <2>3 DEF Refuse
  <2>4. ASSUME NEW n \in 1..Batch, NEW k \in 0..NewTasks, StartScaleUp(p, n, k)
        PROVE  Phases'
    BY <2>4 DEF StartScaleUp
  <2>5. CASE LaunchWorker(p)
    <3>1. p # Starter
      BY <2>5 DEF LaunchWorker
    <3>2. CASE Goto(p, "launch", "bootstrap")
      BY <2>5, <3>1, <3>2 DEF LaunchWorker
    <3>3. CASE Goto(p, "launch", "rollback")
      BY <2>5, <3>1, <3>3 DEF LaunchWorker
    <3>4. QED
      BY <2>5, <3>2, <3>3 DEF LaunchWorker
  <2>6. CASE AddWorker(p)
    BY <2>6 DEF AddWorker, Save
  <2>7. CASE BootstrapFails(p)
    BY <2>7 DEF BootstrapFails
  <2>8. CASE Rollback(p)
    BY <2>8 DEF Rollback
  <2>9. CASE Restore(p)
    BY <2>9 DEF Restore, Finish, Save
  <2>10. CASE StartScaleDown(p)
    BY <2>10 DEF StartScaleDown
  <2>11. CASE Teardown(p)
    BY <2>11 DEF Teardown
  <2>12. CASE CleanupFails(p)
    BY <2>12 DEF CleanupFails, Finish
  <2>13. CASE RemoveWorkers(p)
    BY <2>13 DEF RemoveWorkers, Finish, Save
  <2>14. QED
    BY <1>3, <2>1, <2>2, <2>3, <2>4, <2>5, <2>6, <2>7, <2>8, <2>9, <2>10, <2>11, <2>12, <2>13 DEF Scaling
<1>4. ASSUME NEW p \in Proc, Throws(p) \/ Crash(p)
      PROVE  Phases'
  <2>1. CASE Throws(p)
    <3>1. pc[p] # "idle" /\ pc'[p] = "thrown" /\ UNCHANGED <<op, own, todo>>
      BY <2>1 DEF Throws
    <3>2. \A q \in Proc \ {p} : pc'[q] = pc[q]
      BY <2>1 DEF Throws
    <3>3. Up /\ Up'
      BY <2>1, <3>1, <3>2, RosterAssumption DEF Throws
    <3>4. QED
      BY <2>1, <3>1, <3>2, <3>3 DEF Throws
  <2>2. CASE Crash(p)
    BY <2>2 DEF Crash
  <2>3. QED
    BY <1>4, <2>1, <2>2
<1>5. CASE RecoverTeamLock \/ RecoverScalingLock
  BY <1>5 DEF RecoverTeamLock, RecoverScalingLock
<1>6. CASE UNCHANGED vars
  BY <1>6 DEF vars
<1>7. QED
  BY <1>1, <1>2, <1>3, <1>4, <1>5, <1>6 DEF Next


LEMMA LocksKept == IInv /\ [Next]_vars => LocksHeld'
<1> SUFFICES ASSUME IInv, [Next]_vars
             PROVE  LocksHeld'
  OBVIOUS
<1> USE DEF IInv, TypeOK, Phases, LocksHeld, Growing, Shrinking, Goto, GivenBack, locks, locals
<1>1. ASSUME NEW p \in Proc, Create(p)
      PROVE  LocksHeld'
  <2>1. CASE CallCreate(p)
    BY <2>1, RosterAssumption DEF CallCreate
  <2>2. CASE TakeId(p)
    BY <2>2, RosterAssumption DEF TakeId
  <2>3. CASE GiveUpCreate(p)
    BY <2>3, RosterAssumption DEF GiveUpCreate
  <2>4. CASE WriteTask(p)
    BY <2>4, RosterAssumption DEF WriteTask
  <2>5. CASE AdvanceId(p)
    BY <2>5, RosterAssumption DEF AdvanceId, Save
  <2>6. QED
    BY <1>1, <2>1, <2>2, <2>3, <2>4, <2>5 DEF Create
<1>2. ASSUME NEW p \in Proc, StartUp(p)
      PROVE  LocksHeld'
  <2>1. CASE LaunchTeam(p)
    BY <2>1, RosterAssumption DEF LaunchTeam
  <2>2. CASE SaveTeam(p)
    BY <2>2, RosterAssumption DEF SaveTeam, Save
  <2>3. CASE SaveBooted(p)
    BY <2>3, RosterAssumption DEF SaveBooted, Save
  <2>4. QED
    BY <1>2, <2>1, <2>2, <2>3 DEF StartUp
<1>3. ASSUME NEW p \in Proc, Scaling(p)
      PROVE  LocksHeld'
  <2>1. ASSUME NEW kind \in {"up", "down"}, CallScaling(p, kind)
        PROVE  LocksHeld'
    BY <2>1, RosterAssumption DEF CallScaling
  <2>2. CASE GiveUpScaling(p)
    BY <2>2, RosterAssumption DEF GiveUpScaling
  <2>3. CASE Refuse(p)
    BY <2>3, RosterAssumption DEF Refuse
  <2>4. ASSUME NEW n \in 1..Batch, NEW k \in 0..NewTasks, StartScaleUp(p, n, k)
        PROVE  LocksHeld'
    BY <2>4, RosterAssumption DEF StartScaleUp
  <2>5. CASE LaunchWorker(p)
    BY <2>5, RosterAssumption DEF LaunchWorker
  <2>6. CASE AddWorker(p)
    BY <2>6, RosterAssumption DEF AddWorker, Save
  <2>7. CASE BootstrapFails(p)
    BY <2>7, RosterAssumption DEF BootstrapFails
  <2>8. CASE Rollback(p)
    BY <2>8, RosterAssumption DEF Rollback
  <2>9. CASE Restore(p)
    BY <2>9, RosterAssumption DEF Restore, Finish, Save
  <2>10. CASE StartScaleDown(p)
    BY <2>10, RosterAssumption DEF StartScaleDown
  <2>11. CASE Teardown(p)
    BY <2>11, RosterAssumption DEF Teardown
  <2>12. CASE CleanupFails(p)
    BY <2>12, RosterAssumption DEF CleanupFails, Finish
  <2>13. CASE RemoveWorkers(p)
    BY <2>13, RosterAssumption DEF RemoveWorkers, Finish, Save
  <2>14. QED
    BY <1>3, <2>1, <2>2, <2>3, <2>4, <2>5, <2>6, <2>7, <2>8, <2>9, <2>10, <2>11, <2>12, <2>13 DEF Scaling
<1>4. ASSUME NEW p \in Proc, Throws(p) \/ Crash(p)
      PROVE  LocksHeld'
  BY <1>4, RosterAssumption DEF Throws, Crash
<1>5. CASE RecoverTeamLock \/ RecoverScalingLock
  <2>1. CASE RecoverTeamLock
    BY <2>1, RosterAssumption DEF RecoverTeamLock
  <2>2. CASE RecoverScalingLock
    <3>1. PICK q \in Proc : scalingLock = q /\ robbed' = (robbed \/ pc[q] # "dead")
      BY <2>2 DEF RecoverScalingLock
    <3>2. scalingLock' = Free /\ UNCHANGED <<teamLock, pc, op>>
      BY <2>2 DEF RecoverScalingLock
    <3>3. \A r \in Proc : Growing(r) \/ Shrinking(r) => robbed'
      BY <3>1
    <3>4. QED
      BY <3>2, <3>3, RosterAssumption
  <2>3. QED
    BY <1>5, <2>1, <2>2
<1>6. CASE UNCHANGED vars
  BY <1>6 DEF vars
<1>7. QED
  BY <1>1, <1>2, <1>3, <1>4, <1>5, <1>6 DEF Next


-----------------------------------------------------------------------------
(* Every copy of the manifest is sound *)

LEMMA CopiesStaySound == IInv /\ [Next]_vars => CopiesSound'
<1> SUFFICES ASSUME IInv, [Next]_vars
             PROVE  CopiesSound'
  OBVIOUS
<1>0. TypeOK /\ Phases /\ CopiesSound /\ Additions /\ Removals
  BY DEF IInv
<1> USE <1>0
<1> USE DEF TypeOK, CopiesSound, Goto, GivenBack, locks, locals
<1>1. ASSUME NEW p \in Proc, Create(p)
      PROVE  CopiesSound'
  <2>1. CASE CallCreate(p)
    BY <2>1 DEF CallCreate
  <2>2. CASE TakeId(p)
    BY <2>2 DEF TakeId
  <2>3. CASE GiveUpCreate(p)
    BY <2>3 DEF GiveUpCreate
  <2>4. CASE WriteTask(p)
    BY <2>4 DEF WriteTask
  <2>5. CASE AdvanceId(p)
    <3> DEFINE advanced == [cfg[p] EXCEPT !.nextTask = @ + 1]
    <3>1. Sound(advanced)
      BY DEF Manifest, Sound, Consistent
    <3> HIDE DEF advanced
    <3>2. QED
      BY <2>5, <3>1 DEF AdvanceId, Save, advanced
  <2>6. QED
    BY <1>1, <2>1, <2>2, <2>3, <2>4, <2>5 DEF Create
<1>2. ASSUME NEW p \in Proc, StartUp(p)
      PROVE  CopiesSound'
  <2>1. CASE LaunchTeam(p)
    BY <2>1 DEF LaunchTeam
  <2>2. CASE SaveTeam(p)
    BY <2>2 DEF SaveTeam, Save
  <2>3. CASE SaveBooted(p)
    <3> DEFINE booted == [own[p] EXCEPT !.workers = (1..Initial) \X {p}]
    <3>1. own[p] = NewTeam
      BY <2>3 DEF SaveBooted, Phases
    <3>2. Sound(booted)
      BY <3>1, BootedSound
    <3> HIDE DEF booted
    <3>3. QED
      BY <2>3, <3>2 DEF SaveBooted, Save, booted
  <2>4. QED
    BY <1>2, <2>1, <2>2, <2>3 DEF StartUp
<1>3. ASSUME NEW p \in Proc, Scaling(p)
      PROVE  CopiesSound'
  <2>1. ASSUME NEW kind \in {"up", "down"}, CallScaling(p, kind)
        PROVE  CopiesSound'
    BY <2>1 DEF CallScaling
  <2>2. CASE GiveUpScaling(p)
    BY <2>2 DEF GiveUpScaling
  <2>3. CASE Refuse(p)
    BY <2>3 DEF Refuse
  <2>4. ASSUME NEW n \in 1..Batch, NEW k \in 0..NewTasks, StartScaleUp(p, n, k)
        PROVE  CopiesSound'
    BY <2>4 DEF StartScaleUp
  <2>5. CASE LaunchWorker(p)
    BY <2>5 DEF LaunchWorker
  <2>6. CASE AddWorker(p)
    <3> DEFINE grown == WithRoster(own[p], own[p].workers \cup {NewWorker(p)},
                                   own[p].nextIndex + 1)
    <3>1. Growing(p)
      BY <2>6 DEF AddWorker, Growing, Phases
    <3>2. Cardinality(own[p].workers) + 1 <= MaxWorkers
      BY <3>1, FS_CardinalityType, RosterAssumption DEF Additions, Sound
    <3>3. Sound(grown)
      BY <3>2, GrownSound DEF NewWorker
    <3> HIDE DEF grown
    <3>4. QED
      BY <2>6, <3>3 DEF AddWorker, Save, grown
  <2>7. CASE BootstrapFails(p)
    BY <2>7 DEF BootstrapFails
  <2>8. CASE Rollback(p)
    BY <2>8 DEF Rollback
  <2>9. CASE Restore(p)
    <3> DEFINE restored == WithRoster(own[p], own[p].workers \ chosen[p], first[p])
    <3>1. Growing(p)
      BY <2>9 DEF Restore, Finish, Growing, Phases
    <3>2. \A w \in own[p].workers \ chosen[p] : w[1] < first[p]
      BY <3>1 DEF Additions
    <3>3. own[p].workers \ chosen[p] # {}
      <4>1. PICK w \in own[p].workers : w[1] < first[p]
        BY <3>1 DEF Additions
      <4>2. w[1] \in Nat /\ first[p] \in Nat
        BY DEF Manifest, Worker
      <4>3. w \notin chosen[p]
        BY <3>1, <4>1, <4>2 DEF Additions
      <4>4. QED
        BY <4>1, <4>3
    <3>4. Sound(restored)
      BY <3>2, <3>3, ShrunkSound
    <3> HIDE DEF restored
    <3>5. QED
      BY <2>9, <3>4 DEF Restore, Finish, Save, restored
  <2>10. CASE StartScaleDown(p)
    BY <2>10 DEF StartScaleDown
  <2>11. CASE Teardown(p)
    BY <2>11 DEF Teardown
  <2>12. CASE CleanupFails(p)
    BY <2>12 DEF CleanupFails, Finish
  <2>13. CASE RemoveWorkers(p)
    <3> DEFINE shrunk == WithRoster(own[p], own[p].workers \ chosen[p], own[p].nextIndex)
    <3>1. own[p].workers \ chosen[p] # {}
      BY <2>13 DEF RemoveWorkers, Finish, Removals, Shrinking
    <3>2. \A w \in own[p].workers \ chosen[p] : w[1] < own[p].nextIndex
      BY DEF Sound, Consistent
    <3>3. own[p].nextIndex \in Nat \ {0}
      BY DEF Manifest
    <3>4. Sound(shrunk)
      BY <3>1, <3>2, <3>3, ShrunkSound
    <3> HIDE DEF shrunk
    <3>5. QED
      BY <2>13, <3>4 DEF RemoveWorkers, Finish, Save, shrunk
  <2>14. QED
    BY <1>3, <2>1, <2>2, <2>3, <2>4, <2>5, <2>6, <2>7, <2>8, <2>9, <2>10, <2>11, <2>12, <2>13 DEF Scaling
<1>4. ASSUME NEW p \in Proc, Throws(p) \/ Crash(p)
      PROVE  CopiesSound'
  BY <1>4 DEF Throws, Crash
<1>5. CASE RecoverTeamLock \/ RecoverScalingLock
  BY <1>5 DEF RecoverTeamLock, RecoverScalingLock
<1>6. CASE UNCHANGED vars
  BY <1>6 DEF vars
<1>7. QED
  BY <1>1, <1>2, <1>3, <1>4, <1>5, <1>6 DEF Next


-----------------------------------------------------------------------------
(* What scaleUp adds, what scaleDown leaves, which ids are taken *)

LEMMA AdditionsKept == IInv /\ [Next]_vars => Additions'
<1> SUFFICES ASSUME IInv, [Next]_vars
             PROVE  Additions'
  OBVIOUS
<1>0. TypeOK /\ Phases /\ CopiesSound /\ Additions
  BY DEF IInv
<1> USE <1>0
<1> USE DEF TypeOK, CopiesSound, Goto, GivenBack, locks, locals
<1>1. ASSUME NEW p \in Proc, Create(p)
      PROVE  Additions'
  <2>1. CASE CallCreate(p)
    BY <2>1 DEF CallCreate, Additions, Growing, Phases
  <2>2. CASE TakeId(p)
    BY <2>2 DEF TakeId, Additions, Growing, Phases
  <2>3. CASE GiveUpCreate(p)
    BY <2>3 DEF GiveUpCreate, Additions, Growing, Phases
  <2>4. CASE WriteTask(p)
    BY <2>4 DEF WriteTask, Additions, Growing, Phases
  <2>5. CASE AdvanceId(p)
    BY <2>5 DEF AdvanceId, Save, Additions, Growing, Phases
  <2>6. QED
    BY <1>1, <2>1, <2>2, <2>3, <2>4, <2>5 DEF Create
<1>2. ASSUME NEW p \in Proc, StartUp(p)
      PROVE  Additions'
  <2>1. CASE LaunchTeam(p)
    BY <2>1 DEF LaunchTeam, Additions, Growing, Phases
  <2>2. CASE SaveTeam(p)
    BY <2>2 DEF SaveTeam, Save, Additions, Growing, Phases
  <2>3. CASE SaveBooted(p)
    BY <2>3 DEF SaveBooted, Save, Additions, Growing, Phases
  <2>4. QED
    BY <1>2, <2>1, <2>2, <2>3 DEF StartUp
<1>3. ASSUME NEW p \in Proc, Scaling(p)
      PROVE  Additions'
  <2>1. ASSUME NEW kind \in {"up", "down"}, CallScaling(p, kind)
        PROVE  Additions'
    BY <2>1 DEF CallScaling, Additions, Growing, Phases
  <2>2. CASE GiveUpScaling(p)
    BY <2>2 DEF GiveUpScaling, Additions, Growing, Phases
  <2>3. CASE Refuse(p)
    BY <2>3 DEF Refuse, Additions, Growing, Phases
  <2>4. ASSUME NEW n \in 1..Batch, NEW k \in 0..NewTasks, StartScaleUp(p, n, k)
        PROVE  Additions'
    <3>1. chosen[p] = {} /\ op[p] = "up"
      BY <2>4 DEF StartScaleUp, Additions
    <3>2. n \in Nat /\ n >= 1
      BY RosterAssumption
    <3>3. \E w \in manifest.workers : w[1] < manifest.nextIndex
      <4>1. manifest.workers # {}
        BY FS_EmptySet DEF Sound, Consistent
      <4>2. QED
        BY <4>1 DEF Sound, Consistent
    <3>4. \A w \in manifest.workers : w[1] < manifest.nextIndex
      BY DEF Sound, Consistent
    <3>5. manifest.nextIndex \in Nat
      BY DEF Manifest
    <3>6. QED
      BY <2>4, <3>1, <3>2, <3>3, <3>4, <3>5 DEF StartScaleUp, Additions, Growing
  <2>5. CASE LaunchWorker(p)
    BY <2>5 DEF LaunchWorker, Additions, Growing, Phases
  <2>6. CASE AddWorker(p)
    <3> DEFINE w == NewWorker(p)
               W == own[p].workers \cup {w}
               index == own[p].nextIndex + 1
    <3>1. Growing(p) /\ op[p] = "up"
      BY <2>6 DEF AddWorker, Growing, Phases
    <3>2. Cardinality(own[p].workers) \in Nat /\ wanted[p] \in Nat
      BY FS_CardinalityType DEF Sound
    <3>3. Cardinality(own[p].workers) + 1 <= MaxWorkers
      BY <3>1, <3>2, RosterAssumption DEF Additions
    <3>4. Cardinality(W) = Cardinality(own[p].workers) + 1
      BY <3>3, GrownSound DEF NewWorker
    <3>5. /\ own[p].nextIndex \in Nat /\ first[p] \in Nat
          /\ w[1] = own[p].nextIndex /\ w[2] = p
      BY DEF Manifest, NewWorker
    <3>6. /\ own'[p].workers = W
          /\ own'[p].nextIndex = index
          /\ chosen'[p] = chosen[p] \cup {w}
          /\ wanted'[p] = wanted[p] - 1
          /\ \A q \in Proc \ {p} : UNCHANGED <<own[q], chosen[q], wanted[q], pc[q]>>
          /\ UNCHANGED <<op, first>>
          /\ pc'[p] = IF wanted[p] > 1 THEN "launch" ELSE "done"
      BY <2>6 DEF AddWorker, WithRoster
    <3>7. wanted[p] > 1 =>
             /\ wanted'[p] >= 1
             /\ Cardinality(W) + wanted'[p] <= MaxWorkers
             /\ first[p] <= index
             /\ \E v \in W : v[1] < first[p]
             /\ \A v \in W : v \in chosen'[p] \/ v[1] < first[p]
             /\ \A v \in chosen'[p] : v \in W /\ v[1] >= first[p] /\ v[2] = p
      <4>1. first[p] <= index /\ w[1] >= first[p]
        BY <3>1, <3>5 DEF Additions
      <4>2. wanted[p] > 1 => wanted'[p] >= 1
        BY <3>2, <3>6
      <4>3. Cardinality(W) + wanted'[p] <= MaxWorkers
        BY <3>1, <3>2, <3>4, <3>6, RosterAssumption DEF Additions
      <4>4. QED
        BY <3>1, <3>5, <3>6, <4>1, <4>2, <4>3 DEF Additions
    <3> HIDE DEF w, W, index
    <3>8. ASSUME NEW q \in Proc
          PROVE  Additions!(q)'
      <4>1. CASE q = p
        BY <3>1, <3>6, <3>7, <4>1 DEF Growing
      <4>2. CASE q # p
        BY <3>6, <4>2 DEF Growing, Additions
      <4>3. QED
        BY <4>1, <4>2
    <3>9. QED
      BY <3>8 DEF Additions
  <2>7. CASE BootstrapFails(p)
    BY <2>7 DEF BootstrapFails, Additions, Growing, Phases
  <2>8. CASE Rollback(p)
    BY <2>8 DEF Rollback, Additions, Growing, Phases
  <2>9. CASE Restore(p)
    BY <2>9 DEF Restore, Finish, Save, Additions, Growing, Phases
  <2>10. CASE StartScaleDown(p)
    BY <2>10 DEF StartScaleDown, Additions, Growing, Phases
  <2>11. CASE Teardown(p)
    BY <2>11 DEF Teardown, Additions, Growing, Phases
  <2>12. CASE CleanupFails(p)
    BY <2>12 DEF CleanupFails, Finish, Additions, Growing, Phases
  <2>13. CASE RemoveWorkers(p)
    BY <2>13 DEF RemoveWorkers, Finish, Save, Additions, Growing, Phases
  <2>14. QED
    BY <1>3, <2>1, <2>2, <2>3, <2>4, <2>5, <2>6, <2>7, <2>8, <2>9, <2>10, <2>11, <2>12, <2>13 DEF Scaling
<1>4. ASSUME NEW p \in Proc, Throws(p) \/ Crash(p)
      PROVE  Additions'
  BY <1>4 DEF Throws, Crash, Additions, Growing, Phases
<1>5. CASE RecoverTeamLock \/ RecoverScalingLock
  BY <1>5 DEF RecoverTeamLock, RecoverScalingLock, Additions, Growing
<1>6. CASE UNCHANGED vars
  BY <1>6 DEF vars, Additions, Growing
<1>7. QED
  BY <1>1, <1>2, <1>3, <1>4, <1>5, <1>6 DEF Next


LEMMA RemovalsKept == IInv /\ [Next]_vars => Removals'
<1> SUFFICES ASSUME IInv, [Next]_vars
             PROVE  Removals'
  OBVIOUS
<1>0. TypeOK /\ Phases /\ Removals
  BY DEF IInv
<1> USE <1>0
<1> USE DEF TypeOK, Goto, GivenBack, locks, locals
<1>1. ASSUME NEW p \in Proc, Create(p)
      PROVE  Removals'
  <2>1. CASE CallCreate(p)
    BY <2>1 DEF CallCreate, Removals, Shrinking
  <2>2. CASE TakeId(p)
    BY <2>2 DEF TakeId, Removals, Shrinking
  <2>3. CASE GiveUpCreate(p)
    BY <2>3 DEF GiveUpCreate, Removals, Shrinking
  <2>4. CASE WriteTask(p)
    BY <2>4 DEF WriteTask, Removals, Shrinking
  <2>5. CASE AdvanceId(p)
    BY <2>5 DEF AdvanceId, Save, Removals, Shrinking
  <2>6. QED
    BY <1>1, <2>1, <2>2, <2>3, <2>4, <2>5 DEF Create
<1>2. ASSUME NEW p \in Proc, StartUp(p)
      PROVE  Removals'
  <2>1. CASE LaunchTeam(p)
    BY <2>1 DEF LaunchTeam, Removals, Shrinking
  <2>2. CASE SaveTeam(p)
    BY <2>2 DEF SaveTeam, Save, Removals, Shrinking
  <2>3. CASE SaveBooted(p)
    BY <2>3 DEF SaveBooted, Save, Removals, Shrinking
  <2>4. QED
    BY <1>2, <2>1, <2>2, <2>3 DEF StartUp
<1>3. ASSUME NEW p \in Proc, Scaling(p)
      PROVE  Removals'
  <2>1. ASSUME NEW kind \in {"up", "down"}, CallScaling(p, kind)
        PROVE  Removals'
    BY <2>1 DEF CallScaling, Removals, Shrinking
  <2>2. CASE GiveUpScaling(p)
    BY <2>2 DEF GiveUpScaling, Removals, Shrinking
  <2>3. CASE Refuse(p)
    BY <2>3 DEF Refuse, Removals, Shrinking
  <2>4. ASSUME NEW n \in 1..Batch, NEW k \in 0..NewTasks, StartScaleUp(p, n, k)
        PROVE  Removals'
    BY <2>4 DEF StartScaleUp, Removals, Shrinking
  <2>5. CASE LaunchWorker(p)
    BY <2>5 DEF LaunchWorker, Removals, Shrinking
  <2>6. CASE AddWorker(p)
    BY <2>6 DEF AddWorker, Save, Removals, Shrinking
  <2>7. CASE BootstrapFails(p)
    BY <2>7 DEF BootstrapFails, Removals, Shrinking
  <2>8. CASE Rollback(p)
    BY <2>8 DEF Rollback, Removals, Shrinking
  <2>9. CASE Restore(p)
    BY <2>9 DEF Restore, Finish, Save, Removals, Shrinking
  <2>10. CASE StartScaleDown(p)
    <3>1. PICK targets \in (SUBSET manifest.workers) \ {{}, manifest.workers} :
             chosen' = [chosen EXCEPT ![p] = targets]
      BY <2>10 DEF StartScaleDown
    <3>2. manifest.workers \ targets # {}
      BY <3>1
    <3>3. chosen'[p] = targets /\ own'[p] = manifest
      BY <2>10, <3>1 DEF StartScaleDown
    <3>4. \A q \in Proc \ {p} : UNCHANGED <<pc[q], own[q], chosen[q]>>
      BY <2>10, <3>1 DEF StartScaleDown
    <3>5. QED
      BY <3>2, <3>3, <3>4 DEF Removals, Shrinking
  <2>11. CASE Teardown(p)
    BY <2>11 DEF Teardown, Removals, Shrinking
  <2>12. CASE CleanupFails(p)
    BY <2>12 DEF CleanupFails, Finish, Removals, Shrinking
  <2>13. CASE RemoveWorkers(p)
    BY <2>13 DEF RemoveWorkers, Finish, Save, Removals, Shrinking
  <2>14. QED
    BY <1>3, <2>1, <2>2, <2>3, <2>4, <2>5, <2>6, <2>7, <2>8, <2>9, <2>10, <2>11, <2>12, <2>13 DEF Scaling
<1>4. ASSUME NEW p \in Proc, Throws(p) \/ Crash(p)
      PROVE  Removals'
  BY <1>4 DEF Throws, Crash, Removals, Shrinking
<1>5. CASE RecoverTeamLock \/ RecoverScalingLock
  BY <1>5 DEF RecoverTeamLock, RecoverScalingLock, Removals, Shrinking
<1>6. CASE UNCHANGED vars
  BY <1>6 DEF vars, Removals, Shrinking
<1>7. QED
  BY <1>1, <1>2, <1>3, <1>4, <1>5, <1>6 DEF Next


LEMMA IdsKept == IInv /\ [Next]_vars => IdsBelowCounter'
<1> SUFFICES ASSUME IInv, [Next]_vars
             PROVE  IdsBelowCounter'
  OBVIOUS
<1>0. TypeOK /\ Phases /\ LocksHeld /\ IdsBelowCounter
  BY DEF IInv
<1> USE <1>0
<1> USE DEF TypeOK, Goto, GivenBack, locks, locals
<1>1. ASSUME NEW p \in Proc, Create(p)
      PROVE  IdsBelowCounter'
  <2>1. CASE CallCreate(p)
    BY <2>1, RosterAssumption DEF CallCreate, IdsBelowCounter, LocksHeld, Manifest
  <2>2. CASE TakeId(p)
    BY <2>2, RosterAssumption DEF TakeId, IdsBelowCounter, LocksHeld, Manifest
  <2>3. CASE GiveUpCreate(p)
    BY <2>3, RosterAssumption DEF GiveUpCreate, IdsBelowCounter, LocksHeld, Manifest
  <2>4. CASE WriteTask(p)
    BY <2>4, RosterAssumption DEF WriteTask, IdsBelowCounter, LocksHeld, Manifest
  <2>5. CASE AdvanceId(p)
    BY <2>5, RosterAssumption DEF AdvanceId, Save, IdsBelowCounter, LocksHeld, Manifest
  <2>6. QED
    BY <1>1, <2>1, <2>2, <2>3, <2>4, <2>5 DEF Create
<1>2. ASSUME NEW p \in Proc, StartUp(p)
      PROVE  IdsBelowCounter'
  <2>1. CASE LaunchTeam(p)
    BY <2>1, RosterAssumption DEF LaunchTeam, IdsBelowCounter, LocksHeld, Manifest
  <2>2. CASE SaveTeam(p)
    BY <2>2, RosterAssumption DEF SaveTeam, Save, IdsBelowCounter, LocksHeld, Manifest
  <2>3. CASE SaveBooted(p)
    BY <2>3, RosterAssumption DEF SaveBooted, Save, IdsBelowCounter, LocksHeld, Manifest
  <2>4. QED
    BY <1>2, <2>1, <2>2, <2>3 DEF StartUp
<1>3. ASSUME NEW p \in Proc, Scaling(p)
      PROVE  IdsBelowCounter'
  <2>1. ASSUME NEW kind \in {"up", "down"}, CallScaling(p, kind)
        PROVE  IdsBelowCounter'
    BY <2>1, RosterAssumption DEF CallScaling, IdsBelowCounter, LocksHeld, Manifest
  <2>2. CASE GiveUpScaling(p)
    BY <2>2, RosterAssumption DEF GiveUpScaling, IdsBelowCounter, LocksHeld, Manifest
  <2>3. CASE Refuse(p)
    BY <2>3, RosterAssumption DEF Refuse, IdsBelowCounter, LocksHeld, Manifest
  <2>4. ASSUME NEW n \in 1..Batch, NEW k \in 0..NewTasks, StartScaleUp(p, n, k)
        PROVE  IdsBelowCounter'
    BY <2>4, RosterAssumption DEF StartScaleUp, IdsBelowCounter, LocksHeld, Manifest
  <2>5. CASE LaunchWorker(p)
    BY <2>5, RosterAssumption DEF LaunchWorker, IdsBelowCounter, LocksHeld, Manifest
  <2>6. CASE AddWorker(p)
    BY <2>6, RosterAssumption DEF AddWorker, Save, IdsBelowCounter, LocksHeld, Manifest, WithRoster
  <2>7. CASE BootstrapFails(p)
    BY <2>7, RosterAssumption DEF BootstrapFails, IdsBelowCounter, LocksHeld, Manifest
  <2>8. CASE Rollback(p)
    BY <2>8, RosterAssumption DEF Rollback, IdsBelowCounter, LocksHeld, Manifest
  <2>9. CASE Restore(p)
    BY <2>9, RosterAssumption DEF Restore, Finish, Save, IdsBelowCounter, LocksHeld, Manifest, WithRoster
  <2>10. CASE StartScaleDown(p)
    BY <2>10, RosterAssumption DEF StartScaleDown, IdsBelowCounter, LocksHeld, Manifest
  <2>11. CASE Teardown(p)
    BY <2>11, RosterAssumption DEF Teardown, IdsBelowCounter, LocksHeld, Manifest
  <2>12. CASE CleanupFails(p)
    BY <2>12, RosterAssumption DEF CleanupFails, Finish, IdsBelowCounter, LocksHeld, Manifest
  <2>13. CASE RemoveWorkers(p)
    BY <2>13, RosterAssumption DEF RemoveWorkers, Finish, Save, IdsBelowCounter, LocksHeld, Manifest, WithRoster
  <2>14. QED
    BY <1>3, <2>1, <2>2, <2>3, <2>4, <2>5, <2>6, <2>7, <2>8, <2>9, <2>10, <2>11, <2>12, <2>13 DEF Scaling
<1>4. ASSUME NEW p \in Proc, Throws(p) \/ Crash(p)
      PROVE  IdsBelowCounter'
  BY <1>4, RosterAssumption DEF Throws, Crash, IdsBelowCounter, LocksHeld, Manifest
<1>5. CASE RecoverTeamLock \/ RecoverScalingLock
  BY <1>5, RosterAssumption DEF RecoverTeamLock, RecoverScalingLock, IdsBelowCounter, LocksHeld
<1>6. CASE UNCHANGED vars
  BY <1>6 DEF vars, IdsBelowCounter, LocksHeld
<1>7. QED
  BY <1>1, <1>2, <1>3, <1>4, <1>5, <1>6 DEF Next


-----------------------------------------------------------------------------
(* Workers on record *)

Early == {"idle", "lockScaling", "lockTeam", "write", "advance"}

\* A step that records no new worker, of an invocation that has not begun to launch or
\* keeps its worker index.
LEMMA NothingAdded ==
    ASSUME IInv, NEW p \in Proc, Recorded' \subseteq Recorded,
           \A q \in Proc \ {p} : UNCHANGED <<pc[q], own[q]>>,
           p # Starter /\ pc'[p] \in Early => pc[p] \in Early,
           p # Starter /\ pc'[p] \in {"launch", "bootstrap"} =>
              \/ pc[p] \in Early
              \/ pc[p] \in {"launch", "bootstrap"} /\ own'[p].nextIndex = own[p].nextIndex
    PROVE  AddedFirst'
<1> SUFFICES ASSUME NEW w \in Recorded', NEW q \in Proc \ {Starter}, w[2] = q
             PROVE  /\ pc'[q] \notin Early
                    /\ pc'[q] \in {"launch", "bootstrap"} => w[1] < own'[q].nextIndex
  BY DEF AddedFirst, Early
<1>1. /\ pc[q] \notin Early
      /\ pc[q] \in {"launch", "bootstrap"} => w[1] < own[q].nextIndex
  BY DEF IInv, AddedFirst, Early
<1>2. QED
  BY <1>1

\* The manifests in memory and on disk are copied and lose workers, no more.
LEMMA AddedFirstKept == IInv /\ [Next]_vars => AddedFirst'
<1> SUFFICES ASSUME IInv, [Next]_vars
             PROVE  AddedFirst'
  OBVIOUS
<1>0. TypeOK /\ Phases /\ AddedFirst
  BY DEF IInv
<1> USE <1>0
<1> USE DEF TypeOK, Goto, GivenBack, locks, locals, Early
<1>1. ASSUME NEW p \in Proc, Create(p)
      PROVE  AddedFirst'
  <2>1. CASE CallCreate(p) \/ GiveUpCreate(p) \/ WriteTask(p)
    <3>1. Recorded' = Recorded
      BY <2>1 DEF CallCreate, GiveUpCreate, WriteTask, Recorded
    <3>2. QED
      BY <2>1, <3>1, NothingAdded DEF CallCreate, GiveUpCreate, WriteTask
  <2>2. CASE TakeId(p)
    <3>1. Recorded' \subseteq Recorded
      BY <2>2 DEF TakeId, Recorded
    <3>2. QED
      BY <2>2, <3>1, NothingAdded DEF TakeId
  <2>3. CASE AdvanceId(p)
    <3>1. manifest'.workers = cfg[p].workers
      BY <2>3 DEF AdvanceId, Save, Manifest
    <3>2. UNCHANGED <<own, cfg, chosen>>
      BY <2>3 DEF AdvanceId
    <3>3. Recorded' \subseteq Recorded
      BY <3>1, <3>2 DEF Recorded
    <3>4. QED
      BY <2>3, <3>3, NothingAdded DEF AdvanceId
  <2>4. QED
    BY <1>1, <2>1, <2>2, <2>3 DEF Create
<1>2. ASSUME NEW p \in Proc, StartUp(p)
      PROVE  AddedFirst'
  <2>1. CASE LaunchTeam(p)
    <3>1. Recorded' = Recorded
      BY <2>1 DEF LaunchTeam, Recorded
    <3>2. QED
      BY <2>1, <3>1, NothingAdded DEF LaunchTeam
  <2>2. CASE SaveTeam(p)
    <3>1. Recorded' \subseteq Recorded
      BY <2>2 DEF SaveTeam, Save, Recorded
    <3>2. QED
      BY <2>2, <3>1, NothingAdded DEF SaveTeam
  <2>3. CASE SaveBooted(p)
    <3> DEFINE booted == [own[p] EXCEPT !.workers = (1..Initial) \X {p}]
    <3>1. booted.workers = (1..Initial) \X {p}
      BY DEF Manifest
    <3>2. p = Starter
      BY <2>3 DEF SaveBooted, Phases
    <3> HIDE DEF booted
    <3>3. /\ manifest' = booted /\ own' = [own EXCEPT ![p] = booted]
          /\ UNCHANGED <<cfg, chosen>>
      BY <2>3 DEF SaveBooted, Save, booted
    <3>4. \A w \in Recorded' : w \in Recorded \/ w[2] = Starter
      BY <3>1, <3>2, <3>3 DEF Recorded
    <3>5. \A q \in Proc \ {p} : UNCHANGED <<pc[q], own[q]>>
      BY <2>3, <3>3 DEF SaveBooted
    <3>6. QED
      BY <3>2, <3>4, <3>5 DEF AddedFirst
  <2>4. QED
    BY <1>2, <2>1, <2>2, <2>3 DEF StartUp
<1>3. ASSUME NEW p \in Proc, Scaling(p)
      PROVE  AddedFirst'
  <2>1. CASE (\E kind \in {"up", "down"} : CallScaling(p, kind)) \/ GiveUpScaling(p) \/ Refuse(p)
    <3>1. Recorded' = Recorded
      BY <2>1 DEF CallScaling, GiveUpScaling, Refuse, Recorded
    <3>2. QED
      BY <2>1, <3>1, NothingAdded DEF CallScaling, GiveUpScaling, Refuse
  <2>2. ASSUME NEW n \in 1..Batch, NEW k \in 0..NewTasks, StartScaleUp(p, n, k)
        PROVE  AddedFirst'
    <3>1. Recorded' \subseteq Recorded
      BY <2>2 DEF StartScaleUp, Recorded
    <3>2. QED
      BY <2>2, <3>1, NothingAdded DEF StartScaleUp
  <2>3. CASE LaunchWorker(p) \/ BootstrapFails(p) \/ Rollback(p) \/ Teardown(p) \/ CleanupFails(p)
    <3>1. Recorded' = Recorded
      BY <2>3 DEF LaunchWorker, BootstrapFails, Rollback, Teardown, CleanupFails, Finish, Recorded
    <3>2. /\ own' = own /\ \A q \in Proc \ {p} : pc'[q] = pc[q]
          /\ pc'[p] \notin Early
          /\ pc'[p] \in {"launch", "bootstrap"} => pc[p] \in {"launch", "bootstrap"}
      BY <2>3 DEF LaunchWorker, BootstrapFails, Rollback, Teardown, CleanupFails, Finish
    <3>3. QED
      BY <3>1, <3>2, NothingAdded
  <2>4. CASE AddWorker(p)
    <3> DEFINE W == own[p].workers \cup {NewWorker(p)}
    <3>1. /\ manifest'.workers = W
          /\ own' = [own EXCEPT ![p] = WithRoster(own[p], W, own[p].nextIndex + 1)]
          /\ own'[p].workers = W
          /\ own'[p].nextIndex = own[p].nextIndex + 1
          /\ cfg' = cfg
          /\ chosen' = [chosen EXCEPT ![p] = @ \cup {NewWorker(p)}]
      BY <2>4 DEF AddWorker, Save, WithRoster
    <3>2. ASSUME NEW w \in Recorded'
          PROVE  w \in Recorded \/ w = NewWorker(p)
      <4>1. \A q \in Proc : /\ own'[q].workers \subseteq own[q].workers \cup {NewWorker(p)}
                            /\ chosen'[q] \subseteq chosen[q] \cup {NewWorker(p)}
        BY <3>1
      <4>2. \/ w \in manifest'.workers
            \/ \E q \in Proc : w \in own'[q].workers \cup cfg'[q].workers \cup chosen'[q]
        BY DEF Recorded
      <4>3. \/ w \in own[p].workers \cup {NewWorker(p)}
            \/ \E q \in Proc : w \in own[q].workers \cup cfg[q].workers \cup chosen[q]
                                        \cup {NewWorker(p)}
        BY <3>1, <4>1, <4>2
      <4>4. QED
        BY <4>3 DEF Recorded
    <3>3. \A q \in Proc \ {p} : UNCHANGED <<pc[q], own[q]>>
      BY <2>4, <3>1 DEF AddWorker
    <3>4. pc[p] = "bootstrap" /\ pc'[p] \in {"launch", "done"}
      BY <2>4 DEF AddWorker
    <3>5. own[p].nextIndex \in Nat /\ NewWorker(p)[1] = own[p].nextIndex /\ NewWorker(p)[2] = p
      BY DEF Manifest, NewWorker
    <3>6. \A w \in Recorded : w[1] \in Nat
      BY DEF Recorded, Manifest, Worker
    <3>7. ASSUME NEW w \in Recorded', NEW q \in Proc \ {Starter}, w[2] = q
          PROVE  /\ pc'[q] \notin Early
                 /\ pc'[q] \in {"launch", "bootstrap"} => w[1] < own'[q].nextIndex
      <4>1. CASE w \in Recorded /\ q = p
        BY <3>1, <3>4, <3>5, <3>6, <3>7, <4>1 DEF AddedFirst
      <4>2. CASE w \in Recorded /\ q # p
        BY <3>3, <3>7, <4>2 DEF AddedFirst
      <4>3. CASE w = NewWorker(p)
        BY <3>1, <3>4, <3>5, <3>7, <4>3
      <4>4. QED
        BY <3>2, <4>1, <4>2, <4>3
    <3>8. QED
      BY <3>7 DEF AddedFirst
  <2>5. CASE Restore(p) \/ RemoveWorkers(p)
    <3>1. /\ manifest'.workers \subseteq own[p].workers
          /\ own'[p].workers \subseteq own[p].workers
          /\ \A q \in Proc \ {p} : own'[q] = own[q]
          /\ UNCHANGED <<cfg, chosen>>
      BY <2>5 DEF Restore, RemoveWorkers, Save, WithRoster
    <3>2. Recorded' \subseteq Recorded
      BY <3>1 DEF Recorded
    <3>3. pc'[p] = "done" /\ \A q \in Proc \ {p} : pc'[q] = pc[q]
      BY <2>5 DEF Restore, RemoveWorkers, Finish
    <3>4. QED
      BY <3>1, <3>2, <3>3, NothingAdded
  <2>6. CASE StartScaleDown(p)
    <3>1. PICK targets \in SUBSET manifest.workers : chosen' = [chosen EXCEPT ![p] = targets]
      BY <2>6 DEF StartScaleDown
    <3>2. Recorded' \subseteq Recorded
      BY <2>6, <3>1 DEF StartScaleDown, Recorded
    <3>3. QED
      BY <2>6, <3>2, NothingAdded DEF StartScaleDown
  <2>7. QED
    BY <1>3, <2>1, <2>2, <2>3, <2>4, <2>5, <2>6 DEF Scaling
<1>4. ASSUME NEW p \in Proc, Throws(p) \/ Crash(p)
      PROVE  AddedFirst'
  <2>1. Recorded' = Recorded
    BY <1>4 DEF Throws, Crash, Recorded
  <2>2. own' = own /\ pc'[p] \in {"thrown", "dead"} /\ \A q \in Proc \ {p} : pc'[q] = pc[q]
    BY <1>4 DEF Throws, Crash
  <2>3. QED
    BY <2>1, <2>2, NothingAdded
<1>5. CASE RecoverTeamLock \/ RecoverScalingLock \/ UNCHANGED vars
  BY <1>5 DEF RecoverTeamLock, RecoverScalingLock, vars, AddedFirst, Recorded
<1>6. QED
  BY <1>1, <1>2, <1>3, <1>4, <1>5 DEF Next

-----------------------------------------------------------------------------
(* Panes *)

LEMMA PanesStayKnown == IInv /\ [Next]_vars => PanesKnown'
<1> SUFFICES ASSUME IInv, [Next]_vars
             PROVE  PanesKnown'
  OBVIOUS
<1>0. TypeOK /\ Phases /\ LocksHeld /\ Additions /\ PanesKnown
  BY DEF IInv
<1> USE <1>0, RosterAssumption
<1> USE DEF TypeOK, Phases, LocksHeld, PanesKnown, Additions, Goto, GivenBack, locks, locals, Growing, Shrinking, NewWorker, WithRoster, Up
<1>1. ASSUME NEW p \in Proc, Create(p)
      PROVE  PanesKnown'
  <2>1. CASE CallCreate(p)
    BY <2>1 DEF CallCreate
  <2>2. CASE TakeId(p)
    BY <2>2 DEF TakeId
  <2>3. CASE GiveUpCreate(p)
    BY <2>3 DEF GiveUpCreate
  <2>4. CASE WriteTask(p)
    BY <2>4 DEF WriteTask
  <2>5. CASE AdvanceId(p)
    BY <2>5 DEF AdvanceId, Save
  <2>6. QED
    BY <1>1, <2>1, <2>2, <2>3, <2>4, <2>5 DEF Create
<1>2. ASSUME NEW p \in Proc, StartUp(p)
      PROVE  PanesKnown'
  <2>1. CASE LaunchTeam(p)
    BY <2>1 DEF LaunchTeam
  <2>2. CASE SaveTeam(p)
    BY <2>2 DEF SaveTeam, Save
  <2>3. CASE SaveBooted(p)
    BY <2>3 DEF SaveBooted, Save
  <2>4. QED
    BY <1>2, <2>1, <2>2, <2>3 DEF StartUp
<1>3. ASSUME NEW p \in Proc, Scaling(p)
      PROVE  PanesKnown'
  <2>1. ASSUME NEW kind \in {"up", "down"}, CallScaling(p, kind)
        PROVE  PanesKnown'
    BY <2>1 DEF CallScaling
  <2>2. CASE GiveUpScaling(p)
    BY <2>2 DEF GiveUpScaling
  <2>3. CASE Refuse(p)
    BY <2>3 DEF Refuse
  <2>4. ASSUME NEW n \in 1..Batch, NEW k \in 0..NewTasks, StartScaleUp(p, n, k)
        PROVE  PanesKnown'
    <3>1. \A w \in panes : w[2] # p
      BY <2>4 DEF StartScaleUp
    <3>2. \A q \in Proc \ {p} : UNCHANGED <<pc[q], op[q], own[q], chosen[q]>>
      BY <2>4 DEF StartScaleUp
    <3>3. panes' = panes /\ pc'[p] # "remove"
      BY <2>4 DEF StartScaleUp
    <3>4. QED
      BY <3>1, <3>2, <3>3
  <2>5. CASE LaunchWorker(p)
    <3>1. CASE pc'[p] = "rollback"
      BY <2>5, <3>1 DEF LaunchWorker
    <3>2. CASE pc'[p] = "bootstrap"
      <4>1. /\ panes' = panes \cup {NewWorker(p)} /\ UNCHANGED <<own, op, chosen>>
            /\ op[p] = "up" /\ pc[p] = "launch" /\ p # Starter
            /\ \A q \in Proc \ {p} : pc'[q] = pc[q]
        BY <2>5, <3>2 DEF LaunchWorker
      <4>2. ASSUME NEW q \in Proc, pc[q] = "remove"
            PROVE  NewWorker(p) \notin chosen[q]
        <5>1. /\ own[p].nextIndex \in Nat /\ ~(own[p].nextIndex < own[p].nextIndex)
              /\ NewWorker(p)[1] = own[p].nextIndex /\ NewWorker(p)[2] = p
          BY DEF Manifest
        <5>2. \A w \in Recorded : w[2] = p => w[1] < own[p].nextIndex
          BY <4>1 DEF IInv, AddedFirst
        <5>3. \A w \in chosen[q] : w \in Recorded
          BY DEF Recorded
        <5>4. QED
          BY <5>1, <5>2, <5>3
      <4>3. QED
        BY <3>2, <4>1, <4>2
    <3>3. QED
      BY <2>5, <3>1, <3>2 DEF LaunchWorker
  <2>6. CASE AddWorker(p)
    BY <2>6 DEF AddWorker, Save
  <2>7. CASE BootstrapFails(p)
    BY <2>7 DEF BootstrapFails
  <2>8. CASE Rollback(p)
    BY <2>8 DEF Rollback
  <2>9. CASE Restore(p)
    BY <2>9 DEF Restore, Finish, Save
  <2>10. CASE StartScaleDown(p)
    BY <2>10 DEF StartScaleDown
  <2>11. CASE Teardown(p)
    BY <2>11 DEF Teardown
  <2>12. CASE CleanupFails(p)
    BY <2>12 DEF CleanupFails, Finish
  <2>13. CASE RemoveWorkers(p)
    BY <2>13 DEF RemoveWorkers, Finish, Save
  <2>14. QED
    BY <1>3, <2>1, <2>2, <2>3, <2>4, <2>5, <2>6, <2>7, <2>8, <2>9, <2>10, <2>11, <2>12, <2>13 DEF Scaling
<1>4. ASSUME NEW p \in Proc, Throws(p) \/ Crash(p)
      PROVE  PanesKnown'
  BY <1>4 DEF Throws, Crash
<1>5. CASE RecoverTeamLock \/ RecoverScalingLock
  BY <1>5 DEF RecoverTeamLock, RecoverScalingLock
<1>6. CASE UNCHANGED vars
  BY <1>6 DEF vars
<1>7. QED
  BY <1>1, <1>2, <1>3, <1>4, <1>5, <1>6 DEF Next


LEMMA PanesStayListed == IInv /\ [Next]_vars => PanesListed'
<1> SUFFICES ASSUME IInv, [Next]_vars
             PROVE  PanesListed'
  OBVIOUS
<1>0. TypeOK /\ Phases /\ Additions /\ PanesKnown /\ PanesListed
  BY DEF IInv
<1> USE <1>0, RosterAssumption
<1> USE DEF TypeOK, Phases, PanesKnown, PanesListed, InHands, Additions, Goto, GivenBack, locks, locals, Growing, Shrinking, NewWorker, WithRoster
<1>1. ASSUME NEW p \in Proc, Create(p)
      PROVE  PanesListed'
  <2>1. CASE CallCreate(p)
    BY <2>1 DEF CallCreate
  <2>2. CASE TakeId(p)
    BY <2>2 DEF TakeId
  <2>3. CASE GiveUpCreate(p)
    BY <2>3 DEF GiveUpCreate
  <2>4. CASE WriteTask(p)
    BY <2>4 DEF WriteTask
  <2>5. CASE AdvanceId(p)
    <3>1. SUFFICES ASSUME ~stale', NEW w \in panes
                   PROVE  w \in manifest'.workers \/ InHands(w)'
      BY <2>5 DEF AdvanceId
    <3>2. ~stale /\ manifest = cfg[p] /\ manifest' = [cfg[p] EXCEPT !.nextTask = cfg[p].nextTask + 1]
      BY <2>5, <3>1 DEF AdvanceId, Save
    <3>3. manifest'.workers = manifest.workers
      <4>1. cfg[p] \in Manifest
        OBVIOUS
      <4>2. QED
        BY <3>2, <4>1 DEF Manifest
    <3>4. w[2] # p
      BY <2>5 DEF AdvanceId
    <3>5. pc'[w[2]] = pc[w[2]]
      BY <2>5, <3>4 DEF AdvanceId
    <3>6. own' = own
      BY <2>5 DEF AdvanceId
    <3>7. QED
      BY <3>2, <3>3, <3>5, <3>6
  <2>6. QED
    BY <1>1, <2>1, <2>2, <2>3, <2>4, <2>5 DEF Create
<1>2. ASSUME NEW p \in Proc, StartUp(p)
      PROVE  PanesListed'
  <2>1. CASE LaunchTeam(p)
    BY <2>1 DEF LaunchTeam
  <2>2. CASE SaveTeam(p)
    BY <2>2 DEF SaveTeam, Save
  <2>3. CASE SaveBooted(p)
    <3>1. SUFFICES ASSUME ~stale', NEW w \in panes
                   PROVE  w \in manifest'.workers \/ InHands(w)'
      BY <2>3 DEF SaveBooted
    <3>2. p = Starter /\ own[p] = NewTeam
      BY <2>3 DEF SaveBooted
    <3>3. ~stale /\ manifest = NewTeam
      BY <2>3, <3>1, <3>2 DEF SaveBooted, Save
    <3>4. manifest'.workers = (1..Initial) \X {p}
      BY <2>3, <3>2 DEF SaveBooted, Save, NewTeam
    <3>5. CASE w[2] = p
      BY <3>2, <3>4, <3>5
    <3>6. CASE w[2] # p
      <4>1. w \notin manifest.workers
        BY <3>3 DEF NewTeam
      <4>2. pc'[w[2]] = pc[w[2]] /\ own'[w[2]] = own[w[2]]
        BY <2>3, <3>6 DEF SaveBooted
      <4>3. QED
        BY <3>3, <4>1, <4>2
    <3>7. QED
      BY <3>5, <3>6
  <2>4. QED
    BY <1>2, <2>1, <2>2, <2>3 DEF StartUp
<1>3. ASSUME NEW p \in Proc, Scaling(p)
      PROVE  PanesListed'
  <2>1. ASSUME NEW kind \in {"up", "down"}, CallScaling(p, kind)
        PROVE  PanesListed'
    BY <2>1 DEF CallScaling
  <2>2. CASE GiveUpScaling(p)
    BY <2>2 DEF GiveUpScaling
  <2>3. CASE Refuse(p)
    BY <2>3 DEF Refuse
  <2>4. ASSUME NEW n \in 1..Batch, NEW k \in 0..NewTasks, StartScaleUp(p, n, k)
        PROVE  PanesListed'
    BY <2>4 DEF StartScaleUp
  <2>5. CASE LaunchWorker(p)
    BY <2>5 DEF LaunchWorker
  <2>6. CASE AddWorker(p)
    <3>1. SUFFICES ASSUME ~stale', NEW w \in panes
                   PROVE  w \in manifest'.workers \/ InHands(w)'
      BY <2>6 DEF AddWorker
    <3>2. ~stale /\ manifest = own[p]
      BY <2>6, <3>1 DEF AddWorker, Save
    <3>3. manifest'.workers = own[p].workers \cup {NewWorker(p)}
      BY <2>6 DEF AddWorker, Save
    <3>4. CASE w[2] = p
      <4>1. op[p] = "up" /\ Growing(p) /\ pc[p] = "bootstrap"
        BY <2>6 DEF AddWorker
      <4>2. w \in chosen[p] \/ w = NewWorker(p)
        BY <3>4, <4>1
      <4>3. \A v \in chosen[p] : v \in own[p].workers
        BY <4>1
      <4>4. QED
        BY <3>3, <4>2, <4>3
    <3>5. CASE w[2] # p
      <4>1. pc'[w[2]] = pc[w[2]] /\ own'[w[2]] = own[w[2]]
        BY <2>6, <3>5 DEF AddWorker
      <4>2. QED
        BY <3>2, <3>3, <4>1
    <3>6. QED
      BY <3>4, <3>5
  <2>7. CASE BootstrapFails(p)
    BY <2>7 DEF BootstrapFails
  <2>8. CASE Rollback(p)
    BY <2>8 DEF Rollback
  <2>9. CASE Restore(p)
    <3>1. SUFFICES ASSUME ~stale', NEW w \in panes
                   PROVE  w \in manifest'.workers \/ InHands(w)'
      BY <2>9 DEF Restore
    <3>2. ~stale /\ manifest = own[p] /\ manifest'.workers = own[p].workers \ chosen[p]
      BY <2>9, <3>1 DEF Restore, Save
    <3>3. w[2] # p
      BY <2>9 DEF Restore, Finish
    <3>4. \A v \in chosen[p] : v[2] = p
      BY <2>9 DEF Restore, Finish
    <3>5. pc'[w[2]] = pc[w[2]] /\ own'[w[2]] = own[w[2]]
      BY <2>9, <3>3 DEF Restore, Finish
    <3>6. QED
      BY <3>2, <3>3, <3>4, <3>5
  <2>10. CASE StartScaleDown(p)
    BY <2>10 DEF StartScaleDown
  <2>11. CASE Teardown(p)
    BY <2>11 DEF Teardown
  <2>12. CASE CleanupFails(p)
    BY <2>12 DEF CleanupFails, Finish
  <2>13. CASE RemoveWorkers(p)
    BY <2>13 DEF RemoveWorkers, Finish, Save
  <2>14. QED
    BY <1>3, <2>1, <2>2, <2>3, <2>4, <2>5, <2>6, <2>7, <2>8, <2>9, <2>10, <2>11, <2>12, <2>13 DEF Scaling
<1>4. ASSUME NEW p \in Proc, Throws(p) \/ Crash(p)
      PROVE  PanesListed'
  BY <1>4 DEF Throws, Crash
<1>5. CASE RecoverTeamLock \/ RecoverScalingLock
  BY <1>5 DEF RecoverTeamLock, RecoverScalingLock
<1>6. CASE UNCHANGED vars
  BY <1>6 DEF vars
<1>7. QED
  BY <1>1, <1>2, <1>3, <1>4, <1>5, <1>6 DEF Next


-----------------------------------------------------------------------------
(* The invariant, and what follows from it *)

LEMMA Initially == Init => IInv
<1> SUFFICES ASSUME Init
             PROVE  IInv
  OBVIOUS
<1>1. TypeOK
  BY InitTypes
<1>2. Sound(NewTeam)
  BY NewTeamSound
<1>3. Phases
  BY RosterAssumption DEF Init, Phases, Up, Shrinking
<1>4. LocksHeld
  BY RosterAssumption DEF Init, LocksHeld, Growing, Shrinking
<1>5. CopiesSound
  BY <1>2 DEF Init, CopiesSound
<1>6. Additions /\ Removals /\ AddedFirst
  <2>1. \A w \in Recorded : w[2] = NoPane
    BY DEF Init, Recorded, NewTeam
  <2>2. QED
    BY <2>1, RosterAssumption DEF Init, Additions, Removals, AddedFirst, Growing, Shrinking
<1>7. IdsBelowCounter /\ PanesKnown /\ PanesListed
  BY DEF Init, IdsBelowCounter, PanesKnown, PanesListed
<1>8. QED
  BY <1>1, <1>3, <1>4, <1>5, <1>6, <1>7 DEF IInv

LEMMA Inductive == IInv /\ [Next]_vars => IInv'
  BY TypesKept, PhasesKept, LocksKept, CopiesStaySound, AdditionsKept, RemovalsKept, IdsKept,
     AddedFirstKept, PanesStayKnown, PanesStayListed DEF IInv

\* Every variable keeps to its type (the invocations of runtime.ts, state.ts and
\* scaling.ts that read and save the manifest).
THEOREM TypeCorrect == Spec => []TypeOK
<1>1. IInv => TypeOK
  BY DEF IInv
<1>2. QED
  BY <1>1, Initially, Inductive, PTL DEF Spec

\* Whatever saves the callers of writeConfig lose, the roster in the manifest names
\* no worker twice, none that scaleUp will name again, and 1 to max_workers of them.
THEOREM RosterStaysConsistent == Spec => []RosterConsistent
<1>1. IInv => RosterConsistent
  BY DEF IInv, CopiesSound, Sound, RosterConsistent
<1>2. QED
  BY <1>1, Initially, Inductive, PTL DEF Spec

\* createTask takes no id it has returned before, up to the first save that puts
\* back an older manifest.
THEOREM IdsAreFresh == Spec => []FreshTaskIds
<1>1. IInv => FreshTaskIds
  <2> SUFFICES ASSUME IInv, ~stale, NEW p \in Proc, pc[p] = "write"
               PROVE  cfg[p].nextTask \notin created
    BY DEF FreshTaskIds
  <2>1. \A id \in created : id < cfg[p].nextTask
    BY DEF IInv, IdsBelowCounter
  <2>2. cfg[p].nextTask \in Nat
    BY DEF IInv, TypeOK, Manifest
  <2>3. QED
    BY <2>1, <2>2
<1>2. QED
  BY <1>1, Initially, Inductive, PTL DEF Spec

\* Up to that save no pane runs a worker the roster does not know but the ones of a
\* startTeam that is under way or crashed, and for every scaleUp the last it launched,
\* also when scaleUps and scaleDowns work at once since one lost the scaling lock.
THEOREM PanesAreListed == Spec => []PanesListed
<1>1. IInv => PanesListed
  BY DEF IInv
<1>2. QED
  BY <1>1, Initially, Inductive, PTL DEF Spec
-----------------------------------------------------------------------------
(* The locks *)

\* Inside a section there is the holder, and nobody else, as long as no lock was taken
\* from somebody who lives.
LEMMA CreatingHolds ==
    ASSUME IInv
    PROVE  /\ \A p \in Creating : Creating = {p} /\ teamLock = p /\ ~LeftBy(teamLock)
           /\ teamLock = Free => Creating = {} /\ ~LeftBy(teamLock)
  BY RosterAssumption DEF IInv, LocksHeld, Creating, LeftBy

LEMMA ResizingHolds ==
    ASSUME IInv, ~robbed
    PROVE  /\ \A p \in Resizing : Resizing = {p} /\ scalingLock = p /\ ~LeftBy(scalingLock)
           /\ scalingLock = Free => Resizing = {} /\ ~LeftBy(scalingLock)
  BY RosterAssumption DEF IInv, LocksHeld, Resizing, Growing, Shrinking, LeftBy

\* A step is one of an invocation that has not ended, and moves nobody else.
Moves(p) ==
    /\ pc[p] \notin {"done", "thrown", "dead"}
    /\ \A q \in Proc \ {p} : pc'[q] = pc[q] /\ op'[q] = op[q]

LEMMA OneMoves ==
    ASSUME IInv, NEW p \in Proc,
           Create(p) \/ StartUp(p) \/ Scaling(p) \/ Throws(p) \/ Crash(p)
    PROVE  Moves(p)
<1> USE DEF IInv, TypeOK, Goto, Moves, locals
<1>1. CASE Create(p)
  BY <1>1 DEF Create, CallCreate, TakeId, GiveUpCreate, WriteTask, AdvanceId
<1>2. CASE StartUp(p)
  BY <1>2 DEF StartUp, LaunchTeam, SaveTeam, SaveBooted
<1>3. CASE Scaling(p)
  <2>1. CASE \E kind \in {"up", "down"} : CallScaling(p, kind)
    BY <2>1 DEF CallScaling
  <2>2. CASE GiveUpScaling(p) \/ Refuse(p)
    BY <2>2 DEF GiveUpScaling, Refuse
  <2>3. CASE \E n \in 1..Batch, k \in 0..NewTasks : StartScaleUp(p, n, k)
    BY <2>3 DEF StartScaleUp
  <2>4. CASE LaunchWorker(p) \/ AddWorker(p) \/ BootstrapFails(p) \/ Rollback(p) \/ Restore(p)
    BY <2>4 DEF LaunchWorker, AddWorker, BootstrapFails, Rollback, Restore, Finish
  <2>5. CASE StartScaleDown(p) \/ Teardown(p) \/ CleanupFails(p) \/ RemoveWorkers(p)
    BY <2>5 DEF StartScaleDown, Teardown, CleanupFails, RemoveWorkers, Finish
  <2> QED
    BY <1>3, <2>1, <2>2, <2>3, <2>4, <2>5 DEF Scaling
<1>4. CASE Throws(p) \/ Crash(p)
  BY <1>4 DEF Throws, Crash
<1> QED
  BY <1>1, <1>2, <1>3, <1>4

\* A step that neither enters nor leaves a section and lets the lock be.
LEMMA CreatingKept ==
    ASSUME IInv, NEW p \in Proc, Moves(p), teamLock' = teamLock,
           pc[p] \in {"write", "advance"} <=> pc'[p] \in {"write", "advance"}
    PROVE  UNCHANGED <<Creating, LeftBy(teamLock)>>
<1>1. Creating' = Creating
  BY DEF Moves, Creating
<1>2. teamLock = p => pc[p] \in {"write", "advance"}
  BY DEF IInv, LocksHeld, Moves
<1>3. LeftBy(teamLock)' = LeftBy(teamLock)
  BY <1>2 DEF IInv, TypeOK, Moves, LeftBy
<1> QED
  BY <1>1, <1>3

LEMMA ResizingKept ==
    ASSUME IInv, NEW p \in Proc, Moves(p), scalingLock' = scalingLock,
           Growing(p) \/ Shrinking(p) <=> Growing(p)' \/ Shrinking(p)'
    PROVE  UNCHANGED <<Resizing, LeftBy(scalingLock)>>
<1>1. Resizing' = Resizing
  BY DEF Moves, Resizing, Growing, Shrinking
<1>2. scalingLock = p => Growing(p) \/ Shrinking(p)
  BY DEF IInv, LocksHeld, Moves
<1>3. scalingLock = p => pc'[p] # "dead"
  BY <1>2 DEF Growing, Shrinking
<1>4. LeftBy(scalingLock)' = LeftBy(scalingLock)
  BY <1>2, <1>3 DEF IInv, TypeOK, Moves, LeftBy, Growing, Shrinking
<1> QED
  BY <1>1, <1>4

\* createTask takes the team lock, gives it back or dies with it.
LEMMA TeamLockUse ==
    ASSUME IInv, [Next]_vars
    PROVE  TeamLock!LockNext \/ UNCHANGED <<Creating, LeftBy(teamLock)>>
<1> USE DEF Goto, locks, locals
<1>0. pc \in [Proc -> Label]
  BY DEF IInv, TypeOK
<1>1. ASSUME NEW p \in Proc, Create(p)
      PROVE  TeamLock!LockNext \/ UNCHANGED <<Creating, LeftBy(teamLock)>>
  <2>0. Moves(p)
    BY <1>1, OneMoves
  <2>1. CASE CallCreate(p) \/ GiveUpCreate(p) \/ WriteTask(p)
    <3>1. /\ teamLock' = teamLock
          /\ pc[p] \in {"write", "advance"} <=> pc'[p] \in {"write", "advance"}
      BY <1>0, <2>1 DEF CallCreate, GiveUpCreate, WriteTask
    <3> QED
      BY <2>0, <3>1, CreatingKept
  <2>2. CASE TakeId(p)
    <3>1. Creating = {} /\ ~LeftBy(teamLock)
      BY <2>2, CreatingHolds DEF TakeId
    <3>2. pc'[p] = "write" /\ teamLock' = p
      BY <1>0, <2>2 DEF TakeId
    <3>3. Creating' = {p} /\ ~LeftBy(teamLock)'
      BY <2>0, <3>1, <3>2 DEF Moves, Creating, LeftBy
    <3> QED
      BY <3>1, <3>3 DEF TeamLock!LockNext, TeamLock!Take, LeftBy
  <2>3. CASE AdvanceId(p)
    <3>1. p \in Creating
      BY <2>3 DEF AdvanceId, Creating
    <3>2. Creating = {p} /\ ~LeftBy(teamLock)
      BY <3>1, CreatingHolds
    <3>3. pc'[p] \in {"lockTeam", "done", "launch"} /\ teamLock' = Free
      BY <1>0, <2>3 DEF AdvanceId
    <3>4. Creating' = {} /\ ~LeftBy(teamLock)'
      BY <2>0, <3>2, <3>3 DEF Moves, Creating, LeftBy
    <3> QED
      BY <3>2, <3>4 DEF TeamLock!LockNext, TeamLock!Give, LeftBy
  <2> QED
    BY <1>1, <2>1, <2>2, <2>3 DEF Create
<1>2. ASSUME NEW p \in Proc, StartUp(p) \/ Scaling(p)
      PROVE  UNCHANGED <<Creating, LeftBy(teamLock)>>
  <2>1. Moves(p)
    BY <1>2, OneMoves
  <2>2. /\ teamLock' = teamLock
        /\ pc[p] \notin {"write", "advance"} /\ pc'[p] \notin {"write", "advance"}
    <3>1. CASE StartUp(p)
      BY <1>0, <3>1 DEF StartUp, LaunchTeam, SaveTeam, SaveBooted
    <3>2. CASE Scaling(p)
      BY <1>0, <3>2 DEF Scaling, CallScaling, GiveUpScaling, Refuse, StartScaleUp, LaunchWorker,
         AddWorker, BootstrapFails, Rollback, Restore, StartScaleDown, Teardown, CleanupFails,
         RemoveWorkers, Finish
    <3> QED
      BY <1>2, <3>1, <3>2
  <2> QED
    BY <2>1, <2>2, CreatingKept
<1>3. ASSUME NEW p \in Proc, Crash(p)
      PROVE  TeamLock!LockNext \/ UNCHANGED <<Creating, LeftBy(teamLock)>>
  <2>1. Moves(p)
    BY <1>3, OneMoves
  <2>2. pc'[p] = "dead" /\ teamLock' = teamLock
    BY <1>0, <1>3 DEF Crash
  <2>3. CASE p \in Creating
    <3>1. Creating = {p} /\ teamLock = p
      BY <2>3, CreatingHolds
    <3>2. Creating' = {} /\ LeftBy(teamLock)'
      BY <2>1, <2>2, <3>1, RosterAssumption DEF Moves, Creating, LeftBy
    <3> QED
      BY <3>1, <3>2 DEF TeamLock!LockNext, TeamLock!Die, LeftBy
  <2>4. CASE p \notin Creating
    <3>1. pc[p] \notin {"write", "advance"}
      BY <2>4 DEF Creating
    <3> QED
      BY <2>1, <2>2, <3>1, CreatingKept
  <2> QED
    BY <2>3, <2>4
<1>4. ASSUME NEW p \in Proc, Throws(p)
      PROVE  TeamLock!LockNext \/ UNCHANGED <<Creating, LeftBy(teamLock)>>
  <2>1. Moves(p)
    BY <1>4, OneMoves
  <2>2. pc'[p] = "thrown" /\ teamLock' = GivenBack(teamLock, p)
    BY <1>0, <1>4 DEF Throws
  <2>3. CASE p \in Creating
    <3>1. Creating = {p} /\ teamLock = p /\ ~LeftBy(teamLock)
      BY <2>3, CreatingHolds
    <3>2. Creating' = {} /\ ~LeftBy(teamLock)'
      BY <2>1, <2>2, <3>1 DEF Moves, Creating, LeftBy, GivenBack
    <3> QED
      BY <3>1, <3>2 DEF TeamLock!LockNext, TeamLock!Give, LeftBy
  <2>4. CASE p \notin Creating
    <3>1. pc[p] \notin {"write", "advance"}
      BY <2>4 DEF Creating
    <3>2. teamLock' = teamLock
      BY <2>1, <2>2, <3>1 DEF IInv, LocksHeld, Moves, GivenBack
    <3> QED
      BY <2>1, <2>2, <3>1, <3>2, CreatingKept
  <2> QED
    BY <2>3, <2>4
<1>5. CASE RecoverTeamLock
  <2>1. LeftBy(teamLock) /\ ~LeftBy(teamLock)' /\ Creating' = Creating
    BY <1>5, RosterAssumption DEF RecoverTeamLock, LeftBy, Creating
  <2> QED
    BY <2>1 DEF TeamLock!LockNext, TeamLock!Recover, LeftBy
<1>6. CASE RecoverScalingLock \/ UNCHANGED vars
  BY <1>6 DEF RecoverScalingLock, vars, Creating, LeftBy
<1> QED
  BY <1>1, <1>2, <1>3, <1>4, <1>5, <1>6 DEF Next

\* A resizing call gives the lock back wherever it ends.
LEMMA ResizingLeft ==
    ASSUME IInv, ~robbed, NEW p \in Proc, Moves(p), p \in Resizing,
           pc'[p] \in {"done", "thrown"}, scalingLock' = GivenBack(scalingLock, p)
    PROVE  ScalingLock!Give(p)
<1>1. Resizing = {p} /\ scalingLock = p /\ ~LeftBy(scalingLock)
  BY ResizingHolds
<1>2. Resizing' = {} /\ ~LeftBy(scalingLock)'
  BY <1>1 DEF Moves, Resizing, Growing, Shrinking, LeftBy, GivenBack
<1> QED
  BY <1>1, <1>2 DEF ScalingLock!Give, LeftBy

LEMMA ResizingEntered ==
    ASSUME IInv, ~robbed, NEW p \in Proc, Moves(p), scalingLock = Free, scalingLock' = p,
           Growing(p)' \/ Shrinking(p)'
    PROVE  ScalingLock!Take(p)
<1>1. Resizing = {} /\ ~LeftBy(scalingLock)
  BY ResizingHolds
<1>2. Resizing' = {p} /\ ~LeftBy(scalingLock)'
  BY <1>1 DEF Moves, Resizing, Growing, Shrinking, LeftBy
<1> QED
  BY <1>1, <1>2 DEF ScalingLock!Take, LeftBy

LEMMA RobbedStays ==
    ASSUME IInv, [Next]_vars, robbed
    PROVE  robbed'
<1>1. ASSUME NEW p \in Proc, Create(p) \/ StartUp(p)
      PROVE  robbed' = robbed
  BY <1>1 DEF Create, CallCreate, TakeId, GiveUpCreate, WriteTask, AdvanceId, StartUp,
     LaunchTeam, SaveTeam, SaveBooted
<1>2. ASSUME NEW p \in Proc, Scaling(p)
      PROVE  robbed' = robbed
  BY <1>2 DEF Scaling, CallScaling, GiveUpScaling, Refuse, StartScaleUp, LaunchWorker,
     AddWorker, BootstrapFails, Rollback, Restore, StartScaleDown, Teardown, CleanupFails,
     RemoveWorkers
<1>3. ASSUME NEW p \in Proc, Throws(p) \/ Crash(p)
      PROVE  robbed' = robbed
  BY <1>3 DEF Throws, Crash
<1>4. CASE RecoverTeamLock \/ UNCHANGED vars
  BY <1>4 DEF RecoverTeamLock, vars
<1>5. CASE RecoverScalingLock
  BY <1>5 DEF RecoverScalingLock
<1> QED
  BY <1>1, <1>2, <1>3, <1>4, <1>5 DEF Next

\* scaleUp and scaleDown do the same with the scaling lock, which a scaleUp that cannot
\* create its tasks gives back too, until a live one's is recovered.
LEMMA ScalingLockUse ==
    ASSUME IInv, [Next]_vars, ~robbed'
    PROVE  ScalingLock!LockNext \/ UNCHANGED <<Resizing, LeftBy(scalingLock)>>
<1>r. ~robbed
  BY RobbedStays
<1> USE DEF Goto, locks, locals
<1>0. /\ pc \in [Proc -> Label]
      /\ op \in [Proc -> {"none", "start", "create", "up", "down"}]
  BY DEF IInv, TypeOK
<1>a. \A p \in Proc : p \in Resizing <=> Growing(p) \/ Shrinking(p)
  BY DEF Resizing
<1>b. Phases /\ LocksHeld
  BY DEF IInv
<1>1. ASSUME NEW p \in Proc, Create(p)
      PROVE  ScalingLock!LockNext \/ UNCHANGED <<Resizing, LeftBy(scalingLock)>>
  <2>0. Moves(p)
    BY <1>1, OneMoves
  <2>1. CASE GiveUpCreate(p) /\ op[p] = "up"
    <3>1. p \in Resizing /\ pc'[p] = "done"
      BY <1>0, <1>a, <2>1 DEF GiveUpCreate, Growing
    <3>2. scalingLock' = GivenBack(scalingLock, p)
      BY <2>1 DEF GiveUpCreate
    <3> QED
      BY <1>r, <2>0, <3>1, <3>2, ResizingLeft DEF ScalingLock!LockNext
  <2>2. CASE GiveUpCreate(p) /\ op[p] # "up"
    <3>1. /\ ~Growing(p) /\ ~Shrinking(p) /\ ~Growing(p)' /\ ~Shrinking(p)'
          /\ pc[p] # "dead"
      BY <1>0, <2>2 DEF GiveUpCreate, Growing, Shrinking
    <3>2. scalingLock' = scalingLock
      BY <1>b, <2>2, <3>1 DEF GiveUpCreate, LocksHeld, GivenBack
    <3> QED
      BY <2>0, <3>1, <3>2, ResizingKept
  <2>3. CASE CallCreate(p) \/ TakeId(p) \/ WriteTask(p) \/ AdvanceId(p)
    <3>1. Growing(p) \/ Shrinking(p) <=> Growing(p)' \/ Shrinking(p)'
      BY <1>0, <2>3 DEF CallCreate, TakeId, WriteTask, AdvanceId, Growing, Shrinking
    <3>2. scalingLock' = scalingLock
      BY <2>3 DEF CallCreate, TakeId, WriteTask, AdvanceId
    <3> QED
      BY <2>0, <3>1, <3>2, ResizingKept
  <2> QED
    BY <1>1, <2>1, <2>2, <2>3 DEF Create
<1>2. ASSUME NEW p \in Proc, StartUp(p)
      PROVE  UNCHANGED <<Resizing, LeftBy(scalingLock)>>
  <2>1. Moves(p)
    BY <1>2, OneMoves
  <2>2. op[p] = "start" /\ op' = op /\ scalingLock' = scalingLock
    BY <1>2, <1>b DEF StartUp, LaunchTeam, SaveTeam, SaveBooted, Phases
  <2>3. ~Growing(p) /\ ~Shrinking(p) /\ ~Growing(p)' /\ ~Shrinking(p)'
    BY <1>0, <1>2, <2>2 DEF StartUp, LaunchTeam, SaveTeam, SaveBooted, Growing, Shrinking
  <2> QED
    BY <2>1, <2>2, <2>3, ResizingKept
<1>3. ASSUME NEW p \in Proc, Scaling(p)
      PROVE  ScalingLock!LockNext \/ UNCHANGED <<Resizing, LeftBy(scalingLock)>>
  <2>0. Moves(p)
    BY <1>3, OneMoves
  <2>1. CASE (\E kind \in {"up", "down"} : CallScaling(p, kind)) \/ GiveUpScaling(p) \/ Refuse(p)
    <3>1. ~Growing(p) /\ ~Shrinking(p) /\ ~Growing(p)' /\ ~Shrinking(p)'
      BY <1>0, <2>1 DEF CallScaling, GiveUpScaling, Refuse, Growing, Shrinking
    <3>2. scalingLock' = scalingLock
      BY <2>1 DEF CallScaling, GiveUpScaling, Refuse
    <3> QED
      BY <2>0, <3>1, <3>2, ResizingKept
  <2>2. CASE (\E n \in 1..Batch, k \in 0..NewTasks : StartScaleUp(p, n, k)) \/ StartScaleDown(p)
    <3>1. scalingLock = Free /\ scalingLock' = p
      BY <2>2 DEF StartScaleUp, StartScaleDown
    <3>2. Growing(p)' \/ Shrinking(p)'
      BY <1>0, <2>2 DEF StartScaleUp, StartScaleDown, Growing, Shrinking
    <3> QED
      BY <1>r, <2>0, <3>1, <3>2, ResizingEntered DEF ScalingLock!LockNext
  <2>3. CASE LaunchWorker(p) \/ BootstrapFails(p) \/ Rollback(p) \/ Teardown(p)
    <3>1. Growing(p) \/ Shrinking(p) <=> Growing(p)' \/ Shrinking(p)'
      BY <1>0, <1>b, <2>3 DEF LaunchWorker, BootstrapFails, Rollback, Teardown, Growing, Shrinking,
         Phases
    <3>2. scalingLock' = scalingLock
      BY <2>3 DEF LaunchWorker, BootstrapFails, Rollback, Teardown
    <3> QED
      BY <2>0, <3>1, <3>2, ResizingKept
  <2>4. CASE AddWorker(p)
    <3>1. op[p] = "up" /\ Growing(p)
      BY <1>b, <2>4 DEF AddWorker, Phases, Growing
    <3>2. CASE wanted[p] > 1
      <4>1. Growing(p)' /\ scalingLock' = scalingLock
        BY <1>0, <2>4, <3>1, <3>2 DEF AddWorker, Growing
      <4> QED
        BY <2>0, <3>1, <4>1, ResizingKept
    <3>3. CASE ~(wanted[p] > 1)
      <4>1. pc'[p] = "done" /\ scalingLock' = GivenBack(scalingLock, p)
        BY <1>0, <2>4, <3>3 DEF AddWorker
      <4> QED
        BY <1>r, <2>0, <1>a, <3>1, <4>1, ResizingLeft DEF ScalingLock!LockNext
    <3> QED
      BY <3>2, <3>3
  <2>5. CASE Restore(p) \/ CleanupFails(p) \/ RemoveWorkers(p)
    <3>1. p \in Resizing
      BY <1>a, <1>b, <2>5 DEF Restore, CleanupFails, RemoveWorkers, Finish, Phases, Growing, Shrinking
    <3>2. pc'[p] = "done" /\ scalingLock' = GivenBack(scalingLock, p)
      BY <1>0, <2>5 DEF Restore, CleanupFails, RemoveWorkers, Finish
    <3> QED
      BY <1>r, <2>0, <3>1, <3>2, ResizingLeft DEF ScalingLock!LockNext
  <2> QED
    BY <1>3, <2>1, <2>2, <2>3, <2>4, <2>5 DEF Scaling
<1>4. ASSUME NEW p \in Proc, Crash(p)
      PROVE  ScalingLock!LockNext \/ UNCHANGED <<Resizing, LeftBy(scalingLock)>>
  <2>1. Moves(p)
    BY <1>4, OneMoves
  <2>2. pc'[p] = "dead" /\ scalingLock' = scalingLock
    BY <1>0, <1>4 DEF Crash
  <2>3. CASE p \in Resizing
    <3>1. Resizing = {p} /\ scalingLock = p /\ ~LeftBy(scalingLock)
      BY <1>r, <2>3, ResizingHolds
    <3>2. Resizing' = {} /\ LeftBy(scalingLock)'
      BY <2>1, <2>2, <3>1, RosterAssumption DEF Moves, Resizing, Growing, Shrinking, LeftBy
    <3> QED
      BY <3>1, <3>2 DEF ScalingLock!LockNext, ScalingLock!Die, LeftBy
  <2>4. CASE p \notin Resizing
    <3>1. ~Growing(p) /\ ~Shrinking(p) /\ ~Growing(p)' /\ ~Shrinking(p)'
      BY <1>a, <2>2, <2>4 DEF Growing, Shrinking
    <3> QED
      BY <2>1, <2>2, <3>1, ResizingKept
  <2> QED
    BY <2>3, <2>4
<1>5. ASSUME NEW p \in Proc, Throws(p)
      PROVE  ScalingLock!LockNext \/ UNCHANGED <<Resizing, LeftBy(scalingLock)>>
  <2>1. Moves(p)
    BY <1>5, OneMoves
  <2>2. pc'[p] = "thrown" /\ scalingLock' = GivenBack(scalingLock, p)
    BY <1>0, <1>5 DEF Throws
  <2>3. CASE p \in Resizing
    BY <1>r, <2>1, <2>2, <2>3, ResizingLeft DEF ScalingLock!LockNext
  <2>4. CASE p \notin Resizing
    <3>1. ~Growing(p) /\ ~Shrinking(p) /\ ~Growing(p)' /\ ~Shrinking(p)'
      BY <1>a, <2>2, <2>4 DEF Growing, Shrinking
    <3>2. scalingLock' = scalingLock
      BY <1>b, <2>1, <2>2, <3>1 DEF LocksHeld, Moves, GivenBack
    <3> QED
      BY <2>1, <3>1, <3>2, ResizingKept
  <2> QED
    BY <2>3, <2>4
<1>6. CASE RecoverScalingLock
  <2>1. PICK p \in Proc : scalingLock = p /\ robbed' = (robbed \/ pc[p] # "dead")
    BY <1>6 DEF RecoverScalingLock
  <2>2. pc[p] = "dead"
    BY <2>1
  <2>3. LeftBy(scalingLock) /\ ~LeftBy(scalingLock)' /\ Resizing' = Resizing
    BY <1>6, <2>1, <2>2, RosterAssumption
       DEF RecoverScalingLock, LeftBy, Resizing, Growing, Shrinking
  <2> QED
    BY <2>3 DEF ScalingLock!LockNext, ScalingLock!Recover, LeftBy
<1>7. CASE RecoverTeamLock \/ UNCHANGED vars
  BY <1>7 DEF RecoverTeamLock, vars, Resizing, Growing, Shrinking, LeftBy
<1> QED
  BY <1>1, <1>2, <1>3, <1>4, <1>5, <1>6, <1>7 DEF Next

\* createTask, scaleUp and scaleDown use withTeamLock and withScalingLock as Lock allows:
\* they are inside one at a time, whatever else they call meanwhile, a call that throws or
\* gives up on the team lock gives the scaling lock back, and a crashed one shuts the
\* others out until its lock is recovered.  The scaling lock does so up to the recovery of
\* a lock whose holder lives.
THEOREM LocksUsed == Spec => LocksAsPromised
<1>1. Init => TeamLock!LockInit /\ ScalingLock!LockInit
  BY RosterAssumption DEF Init, TeamLock!LockInit, ScalingLock!LockInit, Creating, Resizing,
     Growing, Shrinking, LeftBy
<1>2. IInv /\ [Next]_vars => [TeamLock!LockNext]_<<Creating, LeftBy(teamLock)>>
  BY TeamLockUse
<1>3. IInv /\ [Next]_vars => [ScalingLock!LockNext \/ robbed']_<<Resizing, LeftBy(scalingLock)>>
  BY ScalingLockUse
<1>4. QED
  BY <1>1, <1>2, <1>3, Initially, Inductive, PTL DEF Spec, LocksAsPromised, TeamLock!LockSpec

=============================================================================
