--------------------------- MODULE TeamPhase_proofs ---------------------------
(***************************************************************************)
(* For any number of tasks, monitors and attempts to fix: no poll makes    *)
(* transitionPhase throw, and runtime-cli does not report a completed team *)
(* because of what another poll had found.                                 *)
(*                                                                         *)
(* The argument: every path of buildTransitionPath is a chain of           *)
(* transitions of orchestrator.ts of which only the last phase is terminal *)
(* or team-fix (PathChains), so that walking it ends in the phase it leads *)
(* to, or in failed (WalkEnds).  What a poll has written is then complete  *)
(* only if its own target was an end of the team (SyncInv).                *)
(***************************************************************************)
EXTENDS TeamPhase, SequenceTheorems, TLAPS

\* The phases the tasks may call for.
Targets == {"team-exec", "team-verify", "team-fix", "complete", "failed"}

Early == {"team-plan", "team-prd", "team-exec", "team-verify"}

\* A chain of transitions from a phase on.
Chain(from, path) ==
    /\ path \in Seq(Phase)
    /\ Len(path) <= 4
    /\ \A i \in 1..Len(path) :
          /\ <<IF i = 1 THEN from ELSE path[i - 1], path[i]>> \in Transitions
          /\ i < Len(path) => path[i] \notin Terminal \cup {"team-fix"}

LEMMA ChainLength ==
    ASSUME NEW from, NEW path, Chain(from, path)
    PROVE  path \in Seq(Phase) /\ Len(path) \in 0..4
<1>1. path \in Seq(Phase) /\ Len(path) <= 4
  BY Zenon DEF Chain
<1>2. Len(path) \in 0..4
  <2> DEFINE k == Len(path)
  <2>1. k \in Nat /\ k <= 4
    BY <1>1
  <2> HIDE DEF k
  <2>2. k \in 0..4
    BY <2>1
  <2> QED
    BY <2>2 DEF k
<1> QED
  BY <1>1, <1>2

-----------------------------------------------------------------------------
(* Paths *)

LEMMA StagesAre ==
    /\ Stages \in Seq(Phase) /\ Len(Stages) = 4
    /\ Stages[1] = "team-plan" /\ Stages[2] = "team-prd"
    /\ Stages[3] = "team-exec" /\ Stages[4] = "team-verify"
BY DEF Stages, Phase, Terminal

LEMMA StageOf ==
    ASSUME NEW from \in Early
    PROVE  LET j == CHOOSE i \in 1..4 : Stages[i] = from
           IN  j \in 1..4 /\ Stages[j] = from
<1>1. \E i \in 1..4 : Stages[i] = from
  <2>1. CASE from = "team-plan"
    BY <2>1, StagesAre
  <2>2. CASE from = "team-prd"
    BY <2>2, StagesAre
  <2>3. CASE from = "team-exec"
    BY <2>3, StagesAre
  <2>4. CASE from = "team-verify"
    BY <2>4, StagesAre
  <2> QED
    BY <2>1, <2>2, <2>3, <2>4 DEF Early
<1> QED
  BY <1>1

\* The stages from one on lead to the last of them.
LEMMA StageSteps ==
    \A i \in 1..3 : <<Stages[i], Stages[i + 1]>> \in Transitions
                    /\ Stages[i] \notin Terminal \cup {"team-fix"}
<1> SUFFICES ASSUME NEW i \in 1..3
             PROVE  <<Stages[i], Stages[i + 1]>> \in Transitions
                    /\ Stages[i] \notin Terminal \cup {"team-fix"}
  OBVIOUS
<1>1. CASE i = 1
  BY <1>1, StagesAre DEF Transitions, Terminal
<1>2. CASE i = 2
  BY <1>2, StagesAre DEF Transitions, Terminal
<1>3. CASE i = 3
  BY <1>3, StagesAre DEF Transitions, Terminal
<1> QED
  BY <1>1, <1>2, <1>3

LEMMA SubStages ==
    ASSUME NEW j \in 1..4, NEW k \in 3..4
    PROVE  LET path == SubSeq(Stages, j + 1, k)
           IN  /\ path \in Seq(Phase)
               /\ Len(path) = IF j < k THEN k - j ELSE 0
               /\ \A i \in 1..Len(path) : path[i] = Stages[j + i]
<1>1. j + 1 \in Int /\ k \in Int /\ \A i \in (j + 1)..k : Stages[i] \in Phase
  <2>1. \A i \in 1..4 : Stages[i] \in Phase
    BY StagesAre DEF Phase
  <2> QED
    BY <2>1
<1>2. /\ SubSeq(Stages, j + 1, k) \in Seq(Phase)
      /\ Len(SubSeq(Stages, j + 1, k)) = IF j + 1 <= k THEN k - (j + 1) + 1 ELSE 0
      /\ \A i \in 1..(k - (j + 1) + 1) : SubSeq(Stages, j + 1, k)[i] = Stages[(j + 1) + i - 1]
  <2> DEFINE m == j + 1
  <2> HIDE DEF m
  <2>1. /\ SubSeq(Stages, m, k) \in Seq(Phase)
        /\ Len(SubSeq(Stages, m, k)) = IF m <= k THEN k - m + 1 ELSE 0
        /\ \A i \in 1..(k - m + 1) : SubSeq(Stages, m, k)[i] = Stages[m + i - 1]
    <3>1. m \in Int /\ k \in Int /\ \A i \in m..k : Stages[i] \in Phase
      BY <1>1 DEF m
    <3> QED
      BY <3>1, SubSeqProperties
  <2> QED
    BY <2>1 DEF m
<1> DEFINE path == SubSeq(Stages, j + 1, k)
<1> HIDE DEF path
<1>3. /\ path \in Seq(Phase)
      /\ Len(path) = IF j + 1 <= k THEN k - (j + 1) + 1 ELSE 0
      /\ \A i \in 1..(k - (j + 1) + 1) : path[i] = Stages[(j + 1) + i - 1]
  BY <1>2 DEF path
<1>4. Len(path) = IF j < k THEN k - j ELSE 0
  BY <1>3
<1>5. ASSUME NEW i \in 1..Len(path)
      PROVE  path[i] = Stages[j + i]
  <2>1. i \in 1..(k - (j + 1) + 1) /\ (j + 1) + i - 1 = j + i
    BY <1>4
  <2> QED
    BY <1>3, <2>1
<1> QED
  BY <1>3, <1>4, <1>5 DEF path

LEMMA StageChain ==
    ASSUME NEW j \in 1..4, NEW k \in 3..4
    PROVE  Chain(Stages[j], SubSeq(Stages, j + 1, k))
<1> DEFINE path == SubSeq(Stages, j + 1, k)
<1>1. /\ path \in Seq(Phase)
      /\ Len(path) = IF j < k THEN k - j ELSE 0
      /\ \A i \in 1..Len(path) : path[i] = Stages[j + i]
  BY SubStages
<1> HIDE DEF path
<1>2. ASSUME NEW i \in 1..Len(path)
      PROVE  /\ <<IF i = 1 THEN Stages[j] ELSE path[i - 1], path[i]>> \in Transitions
             /\ i < Len(path) => path[i] \notin Terminal \cup {"team-fix"}
  <2>1. j < k /\ j + i <= k /\ j + i - 1 \in 1..3 /\ (j + i - 1) + 1 = j + i
    BY <1>1
  <2>2. path[i] = Stages[j + i]
    BY <1>1
  <2>3. (IF i = 1 THEN Stages[j] ELSE path[i - 1]) = Stages[j + i - 1]
    <3>1. CASE i = 1
      BY <3>1
    <3>2. CASE i # 1
      <4>1. i - 1 \in 1..Len(path) /\ j + (i - 1) = j + i - 1
        BY <1>1, <3>2
      <4> QED
        BY <1>1, <3>2, <4>1
    <3> QED
      BY <3>1, <3>2
  <2>4. i < Len(path) => j + i \in 1..3
    BY <1>1, <2>1
  <2> QED
    BY <2>1, <2>2, <2>3, <2>4, StageSteps
<1>3. Len(path) <= 4
  BY <1>1
<1> QED
  BY <1>1, <1>2, <1>3 DEF Chain, path

LEMMA StageChainTo ==
    ASSUME NEW j \in 1..4, NEW to \in {"team-fix", "complete", "failed"}
    PROVE  /\ Chain(Stages[j], SubSeq(Stages, j + 1, 4) \o <<to>>)
           /\ Len(SubSeq(Stages, j + 1, 4) \o <<to>>) > 0
           /\ (SubSeq(Stages, j + 1, 4) \o <<to>>)[Len(SubSeq(Stages, j + 1, 4) \o <<to>>)] = to
<1> DEFINE part == SubSeq(Stages, j + 1, 4)
           path == part \o <<to>>
<1>1. /\ part \in Seq(Phase)
      /\ Len(part) = 4 - j
      /\ \A i \in 1..Len(part) : part[i] = Stages[j + i]
  BY SubStages
<1>2. Chain(Stages[j], part)
  BY StageChain
<1>3. to \in Phase /\ <<Stages[4], to>> \in Transitions
  BY StagesAre DEF Phase, Terminal, Transitions
<1> HIDE DEF part
<1>4. /\ path \in Seq(Phase)
      /\ Len(path) = Len(part) + 1
      /\ \A i \in 1..Len(part) : path[i] = part[i]
      /\ path[Len(part) + 1] = to
  BY <1>1, <1>3
<1> HIDE DEF path
<1>5. ASSUME NEW i \in 1..Len(path)
      PROVE  /\ <<IF i = 1 THEN Stages[j] ELSE path[i - 1], path[i]>> \in Transitions
             /\ i < Len(path) => path[i] \notin Terminal \cup {"team-fix"}
  <2>1. CASE i = Len(path)
    <3>1. path[i] = to
      BY <1>4, <2>1
    <3>2. (IF i = 1 THEN Stages[j] ELSE path[i - 1]) = Stages[4]
      <4>1. CASE i = 1
        <5>1. j = 4
          BY <1>1, <1>4, <2>1, <4>1
        <5> QED
          BY <4>1, <5>1
      <4>2. CASE i # 1
        <5>1. i - 1 \in 1..Len(part) /\ j + (i - 1) = 4
          BY <1>1, <1>4, <2>1, <4>2
        <5> QED
          BY <1>1, <1>4, <4>2, <5>1
      <4> QED
        BY <4>1, <4>2
    <3> QED
      BY <1>3, <2>1, <3>1, <3>2
  <2>2. CASE i # Len(path)
    <3>1. i \in 1..Len(part) /\ (i # 1 => i - 1 \in 1..Len(part))
      BY <1>1, <1>4, <2>2
    <3>2. <<IF i = 1 THEN Stages[j] ELSE part[i - 1], part[i]>> \in Transitions
      BY <1>2, <3>1 DEF Chain
    <3>3. part[i] \notin Terminal \cup {"team-fix"}
      <4>1. part[i] = Stages[j + i]
        BY <1>1, <3>1
      <4>2. j + i \in 2..4
        BY <1>1, <3>1
      <4>3. CASE j + i = 4
        BY <4>1, <4>3, StagesAre DEF Terminal
      <4>4. CASE j + i # 4
        BY <4>1, <4>2, <4>4, StageSteps
      <4> QED
        BY <4>3, <4>4
    <3>4. path[i] = part[i] /\ (i # 1 => path[i - 1] = part[i - 1])
      BY <1>4, <3>1
    <3> QED
      BY <3>2, <3>3, <3>4
  <2> QED
    BY <2>1, <2>2
<1>6. Len(path) <= 4 /\ Len(path) > 0 /\ path[Len(path)] = to
  BY <1>1, <1>4
<1>7. Chain(Stages[j], path)
  BY <1>4, <1>5, <1>6 DEF Chain
<1> QED
  BY <1>6, <1>7 DEF path, part

\* buildTransitionPath uses transitions of orchestrator.ts only, and what it finds
\* leads to the target.
LEMMA PathChains ==
    ASSUME NEW from \in Phase \ Terminal, NEW to \in Targets, from # to
    PROVE  /\ Chain(from, Path(from, to))
           /\ Len(Path(from, to)) > 0 => Path(from, to)[Len(Path(from, to))] = to
<1>1. CASE from = "team-fix"
  <2>1. CASE to = "team-verify"
    <3>1. Path(from, to) = <<"team-exec", "team-verify">>
      BY <1>1, <2>1, Zenon DEF Path, FromFix
    <3> QED
      BY <1>1, <2>1, <3>1 DEF Chain, Phase, Terminal, Transitions
  <2>2. CASE to # "team-verify"
    <3>1. to \in {"team-exec", "complete", "failed"}
      BY <1>1, <2>2 DEF Targets
    <3>2. Path(from, to) = <<to>>
      BY <1>1, <2>2, <3>1, Zenon DEF Path, FromFix
    <3> QED
      BY <1>1, <3>1, <3>2 DEF Chain, Phase, Terminal, Transitions
  <2> QED
    BY <2>1, <2>2
<1>2. CASE from \in Early
  <2> DEFINE j == CHOOSE i \in 1..4 : Stages[i] = from
  <2>1. j \in 1..4 /\ Stages[j] = from
    BY <1>2, StageOf
  <2>2. from # "team-fix"
    BY <1>2 DEF Early
  <2>3. Path(from, to) = FromStage(j, to)
    BY <2>2 DEF Path
  <2> HIDE DEF j
  <2>5. ASSUME NEW k \in 3..4, to = Stages[k], Path(from, to) = SubSeq(Stages, j + 1, k)
        PROVE  /\ Chain(from, Path(from, to))
               /\ Len(Path(from, to)) > 0 => Path(from, to)[Len(Path(from, to))] = to
    <3> DEFINE path == SubSeq(Stages, j + 1, k)
    <3>1. /\ Len(path) = IF j < k THEN k - j ELSE 0
          /\ \A i \in 1..Len(path) : path[i] = Stages[j + i]
      BY <2>1, SubStages
    <3>2. Chain(from, path)
      BY <2>1, StageChain
    <3> HIDE DEF path
    <3>3. Len(path) > 0 => path[Len(path)] = to
      BY <2>1, <2>5, <3>1
    <3> QED
      BY <2>5, <3>2, <3>3 DEF path
  <2>6. CASE to = "team-exec"
    <3>1. to # "team-verify" /\ to \notin {"team-fix", "complete", "failed"}
      BY <2>6
    <3>2. Path(from, to) = SubSeq(Stages, j + 1, 3)
      BY <2>3, <2>6, <3>1, Zenon DEF FromStage
    <3> QED
      BY <2>5, <2>6, <3>2, StagesAre
  <2>7. CASE to = "team-verify"
    <3>1. to # "team-exec" /\ to \notin {"team-fix", "complete", "failed"}
      BY <2>7
    <3>2. Path(from, to) = SubSeq(Stages, j + 1, 4)
      BY <2>3, <2>7, <3>1, Zenon DEF FromStage
    <3> QED
      BY <2>5, <2>7, <3>2, StagesAre
  <2>8. CASE to \in {"team-fix", "complete", "failed"}
    <3>1. to # "team-exec" /\ to # "team-verify"
      BY <2>8
    <3>2. Path(from, to) = SubSeq(Stages, j + 1, 4) \o <<to>>
      BY <2>3, <2>8, <3>1, Zenon DEF FromStage
    <3> QED
      BY <2>1, <2>8, <3>2, StageChainTo
  <2> QED
    BY <2>6, <2>7, <2>8 DEF Targets
<1> QED
  BY <1>1, <1>2 DEF Phase, Early

-----------------------------------------------------------------------------
(* Walking a path *)

LEMMA TowardEnds ==
    ASSUME NEW s \in PhaseFile, NEW to, <<s.current, to>> \in Transitions
    PROVE  /\ Toward(s, to) \in PhaseFile
           /\ Toward(s, to).current \in {to, "failed"}
           /\ to # "team-fix" => Toward(s, to).current = to
<1>1. to \in Phase /\ s.current \notin Terminal \cup {to} /\ s.current # "thrown"
  BY DEF Transitions, Phase, Terminal
<1>2. Toward(s, to) = Advance(s, to)
  BY <1>1 DEF Toward
<1>3. s.attempts \in 0..MaxFixAttempts /\ MaxFixAttempts \in Nat /\ "failed" \in Phase
  BY PhaseAssumption DEF PhaseFile, Phase, Terminal
<1>4. CASE to # "team-fix"
  <2>1. Advance(s, to) = [s EXCEPT !.current = to]
    BY <1>1, <1>4 DEF Advance
  <2> QED
    BY <1>1, <1>2, <1>4, <2>1 DEF PhaseFile
<1>5. CASE to = "team-fix" /\ s.attempts >= MaxFixAttempts
  <2>1. Advance(s, to) = [s EXCEPT !.current = "failed"]
    BY <1>1, <1>5 DEF Advance
  <2> QED
    BY <1>2, <1>3, <1>5, <2>1 DEF PhaseFile
<1>6. CASE to = "team-fix" /\ ~(s.attempts >= MaxFixAttempts)
  <2>1. Advance(s, to) = [current |-> to, attempts |-> s.attempts + 1]
    BY <1>1, <1>6 DEF Advance
  <2> QED
    BY <1>1, <1>2, <1>3, <1>6, <2>1 DEF PhaseFile
<1> QED
  BY <1>4, <1>5, <1>6

\* Walk takes the phases of the path one by one; no path is longer than four.
WalksBy(at, s, path) ==
    /\ at[0] = s
    /\ \A i \in 1..Len(path) : at[i] = Toward(at[i - 1], path[i])
    /\ Walk(s, path) = at[Len(path)]

LEMMA WalkSteps ==
    ASSUME NEW s, NEW path, Len(path) \in 0..4
    PROVE  \E at : WalksBy(at, s, path)
<1> DEFINE k == Len(path)
           Is(f) == f = [i \in 0..k |-> IF i = 0 THEN s ELSE Toward(f[i - 1], path[i])]
           at == CHOOSE f : Is(f)
           a1 == Toward(s, path[1])
           a2 == Toward(a1, path[2])
           a3 == Toward(a2, path[3])
           a4 == Toward(a3, path[4])
           f == [i \in 0..k |-> IF i = 0 THEN s ELSE IF i = 1 THEN a1 ELSE IF i = 2 THEN a2
                                ELSE IF i = 3 THEN a3 ELSE a4]
<1>1. Walk(s, path) = at[k]
  BY DEF Walk
<1>2. /\ a1 = Toward(s, path[1]) /\ a2 = Toward(a1, path[2])
      /\ a3 = Toward(a2, path[3]) /\ a4 = Toward(a3, path[4])
  OBVIOUS
<1> HIDE DEF a1, a2, a3, a4
<1>3. Is(f)
  <2>1. \A i \in 0..k : f[i] = IF i = 0 THEN s ELSE Toward(f[i - 1], path[i])
    <3> SUFFICES ASSUME NEW i \in 0..k
                 PROVE  f[i] = IF i = 0 THEN s ELSE Toward(f[i - 1], path[i])
      OBVIOUS
    <3>1. CASE i = 0
      BY <3>1
    <3>2. CASE i = 1
      BY <1>2, <3>2
    <3>3. CASE i = 2
      BY <1>2, <3>3
    <3>4. CASE i = 3
      BY <1>2, <3>4
    <3>5. CASE i = 4
      BY <1>2, <3>5
    <3> QED
      BY <3>1, <3>2, <3>3, <3>4, <3>5
  <2>2. f = [i \in 0..k |-> f[i]]
    OBVIOUS
  <2> HIDE DEF f
  <2> QED
    BY <2>1, <2>2
<1> HIDE DEF f
<1>4. Is(at)
  BY <1>3
<1> HIDE DEF at
<1>5. at[0] = s /\ \A i \in 1..k : at[i] = Toward(at[i - 1], path[i])
  BY <1>4
<1>6. WalksBy(at, s, path)
  BY <1>1, <1>5 DEF WalksBy
<1> QED
  BY <1>6

LEMMA WalkEnds ==
    ASSUME NEW s \in PhaseFile, s.current \notin Terminal, NEW path, Chain(s.current, path)
    PROVE  /\ Walk(s, path) \in PhaseFile
           /\ Len(path) = 0 => Walk(s, path) = s
           /\ Len(path) > 0 => Walk(s, path).current \in {path[Len(path)], "failed"}
<1> DEFINE k == Len(path)
           Good(i, x) == /\ x \in PhaseFile
                         /\ i = 0 => x = s
                         /\ i > 0 => x.current \in {path[i], "failed"}
                         /\ 0 < i /\ i < k => x.current = path[i]
<1>1. k \in 0..4
  BY ChainLength
<1>0. PICK at : WalksBy(at, s, path)
  BY <1>1, WalkSteps
<1>2. /\ at[0] = s
      /\ \A i \in 1..k : at[i] = Toward(at[i - 1], path[i])
      /\ Walk(s, path) = at[k]
  BY <1>0 DEF WalksBy
<1>3. ASSUME NEW i \in 1..k, Good(i - 1, at[i - 1])
      PROVE  Good(i, at[i])
  <2>1. at[i - 1] \in PhaseFile /\ at[i - 1].current = IF i = 1 THEN s.current ELSE path[i - 1]
    BY <1>1, <1>3
  <2>2. <<at[i - 1].current, path[i]>> \in Transitions
    BY <2>1 DEF Chain
  <2>3. i < k => path[i] # "team-fix"
    BY DEF Chain
  <2>4. /\ at[i] \in PhaseFile
        /\ at[i].current \in {path[i], "failed"}
        /\ path[i] # "team-fix" => at[i].current = path[i]
    BY <1>2, <2>1, <2>2, TowardEnds
  <2> QED
    BY <1>1, <2>3, <2>4
<1>4. Good(0, at[0])
  BY <1>2
<1> HIDE DEF Good
<1>5. k >= 1 => Good(1, at[1])
  BY <1>1, <1>3, <1>4
<1>6. k >= 2 => Good(2, at[2])
  BY <1>1, <1>3, <1>5
<1>7. k >= 3 => Good(3, at[3])
  BY <1>1, <1>3, <1>6
<1>8. k >= 4 => Good(4, at[4])
  BY <1>1, <1>3, <1>7
<1>9. Good(k, at[k])
  <2>1. k = 0 \/ k = 1 \/ k = 2 \/ k = 3 \/ k = 4
    BY <1>1
  <2> HIDE DEF k
  <2> QED
    BY <1>4, <1>5, <1>6, <1>7, <1>8, <2>1
<1> QED
  BY <1>1, <1>2, <1>9 DEF Good

\* Whatever phase file a poll has read, and whatever the tasks call for.
LEMMA Reconciled ==
    ASSUME NEW s \in PhaseFile, NEW to \in Targets
    PROVE  /\ Reconcile(s, to) \in PhaseFile
           /\ Reconcile(s, to).current = "complete" => to \in {"complete", "failed"}
<1>1. to \in Phase /\ (to \in Terminal => to \in {"complete", "failed"})
  BY DEF Targets, Phase, Terminal
<1>2. CASE s.current = to \/ {s.current, to} \subseteq Terminal
  BY <1>1, <1>2 DEF Reconcile
<1>3. CASE s.current # to /\ s.current \in Terminal /\ to \notin Terminal
  <2>1. Reconcile(s, to) = [current |-> to, attempts |-> 0]
    BY <1>3 DEF Reconcile
  <2>2. to # "complete"
    BY <1>3 DEF Terminal
  <2> QED
    BY <1>1, <2>1, <2>2, PhaseAssumption DEF PhaseFile
<1>4. CASE s.current # to /\ s.current \notin Terminal
  <2> DEFINE path == Path(s.current, to)
  <2>1. Reconcile(s, to) = Walk(s, path)
    BY <1>4 DEF Reconcile
  <2>2. s.current \in Phase \ Terminal
    BY <1>4 DEF PhaseFile
  <2>3. Chain(s.current, path) /\ (Len(path) > 0 => path[Len(path)] = to)
    BY <1>4, <2>2, PathChains
  <2> HIDE DEF path
  <2>4. /\ Walk(s, path) \in PhaseFile
        /\ Len(path) = 0 => Walk(s, path) = s
        /\ Len(path) > 0 => Walk(s, path).current \in {path[Len(path)], "failed"}
    BY <2>2, <2>3, WalkEnds
  <2>5. Len(path) \in 0..4
    BY <2>3, ChainLength
  <2>6. s.current # "complete"
    BY <1>4 DEF Terminal
  <2> QED
    BY <2>1, <2>3, <2>4, <2>5, <2>6
<1> QED
  BY <1>2, <1>3, <1>4

-----------------------------------------------------------------------------
(* The invariant *)

\* A poll that has written complete has seen the team at an end.
SyncInv ==
    /\ target \in [Monitor -> Targets]
    /\ \A m \in Monitor :
          pc[m] = "sync" /\ found[m].current = "complete" => target[m] \in {"complete", "failed"}

LEMMA TargetType == Target \in Targets
<1>1. InferTarget \in Targets
  <2> DEFINE with(s) == {t \in Task : status[t] = s}
  <2>1. CASE with("open") # {}
    <3>1. InferTarget = "team-exec"
      BY <2>1, Zenon DEF InferTarget
    <3> QED
      BY <3>1 DEF Targets
  <2>2. CASE with("open") = {} /\ with("failed") # {}
    <3>1. InferTarget = "team-fix"
      BY <2>2, Zenon DEF InferTarget
    <3> QED
      BY <3>1 DEF Targets
  <2>3. CASE with("open") = {} /\ with("failed") = {} /\ unverified # {}
    <3>1. InferTarget = "team-verify"
      BY <2>3, Zenon DEF InferTarget
    <3> QED
      BY <3>1 DEF Targets
  <2>4. CASE with("open") = {} /\ with("failed") = {} /\ unverified = {}
    <3>1. InferTarget = "complete"
      BY <2>4, Zenon DEF InferTarget
    <3> QED
      BY <3>1 DEF Targets
  <2> QED
    BY <2>1, <2>2, <2>3, <2>4
<1> QED
  BY <1>1 DEF Target, Targets

LEMMA ConclusionsAre ==
    ASSUME NEW m \in Monitor
    PROVE  /\ Conclusions(m) \subseteq {"completed", "failed", "running"}
           /\ "completed" \in Conclusions(m) => found[m].current = "complete"
<1> DEFINE c == found[m].current
<1>1. CASE c = "complete"
  <2>1. /\ c \notin {"failed", "cancelled"} /\ c # "team-fix"
        /\ c \in Terminal \cup {"team-fix"}
    BY <1>1 DEF Terminal
  <2>2. Conclusions(m) = {"completed"}
    BY <1>1, <2>1, Zenon DEF Conclusions
  <2> QED
    BY <1>1, <2>2
<1>2. CASE c \in {"failed", "cancelled"}
  <2>1. c # "complete" /\ c # "team-fix" /\ c \in Terminal \cup {"team-fix"}
    BY <1>2 DEF Terminal
  <2>2. Conclusions(m) = {"failed"}
    BY <1>2, <2>1, Zenon DEF Conclusions
  <2> QED
    BY <2>2
<1>3. CASE c \notin {"complete", "failed", "cancelled"}
  <2>1. c # "complete" /\ c \notin {"failed", "cancelled"}
    BY <1>3
  <2>2. CASE lost[m] /\ c = "team-fix"
    <3>1. c \in Terminal \cup {"team-fix"}
      BY <2>2
    <3>2. Conclusions(m) = {"failed"}
      BY <2>1, <2>2, <3>1, Zenon DEF Conclusions
    <3> QED
      BY <3>2
  <2>3. CASE lost[m] /\ c # "team-fix" /\ target[m] = "team-exec"
    <3>1. c \notin Terminal \cup {"team-fix"}
      BY <1>3, <2>3 DEF Terminal
    <3>2. Conclusions(m) = {"failed", "running"}
      BY <2>1, <2>3, <3>1, Zenon DEF Conclusions
    <3> QED
      BY <3>2
  <2>4. CASE ~lost[m] \/ (c # "team-fix" /\ target[m] # "team-exec")
    <3>1. Conclusions(m) = {"running"}
      BY <2>1, <2>4, Zenon DEF Conclusions
    <3> QED
      BY <3>1
  <2> QED
    BY <2>2, <2>3, <2>4
<1> QED
  BY <1>1, <1>2, <1>3

PhaseInv == TypeOK /\ SyncInv

LEMMA PhaseInit ==
    ASSUME Init
    PROVE  PhaseInv
<1>1. NewTeam \in PhaseFile /\ NewTeam.current = "team-exec"
  BY PhaseAssumption DEF NewTeam, PhaseFile, Phase
<1>2. [prompt |-> prompt, looping |-> looping] \in Teams
  <2>1. PICK team \in Teams : prompt = team.prompt /\ looping = team.looping
    BY DEF Init
  <2>2. team = [prompt |-> team.prompt, looping |-> team.looping]
    BY PhaseAssumption
  <2> QED
    BY <2>1, <2>2
<1> QED
  BY <1>1, <1>2 DEF Init, PhaseInv, TypeOK, SyncInv, Targets, Phase

LEMMA BoardInv ==
    ASSUME PhaseInv, Board
    PROVE  PhaseInv'
<1> DEFINE BoardOK == /\ status' \in [Task -> {"absent", "open", "completed", "failed"}]
                      /\ unverified' \subseteq {t \in Task : status'[t] = "completed"}
                      /\ dead' \in BOOLEAN
<1>1. BoardOK
  <2>1. ASSUME NEW t \in Task, CreateTask(t)
        PROVE  BoardOK
    BY <2>1 DEF CreateTask, PhaseInv, TypeOK
  <2>2. ASSUME NEW t \in Task, NEW to \in {"completed", "failed"}, FinishTask(t, to)
        PROVE  BoardOK
    BY <2>2 DEF FinishTask, PhaseInv, TypeOK
  <2>3. ASSUME NEW t \in Task, ChangeRequirement(t)
        PROVE  BoardOK
    BY <2>3 DEF ChangeRequirement, PhaseInv, TypeOK
  <2>4. CASE WorkersDie
    BY <2>4 DEF WorkersDie, PhaseInv, TypeOK
  <2> QED
    BY <2>1, <2>2, <2>3, <2>4 DEF Board
<1>2. UNCHANGED <<prompt, looping, phase, root, outcome, pc, target, lost, found>>
  BY DEF Board, pollVars
<1> QED
  BY <1>1, <1>2 DEF PhaseInv, TypeOK, SyncInv

LEMMA ListTasksInv ==
    ASSUME PhaseInv, NEW m \in Monitor, ListTasks(m)
    PROVE  PhaseInv'
<1>1. Target \in Targets /\ Targets \subseteq Phase
  BY TargetType DEF Targets, Phase, Terminal
<1> HIDE DEF Targets
<1>2. (~prompt /\ dead) \in BOOLEAN
  OBVIOUS
<1> QED
  BY <1>1, <1>2 DEF ListTasks, PhaseInv, TypeOK, SyncInv, boardVars

LEMMA ReadPhaseInv ==
    ASSUME PhaseInv, NEW m \in Monitor, ReadPhase(m)
    PROVE  PhaseInv'
BY DEF ReadPhase, PhaseInv, TypeOK, SyncInv, boardVars

LEMMA WritePhaseInv ==
    ASSUME PhaseInv, NEW m \in Monitor, WritePhase(m)
    PROVE  PhaseInv'
<1> DEFINE reached == Reconcile(found[m], target[m])
<1>1. found[m] \in PhaseFile /\ target[m] \in Targets
  BY DEF PhaseInv, TypeOK, SyncInv
<1>2. reached \in PhaseFile
      /\ (reached.current = "complete" => target[m] \in {"complete", "failed"})
  BY <1>1, Reconciled
<1>3. /\ phase' = reached
      /\ found' = [found EXCEPT ![m] = reached]
      /\ pc' = [pc EXCEPT ![m] = "sync"]
      /\ UNCHANGED <<boardVars, root, outcome, target, lost>>
  BY DEF WritePhase
<1> HIDE DEF reached
<1> QED
  BY <1>2, <1>3 DEF PhaseInv, TypeOK, SyncInv, boardVars

\* The end of a poll, whatever comes next.
LEMMA ReturnParts ==
    ASSUME PhaseInv, NEW m \in Monitor, NEW to \in {"idle", "shutdown"}, Return(m, to)
    PROVE  /\ pc' \in [Monitor -> {"idle", "read", "write", "sync", "shutdown", "ended"}]
           /\ target' \in [Monitor -> Phase]
           /\ lost' \in [Monitor -> BOOLEAN]
           /\ found' \in [Monitor -> PhaseFile]
           /\ SyncInv'
<1>1. NewTeam \in PhaseFile /\ "team-exec" \in Targets \cap Phase
  BY PhaseAssumption DEF NewTeam, PhaseFile, Phase, Targets
<1> QED
  BY <1>1 DEF Return, PhaseInv, TypeOK, SyncInv

LEMMA ConcludeParts ==
    ASSUME PhaseInv, NEW m \in Monitor, Conclude(m)
    PROVE  /\ \E to \in {"idle", "shutdown"} : Return(m, to)
           /\ outcome' \in {"running", "completed", "failed", "gone"}
<1>1. Conclusions(m) \subseteq {"completed", "failed", "running"}
  BY ConclusionsAre
<1> QED
  BY <1>1 DEF Conclude, PhaseInv, TypeOK

LEMMA SyncRootInv ==
    ASSUME PhaseInv, NEW m \in Monitor, SyncRoot(m)
    PROVE  PhaseInv'
<1>1. Conclude(m) /\ UNCHANGED <<boardVars, phase>>
  BY DEF SyncRoot
<1>2. found[m].current \in Phase
  BY DEF PhaseInv, TypeOK, PhaseFile
<1>3. root' \in [active : BOOLEAN, phase : Phase]
  BY <1>2 DEF SyncRoot, PhaseInv, TypeOK
<1>4. PICK to \in {"idle", "shutdown"} : Return(m, to)
  BY <1>1, ConcludeParts
<1>5. outcome' \in {"running", "completed", "failed", "gone"}
  BY <1>1, ConcludeParts
<1>6. /\ pc' \in [Monitor -> {"idle", "read", "write", "sync", "shutdown", "ended"}]
      /\ target' \in [Monitor -> Phase]
      /\ lost' \in [Monitor -> BOOLEAN]
      /\ found' \in [Monitor -> PhaseFile]
      /\ SyncInv'
  BY <1>4, ReturnParts
<1> QED
  BY <1>1, <1>3, <1>5, <1>6 DEF PhaseInv, TypeOK, boardVars

LEMMA DeleteTeamInv ==
    ASSUME PhaseInv, NEW m \in Monitor, DeleteTeam(m)
    PROVE  PhaseInv'
BY DEF DeleteTeam, PhaseInv, TypeOK, SyncInv, boardVars

LEMMA AbortInv ==
    ASSUME PhaseInv, NEW m \in Monitor, Abort(m)
    PROVE  PhaseInv'
<1>1. Return(m, "idle") /\ UNCHANGED <<boardVars, phase, root, outcome>>
  BY DEF Abort
<1> QED
  BY <1>1, ReturnParts DEF PhaseInv, TypeOK, boardVars

LEMMA PhaseStep == PhaseInv /\ [Next]_vars => PhaseInv'
<1> SUFFICES ASSUME PhaseInv, [Next]_vars
             PROVE  PhaseInv'
  OBVIOUS
<1>1. CASE UNCHANGED vars
  BY <1>1 DEF vars, boardVars, pollVars, PhaseInv, TypeOK, SyncInv
<1>2. CASE Next
  BY <1>2, BoardInv, ListTasksInv, ReadPhaseInv, WritePhaseInv, SyncRootInv, DeleteTeamInv,
     AbortInv DEF Next, Poll
<1> QED
  BY <1>1, <1>2

LEMMA PhaseInvHolds == Spec => []PhaseInv
BY PhaseInit, PhaseStep, PTL DEF Spec

-----------------------------------------------------------------------------

\* For every number of tasks, monitors and attempts to fix, and in both launch modes:
\* the phase file holds a phase of orchestrator.ts, never the errors transitionPhase
\* throws.
THEOREM PhaseTypes == Spec => []TypeOK
<1>1. PhaseInv => TypeOK
  BY DEF PhaseInv
<1> QED
  BY <1>1, PhaseInvHolds, PTL

\* runtime-cli concludes completed from what its own poll has seen.
THEOREM CompletedTruly == Spec => CompletedIsTrue
<1>1. ASSUME PhaseInv, [Next]_vars, NEW m \in Monitor,
             pc[m] = "sync", pc'[m] = "shutdown", outcome' = "completed"
      PROVE  target[m] \in {"complete", "failed"}
  <2>1. pc \in [Monitor -> {"idle", "read", "write", "sync", "shutdown", "ended"}]
    BY <1>1 DEF PhaseInv, TypeOK
  <2>2. SyncRoot(m)
    <3>1. Next /\ pc' # pc
      BY <1>1 DEF vars, pollVars
    <3>2. \A n \in Monitor : ~ListTasks(n) /\ ~ReadPhase(n) /\ ~WritePhase(n) /\ ~DeleteTeam(n)
      BY <1>1, <2>1 DEF ListTasks, ReadPhase, WritePhase, DeleteTeam
    <3>3. \A n \in Monitor : ~Abort(n)
      BY <1>1, <2>1 DEF Abort, Return
    <3>4. ~Board
      BY <3>1 DEF Board, pollVars
    <3>5. \A n \in Monitor : SyncRoot(n) => n = m
      BY <1>1, <2>1 DEF SyncRoot, Conclude, Return
    <3> QED
      BY <3>1, <3>2, <3>3, <3>4, <3>5 DEF Next, Poll
  <2>3. "completed" \in Conclusions(m)
    BY <1>1, <2>1, <2>2 DEF SyncRoot, Conclude, Return
  <2>4. found[m].current = "complete"
    BY <2>3, ConclusionsAre
  <2> QED
    BY <1>1, <2>4 DEF PhaseInv, SyncInv
<1>2. PhaseInv /\ [Next]_vars =>
        [\A m \in Monitor : pc[m] = "sync" /\ pc'[m] = "shutdown" /\ outcome' = "completed"
                             => target[m] \in {"complete", "failed"}]_vars
  BY <1>1
<1> QED
  BY <1>2, PhaseInvHolds, PTL DEF Spec, CompletedIsTrue
=============================================================================
