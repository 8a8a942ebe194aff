-------------------------- MODULE Integration_proofs --------------------------
(***************************************************************************)
(* Two components that share no state, for any number of processes.        *)
(*                                                                         *)
(* Integration, for any number of workers, changes and faults: what the    *)
(* snapshot calls integrated has landed when the worktrees have branches,  *)
(* and no change of a worker is lost but the ways that are recorded.  The  *)
(* log only grows, and a commit's past is fixed when it is made (Sound,    *)
(* Longer), so that the leader's HEAD only ever gains changes.  The commits*)
(* a poll has left the queue of picks, or had in its baseline, have landed *)
(* (PickInv), hence all that is in the past of the oldest one when it is   *)
(* picked.  A worktree keeps what it has through commits and rebases       *)
(* (Keeps), and what shutdownTeam has been through has landed, is reported *)
(* or untold, nobody adding to it after the kill (ShutInv).                *)
(*                                                                         *)
(* RuntimeEngine, for any number of invocations, requests, messages and    *)
(* owners: the log replays, the files agree, what was answered is kept.    *)
(* Every log, in the file or in memory, replays without a refusal, and the *)
(* memory is what its log replays to as far as requests go (Readable).     *)
(* That compaction keeps both is a fact about all logs: it drops all       *)
(* events of the requests that have ended and no other, so that the replay *)
(* of the rest goes the same way for every other request (WithoutReplays,  *)
(* Compacted).  Those inductions over a log are made on a set of numbers   *)
(* that has no least element outside it (Least, UpTo).                     *)
(***************************************************************************)
EXTENDS Integration, RuntimeEngine, FiniteSetTheorems, SequenceTheorems, WellFoundedInduction, TLAPS

Entry == [what : SUBSET Change, past : SUBSET Nat]

\* The changes in the history of a commit of the log l.
Holding(l, c) == UNION {l[d].what : d \in l[c].past}

\* Pasts contain the commit itself, older commits, and their pasts.
Sound(l) ==
    \A c \in 1..Len(l) :
        /\ c \in l[c].past
        /\ l[c].past \subseteq 1..c
        /\ \A d \in l[c].past : l[d].past \subseteq l[c].past

\* k is a log that continues l.
Longer(l, k) ==
    /\ k \in Seq(Entry)
    /\ Sound(k)
    /\ Len(l) <= Len(k)
    /\ \A c \in 1..Len(l) : k[c] = l[c]

Has(w) == dirty[w] \cup Holding(log, head[w])

LogInv ==
    /\ log \in Seq(Entry)
    /\ Sound(log)
    /\ head \in [Worker \cup {Leader} -> 1..Len(log)]
    /\ dirty \in [Worker -> SUBSET Change]
    /\ made \subseteq Change
    /\ IsFiniteSet(made)

-----------------------------------------------------------------------------
(* Logs *)

\* A commit that is in a log stays what it is when the log grows.
LEMMA LongerHolds ==
    ASSUME NEW l \in Seq(Entry), Sound(l), NEW k, Longer(l, k), NEW c \in 1..Len(l)
    PROVE  k[c] = l[c] /\ Holding(k, c) = Holding(l, c)
<1>1. k[c] = l[c]
  BY DEF Longer
<1>2. \A d \in l[c].past : k[d] = l[d]
  BY DEF Longer, Sound
<1> QED
  BY <1>1, <1>2 DEF Holding

LEMMA HoldsMore ==
    ASSUME NEW l, Sound(l), NEW c \in 1..Len(l), NEW d \in l[c].past
    PROVE  Holding(l, d) \subseteq Holding(l, c)
BY DEF Sound, Holding

LEMMA LongerItself ==
    ASSUME NEW l \in Seq(Entry), Sound(l)
    PROVE  Longer(l, l)
BY DEF Longer

LEMMA LongerTwice ==
    ASSUME NEW l \in Seq(Entry), NEW k \in Seq(Entry), NEW m, Longer(l, k), Longer(k, m)
    PROVE  Longer(l, m)
BY DEF Longer

\* One commit more, e with parents P in the log.
IsChild(l, P, changes, e) ==
    /\ P \subseteq 1..Len(l)
    /\ changes \subseteq Change
    /\ e = [what |-> changes, past |-> {Len(l) + 1} \cup UNION {l[c].past : c \in P}]

\* n is a commit of k with these parents and changes.
ChildOf(l, P, changes, k, n) ==
    /\ \A p \in P : p \in k[n].past
    /\ changes \subseteq Holding(k, n)
    /\ \A x \in Holding(k, n) : x \in changes \/ \E p \in P : x \in Holding(l, p)

LEMMA ChildLonger ==
    ASSUME NEW l \in Seq(Entry), Sound(l),
           NEW P, NEW changes, NEW e, IsChild(l, P, changes, e)
    PROVE  /\ Longer(l, Append(l, e))
           /\ Len(Append(l, e)) = Len(l) + 1
           /\ ChildOf(l, P, changes, Append(l, e), Len(l) + 1)
<1> DEFINE n == Len(l) + 1
           k == Append(l, e)
<1> USE DEF IsChild
<1>1. n \in Nat /\ Len(l) \in Nat /\ Len(l) < n /\ n \in 1..n
  OBVIOUS
<1>2. \A c \in P : l[c].past \subseteq 1..Len(l)
  BY DEF Sound
<1>3. e.past \subseteq 1..n /\ n \in e.past
  <2>1. e.past = {n} \cup UNION {l[c].past : c \in P}
    OBVIOUS
  <2>2. 1..Len(l) \subseteq 1..n
    BY <1>1
  <2> QED
    BY <1>1, <1>2, <2>1, <2>2
<1>4. e \in Entry
  <2>1. e.past \subseteq Nat
    BY <1>1, <1>3
  <2> QED
    BY <2>1 DEF Entry
<1>5. k \in Seq(Entry) /\ Len(k) = n /\ k[n] = e /\ \A c \in 1..Len(l) : k[c] = l[c]
  BY <1>4
<1>6. \A d \in e.past : k[d].past \subseteq e.past
  <2> SUFFICES ASSUME NEW d \in e.past PROVE k[d].past \subseteq e.past
    OBVIOUS
  <2>1. CASE d = n
    BY <2>1, <1>5, k[d] = e
  <2>2. CASE d # n
    <3>1. PICK c \in P : d \in l[c].past
      BY <2>2
    <3>2. d \in 1..Len(l) /\ l[d].past \subseteq l[c].past
      BY <3>1, <1>2 DEF Sound
    <3> QED
      BY <3>1, <3>2, <1>5
  <2> QED
    BY <2>1, <2>2
<1>7. Sound(k)
  <2> SUFFICES ASSUME NEW c \in 1..n
               PROVE  /\ c \in k[c].past
                      /\ k[c].past \subseteq 1..c
                      /\ \A d \in k[c].past : k[d].past \subseteq k[c].past
    BY <1>5 DEF Sound
  <2>1. CASE c = n
    BY <2>1, <1>3, <1>5, <1>6
  <2>2. CASE c # n
    <3>1. c \in 1..Len(l)
      BY <2>2, <1>1
    <3>2. \A d \in l[c].past : d \in 1..Len(l) /\ l[d].past \subseteq l[c].past
      BY <3>1 DEF Sound
    <3> QED
      BY <3>1, <3>2, <1>5 DEF Sound
  <2> QED
    BY <2>1, <2>2
<1>8. Longer(l, k)
  BY <1>1, <1>5, <1>7 DEF Longer
<1>9. \A p \in P : p \in e.past
  BY DEF Sound
<1>10. changes \subseteq Holding(k, n)
  BY <1>3, <1>5 DEF Holding
<1>11. ASSUME NEW x \in Holding(k, n), x \notin changes
       PROVE  \E p \in P : x \in Holding(l, p)
  <2>1. PICK d \in e.past : x \in k[d].what
    BY <1>5, <1>11 DEF Holding
  <2>2. d # n
    BY <2>1, <1>5, <1>11
  <2>3. PICK p \in P : d \in l[p].past
    BY <2>1, <2>2
  <2>4. x \in l[d].what
    BY <2>1, <2>3, <1>2, <1>5
  <2> QED
    BY <2>3, <2>4 DEF Holding
<1> QED
  BY <1>5, <1>8, <1>9, <1>10, <1>11 DEF ChildOf

-----------------------------------------------------------------------------
(* Steps on the repository *)

\* A rebase adds commits on top of its base, and keeps what it does not drop.
LEMMA RebaseKeeps ==
    ASSUME LogInv, NEW w \in Worker, upon \in 1..Len(log), NEW dropped, Rebase(w, dropped)
    PROVE  /\ Longer(log, log')
           /\ head' \in [Worker \cup {Leader} -> 1..Len(log')]
           /\ \A n \in Worker \cup {Leader} : n # w => head'[n] = head[n]
           /\ Holding(log, head[w]) \subseteq Holding(log', head'[w]) \cup dropped
           /\ Holding(log', head'[w]) \subseteq Holding(log, head[w]) \cup Holding(log, upon)
<1> DEFINE commits == Replayed(w, dropped)
           k == Cardinality(commits)
           L == Len(log)
<1>1. L \in Nat /\ head[w] \in 1..L /\ log \in Seq(Entry)
  BY DEF LogInv
<1>2. commits \subseteq 1..L
  BY <1>1 DEF Replayed, Past, LogInv, Sound
<1>3. k \in Nat
  <2>1. IsFiniteSet(1..L)
    BY <1>1, FS_Interval
  <2>2. IsFiniteSet(commits)
    BY <2>1, <1>2, FS_Subset
  <2> QED
    BY <2>2, FS_CardinalityType
<1>4. PICK s \in [1..k -> commits] :
         /\ Sorted(s, commits)
         /\ log' = log \o [i \in 1..k |->
                             [what |-> Kept(s[i], dropped),
                              past |-> Past(upon) \cup (New..(Len(log) + i))]]
         /\ head' = [head EXCEPT ![w] = IF k = 0 THEN upon ELSE Len(log) + k]
  BY DEF Rebase
<1> DEFINE new == [i \in 1..k |->
                     [what |-> Kept(s[i], dropped),
                      past |-> Past(upon) \cup (New..(Len(log) + i))]]
<1>5. Past(upon) \subseteq 1..L /\ upon \in Past(upon)
  BY <1>1 DEF Past, LogInv, Sound
<1>6. \A i \in 1..k : new[i].what \subseteq log[s[i]].what /\ new[i] \in Entry
  <2> SUFFICES ASSUME NEW i \in 1..k
               PROVE  new[i].what \subseteq log[s[i]].what /\ new[i] \in Entry
    OBVIOUS
  <2>1. s[i] \in 1..L /\ log[s[i]] \in Entry
    BY <1>1, <1>2
  <2>2. Past(upon) \cup (New..(Len(log) + i)) \subseteq Nat
    BY <1>1, <1>3, <1>5 DEF New
  <2> QED
    BY <2>1, <2>2 DEF Entry, Kept
<1>7. new \in Seq(Entry) /\ Len(new) = k
  BY <1>3, <1>6
<1>a. \A i \in 1..k : /\ new[i].what = Kept(s[i], dropped)
                      /\ new[i].past = Past(upon) \cup ((L + 1)..(L + i))
  BY DEF New
<1>b. log' = log \o new
  BY <1>4
<1> HIDE DEF new
<1>8. /\ log' \in Seq(Entry)
      /\ Len(log') = L + k
      /\ \A c \in 1..L : log'[c] = log[c]
      /\ \A i \in 1..k : log'[L + i] = new[i]
  <2>1. log' \in Seq(Entry) /\ Len(log') = L + k
    BY <1>1, <1>3, <1>7, <1>b
  <2>2. ASSUME NEW c \in 1..L PROVE log'[c] = log[c]
    BY <1>1, <1>3, <1>7, <1>b
  <2>3. ASSUME NEW i \in 1..k PROVE log'[L + i] = new[i]
    BY <1>1, <1>3, <1>7, <1>b
  <2> QED
    BY <2>1, <2>2, <2>3
<1>9. \A i \in 1..k : log'[L + i].past = Past(upon) \cup ((L + 1)..(L + i))
  BY <1>8, <1>a
<1>10. ASSUME NEW c \in 1..(L + k)
       PROVE  /\ c \in log'[c].past
              /\ log'[c].past \subseteq 1..c
              /\ \A d \in log'[c].past : log'[d].past \subseteq log'[c].past
  <2>1. CASE c \in 1..L
    <3>1. \A d \in log[c].past : d \in 1..L /\ log[d].past \subseteq log[c].past
      BY <2>1, <1>1 DEF LogInv, Sound
    <3> QED
      BY <2>1, <3>1, <1>8 DEF LogInv, Sound
  <2>2. CASE c \notin 1..L
    <3>1. PICK i \in 1..k : c = L + i
      <4>1. c - L \in 1..k /\ c = L + (c - L)
        BY <2>2, <1>1, <1>3
      <4> QED
        BY <4>1
    <3>2. log'[c].past = Past(upon) \cup ((L + 1)..(L + i))
      BY <3>1, <1>9
    <3>3. c \in log'[c].past /\ log'[c].past \subseteq 1..c
      BY <3>1, <3>2, <1>1, <1>3, <1>5
    <3>4. ASSUME NEW d \in log'[c].past
          PROVE  log'[d].past \subseteq log'[c].past
      <4>1. CASE d \in Past(upon)
        <5>1. log'[d] = log[d] /\ log[d].past \subseteq Past(upon)
          BY <4>1, <1>5, <1>8 DEF Past, LogInv, Sound
        <5> QED
          BY <5>1, <3>2
      <4>2. CASE d \notin Past(upon)
        <5>1. d \in (L + 1)..(L + i)
          BY <4>2, <3>2, <3>4
        <5>2. d - L \in 1..k /\ d = L + (d - L) /\ d <= L + i
          BY <5>1, <1>1, <1>3
        <5>3. log'[d].past = Past(upon) \cup ((L + 1)..d)
          <6>1. log'[L + (d - L)].past = Past(upon) \cup ((L + 1)..(L + (d - L)))
            BY <5>2, <1>9
          <6> QED
            BY <6>1, <5>2
        <5>4. (L + 1)..d \subseteq (L + 1)..(L + i)
          BY <5>1, <5>2, <1>1, <1>3
        <5> QED
          BY <5>3, <5>4, <3>2
      <4> QED
        BY <4>1, <4>2
    <3> QED
      BY <3>3, <3>4
  <2> QED
    BY <2>1, <2>2
<1>11. Longer(log, log')
  BY <1>1, <1>3, <1>8, <1>10 DEF Longer, Sound
<1>12. head'[w] = (IF k = 0 THEN upon ELSE L + k) /\ head'[w] \in 1..Len(log')
  BY <1>1, <1>3, <1>4, <1>8 DEF LogInv
<1>13. /\ head' \in [Worker \cup {Leader} -> 1..Len(log')]
       /\ \A n \in Worker \cup {Leader} : n # w => head'[n] = head[n]
  <2>1. 1..L \subseteq 1..Len(log')
    BY <1>1, <1>3, <1>8
  <2> QED
    BY <2>1, <1>4, <1>12 DEF LogInv
<1>14. Holding(log', upon) = Holding(log, upon)
  BY <1>1, <1>11, LongerHolds DEF LogInv
<1>15. log'[head'[w]].past = Past(upon) \cup ((L + 1)..(L + k))
  <2>1. CASE k = 0
    <3>1. (L + 1)..(L + k) = {}
      BY <2>1, <1>1
    <3> QED
      BY <2>1, <3>1, <1>8, <1>12 DEF Past
  <2>2. CASE k # 0
    BY <2>2, <1>3, <1>9, <1>12
  <2> QED
    BY <2>1, <2>2
<1>16. ASSUME NEW x \in Holding(log, head[w]), x \notin dropped
       PROVE  x \in Holding(log', head'[w])
  <2>1. PICK c \in log[head[w]].past : x \in log[c].what
    BY <1>16 DEF Holding
  <2>2. CASE x \in Holding(log, upon)
    <3>1. PICK d \in Past(upon) : x \in log[d].what
      BY <2>2 DEF Holding, Past
    <3>2. d \in log'[head'[w]].past /\ log'[d] = log[d]
      BY <3>1, <1>5, <1>8, <1>15
    <3> QED
      BY <3>1, <3>2 DEF Holding
  <2>3. CASE x \notin Holding(log, upon)
    <3>1. x \in Kept(c, dropped)
      BY <2>1, <2>3, <1>16 DEF Kept, Holds, Holding, Past
    <3>2. c \notin Past(upon)
      BY <2>1, <2>3 DEF Holding, Past
    <3>3. c \in commits
      BY <2>1, <3>1, <3>2 DEF Replayed, Past
    <3>4. PICK i \in 1..k : s[i] = c
      BY <3>3, <1>4 DEF Sorted
    <3>5. x \in log'[L + i].what
      BY <3>1, <3>4, <1>8, <1>a
    <3>6. L + i \in (L + 1)..(L + k)
      BY <1>1, <1>3
    <3> QED
      BY <3>5, <3>6, <1>15 DEF Holding
  <2> QED
    BY <2>2, <2>3
<1>17. ASSUME NEW x \in Holding(log', head'[w])
       PROVE  x \in Holding(log, head[w]) \cup Holding(log, upon)
  <2>1. PICK d \in log'[head'[w]].past : x \in log'[d].what
    BY <1>17 DEF Holding
  <2>2. CASE d \in Past(upon)
    BY <2>1, <2>2, <1>5, <1>8 DEF Holding, Past
  <2>3. CASE d \notin Past(upon)
    <3>1. d - L \in 1..k /\ d = L + (d - L)
      BY <2>1, <2>3, <1>1, <1>3, <1>15
    <3>2. PICK i \in 1..k : d = L + i
      BY <3>1
    <3>3. x \in log[s[i]].what
      BY <2>1, <3>2, <1>6, <1>8
    <3>4. s[i] \in log[head[w]].past
      BY DEF Replayed, Past
    <3> QED
      BY <3>3, <3>4 DEF Holding
  <2> QED
    BY <2>2, <2>3
<1> QED
  BY <1>11, <1>13, <1>16, <1>17

UponInv == poll = "rebase" => upon \in Past(head[Leader])

TakeInv ==
    poll \in {"merge", "pick"} => /\ taking \in Worker
                                 /\ seen \in Past(head[taking])
                                 /\ queue \subseteq Past(seen)

HasNext(w) == dirty'[w] \cup Holding(log', head'[w])

\* What no step does to the repository: HEADs go forward, that of a worker but for a
\* rebase, worktrees lose only what is overruled, and get only what their worker makes
\* or the leader has.
Keeps ==
    /\ Longer(log, log')
    /\ head' \in [Worker \cup {Leader} -> 1..Len(log')]
    /\ dirty' \in [Worker -> SUBSET Change]
    /\ head[Leader] \in log'[head'[Leader]].past
    /\ \A w \in Worker :
         /\ poll # "rebase" => head[w] \in log'[head'[w]].past
         /\ Has(w) \subseteq HasNext(w) \cup overruled'
         /\ w \in alive \/ HasNext(w) \subseteq Has(w) \cup Holding(log', head'[Leader])

LEMMA Commit ==
    ASSUME LogInv, NEW n \in Worker \cup {Leader}, NEW P, NEW changes,
           P \subseteq 1..Len(log), head[n] \in P, changes \subseteq Change,
           CommitTo(n, P, changes)
    PROVE  /\ Longer(log, log')
           /\ head' \in [Worker \cup {Leader} -> 1..Len(log')]
           /\ \A m \in Worker \cup {Leader} : m # n => head'[m] = head[m]
           /\ head'[n] \in 1..Len(log')
           /\ head[n] \in log'[head'[n]].past
           /\ ChildOf(log, P, changes, log', head'[n])
<1> DEFINE e == [what |-> changes,
                 past |-> {Len(log) + 1} \cup UNION {log[c].past : c \in P}]
<1>1. Child(P, changes) = e
  BY DEF Child, Past, New
<1>2. log \in Seq(Entry) /\ Sound(log) /\ Len(log) \in Nat
  BY DEF LogInv
<1>3. log' = Append(log, e) /\ head' = [head EXCEPT ![n] = Len(log) + 1]
  BY <1>1 DEF CommitTo, New
<1>c. IsChild(log, P, changes, e)
  BY DEF IsChild
<1> HIDE DEF e
<1>4. /\ Longer(log, log')
      /\ Len(log') = Len(log) + 1
      /\ ChildOf(log, P, changes, log', Len(log) + 1)
  BY <1>2, <1>3, <1>c, ChildLonger
<1>5. head'[n] = Len(log) + 1 /\ head'[n] \in 1..Len(log')
  BY <1>2, <1>3, <1>4 DEF LogInv
<1>6. 1..Len(log) \subseteq 1..Len(log')
  BY <1>2, <1>4
<1>7. /\ head' \in [Worker \cup {Leader} -> 1..Len(log')]
      /\ \A m \in Worker \cup {Leader} : m # n => head'[m] = head[m]
  BY <1>3, <1>5, <1>6 DEF LogInv
<1>8. head[n] \in log'[head'[n]].past
  BY <1>4, <1>5 DEF ChildOf
<1> QED
  BY <1>4, <1>5, <1>7, <1>8

\* Where HEAD stays, the history stays.
LEMMA SameHead ==
    ASSUME LogInv, Longer(log, log'), NEW n \in Worker \cup {Leader}, head'[n] = head[n]
    PROVE  /\ Holding(log', head'[n]) = Holding(log, head[n])
           /\ head[n] \in log'[head'[n]].past
<1>1. head[n] \in 1..Len(log) /\ log \in Seq(Entry) /\ Sound(log)
  BY DEF LogInv
<1>2. log'[head[n]] = log[head[n]] /\ Holding(log', head[n]) = Holding(log, head[n])
  BY <1>1, LongerHolds
<1> QED
  BY <1>1, <1>2 DEF Sound

\* Where HEAD moves to a commit that has the old one in its past, the changes stay.
LEMMA HeadForward ==
    ASSUME LogInv, Longer(log, log'), NEW n \in Worker \cup {Leader},
           head'[n] \in 1..Len(log'), head[n] \in log'[head'[n]].past
    PROVE  Holding(log, head[n]) \subseteq Holding(log', head'[n])
<1>1. head[n] \in 1..Len(log) /\ log \in Seq(Entry) /\ Sound(log)
  BY DEF LogInv
<1>2. Holding(log', head[n]) = Holding(log, head[n])
  BY <1>1, LongerHolds
<1>3. Sound(log')
  BY DEF Longer
<1> QED
  BY <1>2, <1>3, HoldsMore

LEMMA QuietKeeps ==
    ASSUME LogInv, UNCHANGED <<log, head, dirty>>
    PROVE  Keeps
<1>1. Longer(log, log')
  BY LongerItself DEF LogInv
<1>2. \A n \in Worker \cup {Leader} : /\ Holding(log', head'[n]) = Holding(log, head[n])
                                      /\ head[n] \in log'[head'[n]].past
  BY <1>1, SameHead
<1> QED
  BY <1>1, <1>2 DEF Keeps, LogInv, Has, HasNext

\* The leader's HEAD moves forward, the worktrees stay.
LEMMA LeaderKeeps ==
    ASSUME LogInv, NEW P, P \subseteq 1..Len(log), head[Leader] \in P,
           NEW changes, changes \subseteq Change,
           CommitTo(Leader, P, changes), UNCHANGED dirty
    PROVE  Keeps
<1>1. Leader \in Worker \cup {Leader} /\ Leader \notin Worker
  BY IntegrationAssumption
<1>2. /\ Longer(log, log')
      /\ head' \in [Worker \cup {Leader} -> 1..Len(log')]
      /\ \A m \in Worker \cup {Leader} : m # Leader => head'[m] = head[m]
      /\ head[Leader] \in log'[head'[Leader]].past
  BY <1>1, Commit
<1>3. \A w \in Worker : /\ Holding(log', head'[w]) = Holding(log, head[w])
                        /\ head[w] \in log'[head'[w]].past
  <2> SUFFICES ASSUME NEW w \in Worker
               PROVE  /\ Holding(log', head'[w]) = Holding(log, head[w])
                      /\ head[w] \in log'[head'[w]].past
    OBVIOUS
  <2>1. w \in Worker \cup {Leader} /\ head'[w] = head[w]
    BY <1>1, <1>2
  <2> QED
    BY <1>2, <2>1, SameHead
<1> QED
  BY <1>2, <1>3 DEF Keeps, LogInv, Has, HasNext

LEMMA CommitAllKeeps ==
    ASSUME LogInv, NEW w \in Worker, CommitAll(w)
    PROVE  Keeps
<1>1. Leader \notin Worker /\ w \in Worker \cup {Leader}
  BY IntegrationAssumption
<1> DEFINE P == {head[w]}
<1>2. /\ P \subseteq 1..Len(log)
      /\ head[w] \in P
      /\ dirty[w] \subseteq Change
      /\ CommitTo(w, P, dirty[w])
  BY DEF LogInv, CommitAll
<1>p. \A p \in P : p = head[w]
  OBVIOUS
<1> HIDE DEF P
<1>3. /\ Longer(log, log')
      /\ head' \in [Worker \cup {Leader} -> 1..Len(log')]
      /\ \A m \in Worker \cup {Leader} : m # w => head'[m] = head[m]
      /\ head'[w] \in 1..Len(log')
      /\ head[w] \in log'[head'[w]].past
      /\ ChildOf(log, P, dirty[w], log', head'[w])
  BY <1>1, <1>2, Commit
<1>4. Holding(log, head[w]) \subseteq Holding(log', head'[w])
  BY <1>1, <1>3, HeadForward
<1>5. \A m \in (Worker \cup {Leader}) \ {w} :
        Holding(log', head'[m]) = Holding(log, head[m]) /\ head[m] \in log'[head'[m]].past
  BY <1>3, SameHead
<1>6. /\ dirty' \in [Worker -> SUBSET Change]
      /\ dirty'[w] = {}
      /\ \A m \in Worker : m # w => dirty'[m] = dirty[m]
  BY DEF LogInv, CommitAll
<1>7. head[Leader] \in log'[head'[Leader]].past
  BY <1>1, <1>5
<1>8. ASSUME NEW m \in Worker
      PROVE  /\ head[m] \in log'[head'[m]].past
             /\ Has(m) \subseteq HasNext(m)
             /\ HasNext(m) \subseteq Has(m)
  <2>1. CASE m = w
    BY <2>1, <1>3, <1>4, <1>6, <1>p DEF Has, HasNext, ChildOf
  <2>2. CASE m # w
    BY <2>2, <1>5, <1>6 DEF Has, HasNext
  <2> QED
    BY <2>1, <2>2
<1> QED
  BY <1>3, <1>6, <1>7, <1>8 DEF Keeps

\* shutdownTeam on one worktree: what it has committed is merged, or it is reported.
LEMMA CheckpointKeeps ==
    ASSUME LogInv, NEW w \in Worker, NEW U \in SUBSET dirty[w], NEW refused,
           MergeCheckpoint(w, U, refused),
           dirty' = [dirty EXCEPT ![w] = @ \ U]
    PROVE  /\ Keeps
           /\ HasNext(w) = Has(w)
           /\ \/ U \cup Holding(log, head[w]) \subseteq Holding(log', head'[Leader])
              \/ reported' = reported \cup ((U \cup Holding(log, head[w])) \ Landed)
<1> DEFINE source == IF U = {} THEN head[w] ELSE New
           logged == IF U = {} THEN log
                     ELSE Append(log, Child({head[w]}, U))
           given  == U \cup Holding(log, head[w])
           merge  == Len(logged) + 1
           e      == [what |-> {}, past |-> logged[source].past
                                     \cup Past(head[Leader]) \cup {merge}]
<1>1. /\ Leader \notin Worker /\ w # Leader
      /\ log \in Seq(Entry) /\ Sound(log) /\ Len(log) \in Nat
      /\ head[w] \in 1..Len(log) /\ head[Leader] \in 1..Len(log)
      /\ dirty[w] \subseteq Change /\ U \subseteq Change
  BY IntegrationAssumption DEF LogInv
<1>2. \/ /\ source \notin Past(head[Leader])
         /\ log' = Append(logged, e)
         /\ head' = [head EXCEPT ![w] = source, ![Leader] = merge]
      \/ /\ source \in Past(head[Leader])
         /\ UNCHANGED <<log, head>>
      \/ /\ source \notin Past(head[Leader])
         /\ log' = logged
         /\ head' = [head EXCEPT ![w] = source]
         /\ reported' = reported \cup (given \ Landed)
  BY DEF MergeCheckpoint, Holds, Holding, Past
<1>3. /\ logged \in Seq(Entry) /\ Sound(logged) /\ Len(logged) \in Nat
      /\ Longer(log, logged)
      /\ source \in 1..Len(logged)
      /\ head[w] \in logged[source].past
      /\ Holding(logged, source) = given
  <2>1. CASE U = {}
    <3>1. logged = log /\ source = head[w]
      BY <2>1
    <3>2. Longer(log, log) /\ head[w] \in log[head[w]].past
      BY <1>1, LongerItself DEF Sound
    <3>3. given = Holding(log, head[w])
      BY <2>1
    <3> QED
      BY <1>1, <3>1, <3>2, <3>3
  <2>2. CASE U # {}
    <3> DEFINE c == Child({head[w]}, U)
               P == {head[w]}
    <3>1. logged = Append(log, c) /\ source = Len(log) + 1
      BY <2>2 DEF New
    <3>2. IsChild(log, P, U, c)
      BY <1>1 DEF IsChild, Child, Past, New
    <3>3. \A p \in P : p = head[w] /\ head[w] \in P
      OBVIOUS
    <3>4. head[w] \in P
      OBVIOUS
    <3> HIDE DEF c, P
    <3>5. /\ Longer(log, logged)
          /\ Len(logged) = Len(log) + 1
          /\ ChildOf(log, P, U, logged, Len(log) + 1)
      BY <1>1, <3>1, <3>2, ChildLonger
    <3> HIDE DEF logged, source
    <3>6. logged \in Seq(Entry) /\ Sound(logged) /\ source \in 1..Len(logged)
      BY <1>1, <3>1, <3>5 DEF Longer
    <3>7. head[w] \in logged[source].past
      BY <3>1, <3>4, <3>5 DEF ChildOf
    <3>8. Holding(log, head[w]) = Holding(logged, head[w])
      BY <1>1, <3>5, LongerHolds
    <3>9. Holding(logged, head[w]) \subseteq Holding(logged, source)
      BY <3>6, <3>7, HoldsMore
    <3>10. Holding(logged, source) = given
      BY <3>1, <3>3, <3>5, <3>8, <3>9 DEF ChildOf
    <3> QED
      BY <1>1, <3>5, <3>6, <3>7, <3>10
  <2> QED
    BY <2>1, <2>2
<1> HIDE DEF logged
<1>4. /\ dirty' \in [Worker -> SUBSET Change]
      /\ dirty'[w] = dirty[w] \ U
      /\ \A m \in Worker : m # w => dirty'[m] = dirty[m]
  BY DEF LogInv
<1>h. Has(w) = (dirty[w] \ U) \cup given
  BY DEF Has
<1>5. Len(log) <= Len(logged) /\ 1..Len(log) \subseteq 1..Len(logged)
  BY <1>1, <1>3 DEF Longer
<1>6. CASE /\ source \notin Past(head[Leader])
           /\ log' = Append(logged, e)
           /\ head' = [head EXCEPT ![w] = source, ![Leader] = merge]
  <2> DEFINE P == {source, head[Leader]}
  <2>1. IsChild(logged, P, {}, e)
    <3>1. logged[head[Leader]] = log[head[Leader]]
      BY <1>1, <1>3 DEF Longer
    <3>2. P \subseteq 1..Len(logged)
      BY <1>1, <1>3, <1>5
    <3>3. UNION {logged[c].past : c \in P} = logged[source].past \cup Past(head[Leader])
      BY <3>1 DEF Past
    <3> QED
      BY <3>2, <3>3 DEF IsChild
  <2>2. source \in P /\ head[Leader] \in P
    OBVIOUS
  <2> HIDE DEF P, e, source
  <2>3. /\ Longer(logged, log')
        /\ Len(log') = merge
        /\ ChildOf(logged, P, {}, log', merge)
    BY <1>3, <1>6, <2>1, ChildLonger
  <2>4. Longer(log, log')
    BY <1>1, <1>3, <2>3, LongerTwice
  <2>5. head'[w] = source /\ head'[Leader] = merge
    BY <1>1, <1>6 DEF LogInv
  <2>6. head' \in [Worker \cup {Leader} -> 1..Len(log')]
    <3>1. 1..Len(log) \subseteq 1..Len(log') /\ source \in 1..Len(log') /\ merge \in 1..Len(log')
      BY <1>3, <1>5, <2>3
    <3> QED
      BY <3>1, <1>6 DEF LogInv
  <2>7. /\ source \in log'[merge].past
        /\ head[Leader] \in log'[head'[Leader]].past
    BY <2>2, <2>3, <2>5 DEF ChildOf
  <2>8. Holding(log', source) = given /\ log'[source] = logged[source]
    BY <1>3, <2>3, LongerHolds
  <2>9. Holding(log', source) \subseteq Holding(log', merge)
    <3>1. Sound(log') /\ merge \in 1..Len(log')
      BY <1>3, <2>3 DEF Longer
    <3> QED
      BY <2>7, <3>1, HoldsMore
  <2>10. /\ HasNext(w) = Has(w)
         /\ given \subseteq Holding(log', head'[Leader])
         /\ head[w] \in log'[head'[w]].past
    BY <1>3, <1>4, <1>h, <2>5, <2>8, <2>9 DEF HasNext
  <2>11. ASSUME NEW m \in Worker, m # w
         PROVE  HasNext(m) = Has(m) /\ head[m] \in log'[head'[m]].past
    <3>1. head'[m] = head[m] /\ m \in Worker \cup {Leader}
      BY <1>1, <1>6, <2>11 DEF LogInv
    <3> QED
      BY <1>4, <2>4, <2>11, <3>1, SameHead DEF HasNext, Has
  <2> QED
    BY <1>4, <2>4, <2>6, <2>7, <2>10, <2>11 DEF Keeps
<1>7. CASE source \in Past(head[Leader]) /\ UNCHANGED <<log, head>>
  <2>1. source \in 1..Len(log)
    BY <1>1, <1>7 DEF Past, Sound
  <2>2. U = {} /\ source = head[w]
    BY <1>1, <2>1 DEF New
  <2>3. dirty' = dirty
    BY <2>2 DEF LogInv
  <2>4. Keeps
    BY <1>7, <2>3, QuietKeeps
  <2>5. Holding(log, head[w]) \subseteq Holding(log, head[Leader])
    BY <1>1, <1>7, <2>2, HoldsMore DEF Past
  <2> QED
    BY <1>7, <2>2, <2>3, <2>4, <2>5 DEF HasNext, Has
<1>8. CASE /\ log' = logged
           /\ head' = [head EXCEPT ![w] = source]
           /\ reported' = reported \cup (given \ Landed)
  <2> HIDE DEF source
  <2>1. Longer(log, log') /\ head'[w] = source /\ head'[Leader] = head[Leader]
    BY <1>1, <1>3, <1>8 DEF LogInv
  <2>2. head' \in [Worker \cup {Leader} -> 1..Len(log')]
    BY <1>3, <1>5, <1>8 DEF LogInv
  <2>3. head[Leader] \in log'[head'[Leader]].past
    BY <2>1, SameHead
  <2>4. HasNext(w) = Has(w) /\ head[w] \in log'[head'[w]].past
    BY <1>3, <1>4, <1>h, <1>8, <2>1 DEF HasNext
  <2>5. ASSUME NEW m \in Worker, m # w
        PROVE  HasNext(m) = Has(m) /\ head[m] \in log'[head'[m]].past
    <3>1. head'[m] = head[m] /\ m \in Worker \cup {Leader}
      BY <1>8, <2>5 DEF LogInv
    <3> QED
      BY <1>4, <2>1, <2>5, <3>1, SameHead DEF HasNext, Has
  <2> QED
    BY <1>4, <1>8, <2>1, <2>2, <2>3, <2>4, <2>5 DEF Keeps
<1> QED
  BY <1>2, <1>6, <1>7, <1>8

\* What shutdownTeam does to the record of losses.
LEMMA ReportParts ==
    ASSUME NEW w \in Worker, ShutdownReport(w)
    PROVE  /\ worktrees' = worktrees
           /\ reported \subseteq reported' /\ untold \subseteq untold'
           /\ reported' \cup untold' \subseteq
                reported \cup untold \cup dirty[w] \cup Holds(head[w])
<1>1. ASSUME NEW refused, Checkpoint(w, refused)
      PROVE  /\ worktrees' = worktrees
             /\ reported \subseteq reported' /\ untold \subseteq untold'
             /\ reported' \cup untold' \subseteq
                  reported \cup untold \cup dirty[w] \cup Holds(head[w])
  <2> DEFINE U == IF "status" \in refused THEN {} ELSE dirty[w]
  <2>1. U \subseteq dirty[w] /\ MergeCheckpoint(w, U, "merge" \in refused)
        /\ untold' = untold \cup (dirty[w] \ U) /\ worktrees' = worktrees
    BY <1>1 DEF Checkpoint
  <2> HIDE DEF U
  <2>2. reported' = reported \/ reported' = reported \cup ((U \cup Holds(head[w])) \ Landed)
    BY <2>1 DEF MergeCheckpoint
  <2> QED
    BY <2>1, <2>2
<1>2. InWorktree(w) \subseteq dirty[w] \cup Holds(head[w])
  BY DEF InWorktree
<1> QED
  BY <1>1, <1>2 DEF ShutdownReport, CheckpointFails, repo

LEMMA ReportKeeps ==
    ASSUME LogInv, NEW w \in Worker, ShutdownReport(w)
    PROVE  Keeps
<1>1. ASSUME NEW refused, Checkpoint(w, refused)
      PROVE  Keeps
  <2> DEFINE U == IF "status" \in refused THEN {} ELSE dirty[w]
             r == "merge" \in refused
  <2>1. /\ U \in SUBSET dirty[w] /\ MergeCheckpoint(w, U, r)
        /\ dirty' = [dirty EXCEPT ![w] = @ \ U]
    BY <1>1 DEF Checkpoint
  <2> HIDE DEF U, r
  <2> QED
    BY <2>1, CheckpointKeeps
<1> QED
  BY <1>1, QuietKeeps DEF ShutdownReport, CheckpointFails, repo

LEMMA EditKeeps ==
    ASSUME LogInv, NEW w \in Worker, Edit(w)
    PROVE  Keeps
<1>1. Longer(log, log') /\ log' = log /\ head' = head
  BY LongerItself DEF Edit, LogInv
<1>2. \A n \in Worker \cup {Leader} : /\ Holding(log', head'[n]) = Holding(log, head[n])
                                      /\ head[n] \in log'[head'[n]].past
  BY <1>1, SameHead
<1>3. NewChange(w) \in Change
  <2>1. Cardinality(made) \in Nat
    BY FS_CardinalityType DEF LogInv
  <2>2. Cardinality(made) + 1 \in 1..MaxChanges
    BY <2>1, IntegrationAssumption DEF Edit, Makes
  <2> QED
    BY <2>2 DEF Change, NewChange
<1>4. /\ dirty' \in [Worker -> SUBSET Change]
      /\ dirty[w] \subseteq dirty'[w]
      /\ \A m \in Worker : m # w => dirty'[m] = dirty[m]
  BY <1>3 DEF Edit, LogInv
<1>5. w \in alive
  BY DEF Edit
<1> QED
  BY <1>1, <1>2, <1>4, <1>5 DEF Keeps, LogInv, Has, HasNext

LEMMA CrossRebaseKeeps ==
    ASSUME LogInv, UponInv, NEW w \in Worker, CrossRebase(w)
    PROVE  Keeps
<1>1. upon \in Past(head[Leader]) /\ upon \in 1..Len(log) /\ poll = "rebase"
      /\ Leader \notin Worker
  BY IntegrationAssumption DEF CrossRebase, UponInv, LogInv, Past, Sound
<1>2. CASE UNCHANGED <<log, head, dirty>>
  BY <1>2, QuietKeeps
<1>3. ASSUME NEW dropped, Rebase(w, dropped), UNCHANGED dirty, dropped \subseteq overruled'
      PROVE  Keeps
  <2>1. /\ Longer(log, log')
        /\ head' \in [Worker \cup {Leader} -> 1..Len(log')]
        /\ \A n \in Worker \cup {Leader} : n # w => head'[n] = head[n]
        /\ Holding(log, head[w]) \subseteq Holding(log', head'[w]) \cup dropped
        /\ Holding(log', head'[w]) \subseteq Holding(log, head[w]) \cup Holding(log, upon)
    BY <1>1, <1>3, RebaseKeeps
  <2>2. \A n \in Worker \cup {Leader} : n # w =>
           /\ Holding(log', head'[n]) = Holding(log, head[n])
           /\ head[n] \in log'[head'[n]].past
    BY <2>1, SameHead
  <2>3. Holding(log, upon) \subseteq Holding(log, head[Leader])
    BY <1>1, HoldsMore DEF LogInv, Past
  <2>4. Holding(log', head'[Leader]) = Holding(log, head[Leader])
        /\ head[Leader] \in log'[head'[Leader]].past
    BY <1>1, <2>2
  <2> QED
    BY <1>1, <1>3, <2>1, <2>2, <2>3, <2>4 DEF Keeps, LogInv, Has, HasNext
<1>4. \/ UNCHANGED <<log, head, dirty>>
      \/ \E dropped : Rebase(w, dropped) /\ UNCHANGED dirty /\ dropped \subseteq overruled'
  <2>1. CASE Rebase(w, {}) /\ UNCHANGED dirty
    BY <2>1
  <2>2. CASE \E c \in Past(head[w]) \ Past(upon) :
                LET dropped == log[c].what \ Holds(upon) IN
                /\ dropped # {}
                /\ Fault
                /\ Rebase(w, dropped)
                /\ overruled' = overruled \cup dropped
                /\ UNCHANGED dirty
    BY <2>2
  <2> QED
    BY <2>1, <2>2 DEF CrossRebase, repo
<1> QED
  BY <1>2, <1>3, <1>4

LEMMA LeaderCommitsKeeps ==
    ASSUME LogInv, LeaderCommits
    PROVE  Keeps
<1>1. NewChange(Leader) \in Change
  <2>1. Cardinality(made) \in Nat
    BY FS_CardinalityType DEF LogInv
  <2>2. Cardinality(made) + 1 \in 1..MaxChanges
    BY <2>1, IntegrationAssumption DEF LeaderCommits, Makes
  <2> QED
    BY <2>2 DEF Change, NewChange
<1> DEFINE P == {head[Leader]}
           changes == {NewChange(Leader)}
<1>2. P \subseteq 1..Len(log) /\ head[Leader] \in P /\ changes \subseteq Change
      /\ CommitTo(Leader, P, changes) /\ UNCHANGED dirty
  BY <1>1 DEF LogInv, LeaderCommits
<1> HIDE DEF P, changes
<1> QED
  BY <1>2, LeaderKeeps

LEMMA MergeKeeps ==
    ASSUME LogInv, TakeInv, Merge
    PROVE  Keeps
<1>1. MergeSource \in 1..Len(log)
  BY DEF LogInv, TakeInv, Merge, MergeSource
<1> DEFINE P == {head[Leader], MergeSource}
<1>2. P \subseteq 1..Len(log) /\ head[Leader] \in P
  BY <1>1 DEF LogInv
<1>3. \/ UNCHANGED <<log, head, dirty>>
      \/ CommitTo(Leader, P, {}) /\ UNCHANGED dirty
  BY DEF Merge, MergeInto
<1>4. CASE UNCHANGED <<log, head, dirty>>
  BY <1>4, QuietKeeps
<1>5. CASE CommitTo(Leader, P, {}) /\ UNCHANGED dirty
  <2> DEFINE none == {}
  <2>1. CommitTo(Leader, P, none) /\ none \subseteq Change
    BY <1>5
  <2> HIDE DEF P, none
  <2> QED
    BY <1>2, <1>5, <2>1, LeaderKeeps
<1> QED
  BY <1>3, <1>4, <1>5

LEMMA PickKeeps ==
    ASSUME LogInv, TakeInv, NEW c \in queue, Pick(c)
    PROVE  Keeps
<1>1. c \in 1..Len(log)
  <2>1. seen \in 1..Len(log) /\ c \in Past(seen)
    BY DEF LogInv, TakeInv, Pick, Past, Sound
  <2> QED
    BY <2>1 DEF LogInv, Past, Sound
<1> DEFINE P == {head[Leader]}
           changes == log[c].what \ Landed
<1>2. P \subseteq 1..Len(log) /\ head[Leader] \in P /\ changes \subseteq Change
  <2>1. log[c] \in Entry
    BY <1>1 DEF LogInv
  <2>2. changes \subseteq Change
    BY <2>1 DEF Entry
  <2> QED
    BY <2>2 DEF LogInv
<1>3. \/ UNCHANGED <<log, head, dirty>>
      \/ CommitTo(Leader, P, changes) /\ UNCHANGED dirty
  BY DEF Pick
<1> HIDE DEF P, changes
<1> QED
  BY <1>2, <1>3, LeaderKeeps, QuietKeeps


\* Every step keeps, and the log stays a log.
LEMMA RepoSteps ==
    ASSUME LogInv, UponInv, TakeInv, [GitNext]_gitVars
    PROVE  Keeps
<1>1. CASE UNCHANGED gitVars
  BY <1>1, QuietKeeps DEF gitVars, repo
<1>2. CASE LeaderCommits
  BY <1>2, LeaderCommitsKeeps
<1>3. CASE PollBegins \/ CompareHeads \/ SaveRecord \/ PollDies
  BY <1>3, QuietKeeps DEF PollBegins, CompareHeads, SaveRecord, PollDies, repo
<1>4. CASE Merge
  BY <1>4, MergeKeeps
<1>5. ASSUME NEW w \in Worker, AutoCommit(w) PROVE Keeps
  BY <1>5, CommitAllKeeps, QuietKeeps DEF AutoCommit, repo
<1>6. ASSUME NEW w \in Worker, Look(w) PROVE Keeps
  BY <1>6, QuietKeeps DEF Look, repo
<1>7. ASSUME NEW w \in Worker, CrossRebase(w) PROVE Keeps
  BY <1>7, CrossRebaseKeeps
<1>8. ASSUME NEW c \in queue, Pick(c) PROVE Keeps
  BY <1>8, PickKeeps
<1>9. CASE ShutdownBegins \/ ShutdownRefused \/ KillWorkers \/ CleanUp
  BY <1>9, QuietKeeps DEF ShutdownBegins, ShutdownRefused, KillWorkers, CleanUp, repo
<1>10. ASSUME NEW w \in Worker, ShutdownReport(w) PROVE Keeps
  BY <1>10, ReportKeeps
<1>11. ASSUME NEW w \in Worker, ScaleDown(w) PROVE Keeps
  BY <1>11, QuietKeeps DEF ScaleDown
<1>14. ASSUME NEW w \in Worker, ScaleDownFails(w) PROVE Keeps
  BY <1>14, QuietKeeps DEF ScaleDownFails, repo
<1>12. ASSUME NEW w \in Worker, Edit(w) PROVE Keeps
  BY <1>12, EditKeeps
<1>13. ASSUME NEW w \in Worker, WorkerCommits(w) PROVE Keeps
  BY <1>13, CommitAllKeeps DEF WorkerCommits
<1> QED
  BY <1>1, <1>2, <1>3, <1>4, <1>5, <1>6, <1>7, <1>8, <1>9, <1>10, <1>11, <1>12, <1>13,
     <1>14
  DEF GitNext, PollStep, EndStep, WorkerStep

\* The changes there are grow by one of the maker's.
LEMMA MadeSteps ==
    ASSUME LogInv, [GitNext]_gitVars
    PROVE  \/ UNCHANGED made
           \/ LeaderCommits
           \/ \E w \in Worker : Edit(w)
BY DEF GitNext, gitVars, team, PollStep, EndStep, WorkerStep, PollBegins, Merge, CompareHeads,
       SaveRecord, PollDies, AutoCommit, Look, CrossRebase, Pick, ShutdownBegins,
       ShutdownRefused, KillWorkers, CleanUp, ShutdownReport, ScaleDown, ScaleDownFails,
       WorkerCommits

LEMMA LogStep ==
    ASSUME LogInv, Keeps, [GitNext]_gitVars
    PROVE  LogInv'
<1>1. /\ log' \in Seq(Entry)
      /\ Sound(log')
      /\ head' \in [Worker \cup {Leader} -> 1..Len(log')]
      /\ dirty' \in [Worker -> SUBSET Change]
  BY DEF Keeps, Longer
<1>2. ASSUME NEW n \in Worker \cup {Leader}, Makes(n)
      PROVE  made' \subseteq Change /\ IsFiniteSet(made')
  <2>1. Cardinality(made) \in Nat
    BY FS_CardinalityType DEF LogInv
  <2>2. Cardinality(made) + 1 \in 1..MaxChanges
    BY <1>2, <2>1, IntegrationAssumption DEF Makes
  <2>3. NewChange(n) \in Change
    BY <2>2 DEF Change, NewChange
  <2>4. IsFiniteSet(made \cup {NewChange(n)})
    BY FS_AddElement DEF LogInv
  <2> QED
    BY <1>2, <2>3, <2>4 DEF Makes, LogInv
<1>3. made' \subseteq Change /\ IsFiniteSet(made')
  <2>1. CASE UNCHANGED made
    BY <2>1 DEF LogInv
  <2>2. CASE LeaderCommits
    BY <2>2, <1>2 DEF LeaderCommits
  <2>3. ASSUME NEW w \in Worker, Edit(w)
        PROVE  made' \subseteq Change /\ IsFiniteSet(made')
    BY <2>3, <1>2 DEF Edit
  <2> QED
    BY <2>1, <2>2, <2>3, MadeSteps
<1> QED
  BY <1>1, <1>3 DEF LogInv

\* What was in the past of a HEAD stays there when it goes forward.
LEMMA PastGrows ==
    ASSUME LogInv, Keeps, NEW n \in Worker \cup {Leader},
           head[n] \in log'[head'[n]].past, NEW d \in Past(head[n])
    PROVE  /\ d \in 1..Len(log)
           /\ d \in log'[head'[n]].past
           /\ log'[d] = log[d]
<1>1. /\ head[n] \in 1..Len(log) /\ head'[n] \in 1..Len(log')
      /\ Sound(log) /\ Sound(log') /\ log'[head[n]] = log[head[n]]
      /\ d \in log[head[n]].past
  BY DEF LogInv, Keeps, Longer, Past
<1>2. d \in 1..Len(log)
  BY <1>1 DEF Sound
<1>3. log'[head[n]].past \subseteq log'[head'[n]].past
  BY <1>1 DEF Sound
<1> QED
  BY <1>1, <1>2, <1>3 DEF Keeps, Longer

LEMMA UponStep ==
    ASSUME LogInv, UponInv, Keeps, [GitNext]_gitVars
    PROVE  UponInv'
<1>1. \/ poll' # "rebase"
      \/ poll' = poll /\ upon' = upon
      \/ upon' = head[Leader] /\ head' = head /\ log' = log
  BY DEF GitNext, gitVars, monitor, repo, PollStep, EndStep, WorkerStep, PollBegins, Merge,
         Taken, CompareHeads, SaveRecord, PollDies, PollEnds, AutoCommit, Visited, Look,
         CrossRebase, Pick, Queued, ShutdownBegins, ShutdownRefused, KillWorkers, CleanUp,
         ShutdownReport, ScaleDown, ScaleDownFails, WorkerCommits, Edit, LeaderCommits
<1>2. ASSUME poll' = "rebase"
      PROVE  upon' \in log'[head'[Leader]].past
  <2>1. CASE poll' = poll /\ upon' = upon
    BY <1>2, <2>1, PastGrows DEF UponInv, Keeps
  <2>2. CASE upon' = head[Leader] /\ head' = head /\ log' = log
    BY <2>2 DEF LogInv, Sound
  <2> QED
    BY <1>1, <1>2, <2>1, <2>2
<1> QED
  BY <1>2 DEF UponInv, Past

LEMMA TakeStep ==
    ASSUME LogInv, TakeInv, Keeps, [GitNext]_gitVars
    PROVE  TakeInv'
<1>1. \/ poll' \notin {"merge", "pick"}
      \/ poll' = poll /\ taking' = taking /\ seen' = seen /\ queue' \subseteq queue
      \/ \E w \in Worker : /\ taking' = w /\ seen' = head[w] /\ head' = head /\ log' = log
                           /\ queue' \subseteq Past(head[w])
  <2>1. ASSUME NEW w \in Worker, Look(w)
        PROVE  \/ poll' \notin {"merge", "pick"}
               \/ /\ taking' = w /\ seen' = head[w] /\ head' = head /\ log' = log
                  /\ queue' \subseteq Past(head[w])
    BY <2>1 DEF Look, Visited, repo, Unpicked
  <2>2. ASSUME NEW c \in queue, Pick(c)
        PROVE  \/ poll' \notin {"merge", "pick"}
               \/ poll' = poll /\ taking' = taking /\ seen' = seen /\ queue' \subseteq queue
    BY <2>2 DEF Pick, Taken, Queued
  <2>3. CASE Merge
    BY <2>3 DEF Merge, Taken
  <2> QED
    BY <2>1, <2>2, <2>3
    DEF GitNext, gitVars, monitor, PollStep, EndStep, WorkerStep, PollBegins,
        CompareHeads, SaveRecord, PollDies, PollEnds, AutoCommit, Visited, 
        CrossRebase, ShutdownBegins, ShutdownRefused, KillWorkers, CleanUp,
        ShutdownReport, ScaleDown, ScaleDownFails, WorkerCommits, Edit, LeaderCommits
<1>2. ASSUME poll' \in {"merge", "pick"}
      PROVE  /\ taking' \in Worker
             /\ seen' \in log'[head'[taking']].past
             /\ queue' \subseteq log'[seen'].past
  <2>1. CASE poll' = poll /\ taking' = taking /\ seen' = seen /\ queue' \subseteq queue
    <3>1. taking \in Worker /\ seen \in Past(head[taking]) /\ queue \subseteq Past(seen)
      BY <1>2, <2>1 DEF TakeInv
    <3>2. head[taking] \in log'[head'[taking]].past
      BY <1>2, <2>1, <3>1 DEF Keeps
    <3>3. seen \in log'[head'[taking]].past /\ log'[seen] = log[seen]
      BY <3>1, <3>2, PastGrows
    <3> QED
      BY <2>1, <3>1, <3>3 DEF Past
  <2>2. CASE \E w \in Worker : /\ taking' = w /\ seen' = head[w] /\ head' = head /\ log' = log
                               /\ queue' \subseteq Past(head[w])
    BY <2>2 DEF LogInv, Sound, Past
  <2> QED
    BY <1>1, <1>2, <2>1, <2>2
<1> QED
  BY <1>2 DEF TakeInv, Past


-----------------------------------------------------------------------------
(* No work is lost unrecorded *)

Lost == overruled \cup reported \cup untold \cup drained

\* A worker shutdownTeam has killed adds nothing, and what is in a worktree it has
\* reported on has landed or is lost on record.
ShutInv ==
    /\ shut = "asked" => members \subseteq closing
    /\ shut = "report" =>
         /\ members \cap alive = {}
         /\ \A w \in members \ closing : InWorktree(w) \subseteq Landed \cup Lost

WorkInv ==
    /\ LogInv
    /\ UponInv
    /\ TakeInv
    /\ members \subseteq Worker
    /\ ShutInv
    /\ WorkIsKept

LEMMA WorkInit ==
    ASSUME GitInit
    PROVE  WorkInv
<1>1. log = <<[what |-> {}, past |-> {1}]>> /\ Len(log) = 1
  BY DEF GitInit
<1>2. log[1].what = {} /\ log[1].past = {1} /\ 1..Len(log) = {1}
  BY <1>1
<1>3. [what |-> {}, past |-> {1}] \in Entry
  BY DEF Entry
<1>4. log \in Seq(Entry)
  BY <1>1, <1>3
<1>5. Sound(log)
  BY <1>2 DEF Sound
<1>6. IsFiniteSet({})
  BY FS_EmptySet
<1>7. LogInv
  BY <1>2, <1>4, <1>5, <1>6 DEF LogInv, GitInit
<1>8. WorkIsKept
  BY DEF GitInit, WorkIsKept, MadeBy
<1> QED
  BY <1>7, <1>8 DEF WorkInv, GitInit, UponInv, TakeInv, ShutInv

LandedNext == Holding(log', head'[Leader])

LEMMA LandedGrows ==
    ASSUME LogInv, Keeps
    PROVE  /\ Landed = Holding(log, head[Leader])
           /\ Landed' = LandedNext
           /\ Landed \subseteq LandedNext
<1>1. Landed = Holding(log, head[Leader]) /\ Landed' = LandedNext
  BY DEF Landed, Holds, Holding, Past, LandedNext
<1>2. Holding(log, head[Leader]) \subseteq Holding(log', head'[Leader])
  BY HeadForward DEF Keeps
<1> QED
  BY <1>1, <1>2 DEF LandedNext

\* Worktrees only go, and the losses only grow.
LEMMA LossSteps ==
    ASSUME [GitNext]_gitVars
    PROVE  /\ worktrees' \subseteq worktrees
           /\ alive' \subseteq alive
           /\ members' \subseteq members
           /\ overruled \subseteq overruled'
           /\ reported \subseteq reported' /\ untold \subseteq untold'
           /\ drained \subseteq drained'
<1>1. ASSUME NEW w \in Worker, ShutdownReport(w)
      PROVE  /\ worktrees' = worktrees /\ alive' = alive /\ members' = members
             /\ overruled' = overruled /\ drained' = drained
             /\ reported \subseteq reported' /\ untold \subseteq untold'
  BY <1>1, ReportParts DEF ShutdownReport, team
<1> QED
  BY <1>1
  DEF GitNext, gitVars, team, repo, losses, PollStep, EndStep, WorkerStep, PollBegins, Merge,
      CompareHeads, SaveRecord, PollDies, AutoCommit, CommitAll, Look, CrossRebase, Pick,
      ShutdownBegins, ShutdownRefused, KillWorkers, CleanUp, ScaleDown, ScaleDownFails,
      WorkerCommits, Edit, LeaderCommits

LEMMA Trees ==
    \A w : /\ InWorktree(w) = IF w \in worktrees THEN Has(w) ELSE {}
           /\ InWorktree(w)' = IF w \in worktrees' THEN HasNext(w) ELSE {}
BY DEF InWorktree, Has, HasNext, Holds, Holding, Past

\* What is on the record of losses, on the leader's branch or in a worktree that stays
\* is still so after a step.
LEMMA StaysKept ==
    ASSUME LogInv, Keeps, [GitNext]_gitVars, NEW w \in Worker,
           w \notin worktrees \/ w \in worktrees'
    PROVE  InWorktree(w) \cup Landed \cup Lost \subseteq (InWorktree(w) \cup Landed \cup Lost)'
<1>1. Landed \subseteq Landed'
  BY LandedGrows
<1>2. Lost \subseteq Lost' /\ overruled' \subseteq Lost'
  BY LossSteps DEF Lost
<1>3. InWorktree(w) \subseteq InWorktree(w)' \cup overruled'
  BY Trees DEF Keeps
<1> QED
  BY <1>1, <1>2, <1>3


LEMMA ReportStep ==
    ASSUME WorkInv, Keeps, [GitNext]_gitVars, NEW v \in Worker, ShutdownReport(v),
           v \in members
    PROVE  InWorktree(v)' \subseteq Landed' \cup Lost'
<1>1. v \notin alive /\ LogInv
  BY DEF WorkInv, ShutInv, ShutdownReport
<1>2. HasNext(v) \subseteq Has(v) \cup Landed'
  BY <1>1, LandedGrows DEF Keeps, LandedNext
<1>3. Landed \subseteq Landed' /\ LandedNext = Landed'
  BY <1>1, LandedGrows
<1>4. reported' \cup untold' \subseteq Lost'
  BY DEF Lost
<1>5. InWorktree(v)' \subseteq HasNext(v)
  BY Trees
<1>6. CASE v \notin worktrees
  <2>1. v \notin worktrees'
    BY <1>6, LossSteps
  <2> QED
    BY <2>1, Trees
<1>7. CASE v \in worktrees /\ untold' = untold \cup (InWorktree(v) \ Landed)
  <2>1. InWorktree(v) = Has(v)
    BY <1>7, Trees
  <2> QED
    BY <1>2, <1>3, <1>4, <1>5, <1>7, <2>1
<1>8. ASSUME NEW refused, Checkpoint(v, refused)
      PROVE  InWorktree(v)' \subseteq Landed' \cup Lost'
  <2> DEFINE U == IF "status" \in refused THEN {} ELSE dirty[v]
             r == "merge" \in refused
  <2>1. /\ U \in SUBSET dirty[v] /\ MergeCheckpoint(v, U, r)
        /\ dirty' = [dirty EXCEPT ![v] = @ \ U]
        /\ untold' = untold \cup (dirty[v] \ U)
    BY <1>8 DEF Checkpoint
  <2> HIDE DEF U, r
  <2>2. /\ HasNext(v) = Has(v)
        /\ \/ U \cup Holding(log, head[v]) \subseteq LandedNext
           \/ reported' = reported \cup ((U \cup Holding(log, head[v])) \ Landed)
    BY <1>1, <2>1, CheckpointKeeps DEF LandedNext
  <2>3. U \cup Holding(log, head[v]) \subseteq Landed' \cup Lost'
    BY <1>3, <1>4, <2>2
  <2>4. dirty[v] \ U \subseteq Lost'
    BY <1>4, <2>1
  <2> QED
    BY <1>5, <2>2, <2>3, <2>4 DEF Has
<1> QED
  BY <1>6, <1>7, <1>8 DEF ShutdownReport, CheckpointFails

LEMMA ShutStep ==
    ASSUME WorkInv, Keeps, [GitNext]_gitVars
    PROVE  ShutInv'
<1>1. LogInv /\ ShutInv /\ members \subseteq Worker
  BY DEF WorkInv
<1>2. \/ UNCHANGED ending
      \/ ShutdownBegins \/ ShutdownRefused \/ KillWorkers \/ CleanUp
      \/ \E v \in Worker : ShutdownReport(v)
  BY DEF GitNext, gitVars, PollStep, EndStep, WorkerStep, PollBegins, Merge, CompareHeads,
         SaveRecord, PollDies, AutoCommit, Look, CrossRebase, Pick, ScaleDown,
         ScaleDownFails, WorkerCommits, Edit, LeaderCommits
<1>3. members' \subseteq members /\ alive' \subseteq alive
  BY LossSteps
<1>4. ASSUME shut' = "asked" PROVE members' \subseteq closing'
  BY <1>1, <1>2, <1>3, <1>4
  DEF ShutInv, ending, ShutdownBegins, ShutdownRefused, KillWorkers, CleanUp, ShutdownReport
<1>5. ASSUME shut' = "report" PROVE members' \cap alive' = {}
  <2>1. CASE KillWorkers
    BY <1>1, <1>3, <2>1 DEF ShutInv, KillWorkers
  <2>2. CASE shut = "report"
    BY <1>1, <1>3, <2>2 DEF ShutInv
  <2> QED
    BY <1>2, <1>5, <2>1, <2>2
    DEF ending, ShutdownBegins, ShutdownRefused, CleanUp, ShutdownReport
<1>6. ASSUME shut' = "report", NEW w \in members', w \notin closing'
      PROVE  InWorktree(w)' \subseteq Landed' \cup Lost'
  <2>1. w \in members /\ w \in Worker
    BY <1>1, <1>3
  <2>2. CASE shut = "report" /\ w \notin closing
    <3>1. w \notin alive /\ InWorktree(w) \subseteq Landed \cup Lost
      BY <1>1, <2>1, <2>2 DEF ShutInv
    <3>2. Landed \subseteq Landed' /\ LandedNext = Landed' /\ Lost \subseteq Lost'
      BY <1>1, LandedGrows, LossSteps DEF Lost
    <3>3. HasNext(w) \subseteq Has(w) \cup Landed'
      BY <2>1, <3>1, <3>2 DEF Keeps, LandedNext
    <3>4. CASE w \in worktrees'
      <4>1. w \in worktrees
        BY <3>4, LossSteps
      <4>2. InWorktree(w) = Has(w) /\ InWorktree(w)' = HasNext(w)
        BY <3>4, <4>1, Trees
      <4> QED
        BY <3>1, <3>2, <3>3, <4>2
    <3>5. CASE w \notin worktrees'
      BY <3>5, Trees
    <3> QED
      BY <3>4, <3>5
  <2>3. CASE KillWorkers
    BY <1>1, <1>6, <2>1, <2>3 DEF ShutInv, KillWorkers
  <2>4. CASE ShutdownReport(w)
    BY <2>1, <2>4, ReportStep
  <2> QED
    BY <1>2, <1>6, <2>1, <2>2, <2>3, <2>4
    DEF ending, ShutdownBegins, ShutdownRefused, CleanUp, ShutdownReport
<1> QED
  BY <1>4, <1>5, <1>6 DEF ShutInv

LEMMA KeptStep ==
    ASSUME WorkInv, Keeps, [GitNext]_gitVars
    PROVE  WorkIsKept'
<1>1. LogInv /\ ShutInv /\ members \subseteq Worker
      /\ \A w \in Worker : MadeBy(w) \subseteq InWorktree(w) \cup Landed \cup Lost
  BY DEF WorkInv, WorkIsKept, Lost
<1> SUFFICES ASSUME NEW w \in Worker
             PROVE  MadeBy(w)' \subseteq (InWorktree(w) \cup Landed \cup Lost)'
  BY DEF WorkIsKept, Lost
<1>2. Landed \subseteq Landed' /\ Lost \subseteq Lost' /\ drained' \subseteq Lost'
  BY <1>1, LandedGrows, LossSteps DEF Lost
<1>3. InWorktree(w) \cup Landed \cup Lost \subseteq (InWorktree(w) \cup Landed \cup Lost)'
  <2>1. CASE w \notin worktrees \/ w \in worktrees'
    BY <1>1, <2>1, StaysKept
  <2>2. CASE w \in worktrees /\ w \notin worktrees'
    <3>1. \/ drained' = drained \cup (InWorktree(w) \ Landed)
          \/ CleanUp /\ w \in members
      <4>1. ASSUME NEW v \in Worker, ScaleDown(v)
            PROVE  drained' = drained \cup (InWorktree(w) \ Landed)
        BY <2>2, <4>1 DEF ScaleDown
      <4>2. CASE CleanUp
        BY <2>2, <4>2 DEF CleanUp
      <4>3. ASSUME NEW v \in Worker, ShutdownReport(v)
            PROVE  FALSE
        BY <2>2, <4>3, ReportParts
      <4> QED
        BY <2>2, <4>1, <4>2, <4>3
        DEF GitNext, gitVars, repo, PollStep, EndStep, WorkerStep, PollBegins, Merge,
            CompareHeads, SaveRecord, PollDies, AutoCommit, CommitAll, Look, CrossRebase,
            Pick, ShutdownBegins, ShutdownRefused, KillWorkers, ScaleDownFails,
            WorkerCommits, Edit, LeaderCommits
    <3>2. CASE CleanUp /\ w \in members
      BY <1>1, <1>2, <3>2 DEF CleanUp, ShutInv
    <3> QED
      BY <1>2, <3>1, <3>2
  <2> QED
    BY <2>1, <2>2
<1>4. CASE UNCHANGED made
  BY <1>1, <1>3, <1>4 DEF MadeBy
<1>5. CASE LeaderCommits
  <2>1. Leader # w
    BY IntegrationAssumption
  <2>2. made' = made \cup {NewChange(Leader)} /\ NewChange(Leader)[1] = Leader
    BY <1>5 DEF LeaderCommits, Makes, NewChange
  <2>3. MadeBy(w)' = MadeBy(w)
    BY <2>1, <2>2 DEF MadeBy
  <2> QED
    BY <1>1, <1>3, <2>3
<1>6. ASSUME NEW v \in Worker, Edit(v)
      PROVE  MadeBy(w)' \subseteq (InWorktree(w) \cup Landed \cup Lost)'
  <2>1. made' = made \cup {NewChange(v)} /\ NewChange(v)[1] = v
    BY <1>6 DEF Edit, Makes, NewChange
  <2>2. CASE v = w
    <3>1. NewChange(w) \in dirty'[w] /\ w \in worktrees'
      BY <1>1, <1>6, <2>2 DEF Edit, LogInv
    <3>2. NewChange(w) \in InWorktree(w)'
      BY <3>1 DEF InWorktree
    <3>3. MadeBy(w)' \subseteq MadeBy(w) \cup {NewChange(w)}
      BY <2>1, <2>2 DEF MadeBy
    <3> QED
      BY <1>1, <1>3, <3>2, <3>3
  <2>3. CASE v # w
    <3>1. MadeBy(w)' = MadeBy(w)
      BY <2>1, <2>3 DEF MadeBy
    <3> QED
      BY <1>1, <1>3, <3>1
  <2> QED
    BY <2>2, <2>3
<1> QED
  BY <1>1, <1>4, <1>5, <1>6, MadeSteps

LEMMA WorkStep == WorkInv /\ [GitNext]_gitVars => WorkInv'
<1> SUFFICES ASSUME WorkInv, [GitNext]_gitVars
             PROVE  WorkInv'
  OBVIOUS
<1>1. LogInv /\ UponInv /\ TakeInv
  BY DEF WorkInv
<1>2. Keeps
  BY <1>1, RepoSteps
<1>3. LogInv' /\ UponInv' /\ TakeInv'
  BY <1>1, <1>2, LogStep, UponStep, TakeStep
<1>4. members' \subseteq Worker
  BY LossSteps DEF WorkInv
<1> QED
  BY <1>2, <1>3, <1>4, ShutStep, KeptStep DEF WorkInv

\* For every number of workers, changes and faults: no change of a worker is lost, but
\* by a rebase that overrules it, with a worktree scaleDown removes, or with one that
\* shutdownTeam has reported as not merged or could not commit.
THEOREM WorkKept == GitSpec => []WorkIsKept
<1>1. GitInit => WorkInv
  BY WorkInit
<1>2. WorkInv => WorkIsKept
  BY DEF WorkInv
<1> QED
  BY <1>1, <1>2, WorkStep, PTL DEF GitSpec

\* For every number of workers, changes and faults: whatever has moved since a poll or
\* shutdownTeam looked, what it does to the leader's HEAD takes no change away.
THEOREM HeadGains == GitSpec => LandedStays
<1>1. GitInit => WorkInv
  BY WorkInit
<1>2. WorkInv /\ [GitNext]_gitVars => [Landed \subseteq Landed']_gitVars
  <2> SUFFICES ASSUME WorkInv, [GitNext]_gitVars
               PROVE  Landed \subseteq Landed'
    OBVIOUS
  <2>1. LogInv /\ Keeps
    BY RepoSteps DEF WorkInv
  <2> QED
    BY <2>1, LandedGrows
<1> QED
  BY <1>1, <1>2, WorkStep, PTL DEF GitSpec, LandedStays


-----------------------------------------------------------------------------
(* What the snapshot calls integrated has landed *)

\* A commit, if it is one, whose changes the leader has.
TakenOver(c) ==
    c # NoCommit => c \in 1..Len(log) /\ Holding(log, c) \subseteq Landed

\* What a record of commits says is true.
RecordOK(r) ==
    /\ r \in [Worker -> Nat \cup {NoCommit}]
    /\ \A w \in Worker : TakenOver(r[w])

\* What is not in the queue of picks any more, or never was, has landed.
PickInv ==
    poll = "pick" => \A c \in Past(seen) \ queue : log[c].what \subseteq Landed

NamedInv ==
    /\ WorkInv
    /\ ~detached => RecordOK(record) /\ RecordOK(next) /\ PickInv

\* A commit stays taken over.
LEMMA TakenStays ==
    ASSUME LogInv, Keeps
    PROVE  \A c : TakenOver(c) => TakenOver(c)'
<1> SUFFICES ASSUME NEW c, TakenOver(c), c # NoCommit
             PROVE  c \in 1..Len(log') /\ Holding(log', c) \subseteq Landed'
  BY DEF TakenOver
<1>1. c \in 1..Len(log) /\ Holding(log, c) \subseteq Landed
  BY DEF TakenOver
<1>2. Longer(log, log') /\ log \in Seq(Entry) /\ Sound(log)
  BY DEF LogInv, Keeps
<1>3. Holding(log', c) = Holding(log, c)
  BY <1>1, <1>2, LongerHolds
<1>4. Len(log) \in Nat /\ Len(log') \in Nat /\ Len(log) <= Len(log')
  BY <1>2 DEF Longer
<1>5. Landed \subseteq Landed'
  BY LandedGrows
<1> QED
  BY <1>1, <1>3, <1>4, <1>5

\* The record of nothing, and a record with one commit more.
LEMMA NothingTaken ==
    RecordOK([w \in Worker |-> NoCommit])'
BY DEF RecordOK, TakenOver

RecordNext(k) ==
    /\ k \in [Worker -> Nat \cup {NoCommit}]
    /\ \A w \in Worker : k[w] # NoCommit =>
         k[w] \in 1..Len(log') /\ Holding(log', k[w]) \subseteq LandedNext

LEMMA RecordPrimed ==
    ASSUME LogInv, Keeps
    PROVE  /\ RecordNext(next') => RecordOK(next)'
           /\ RecordNext(record') => RecordOK(record)'
<1>1. Landed' = LandedNext
  BY LandedGrows
<1> QED
  BY <1>1 DEF RecordNext, RecordOK, TakenOver, Holding

LEMMA RecordMore ==
    ASSUME LogInv, Keeps, NEW r, RecordOK(r), NEW k,
           \/ k = r
           \/ \E w \in Worker, c \in 1..Len(log) :
                /\ k = [r EXCEPT ![w] = c]
                /\ Holding(log', c) \subseteq LandedNext
    PROVE  RecordNext(k)
<1>1. \A w \in Worker : r[w] # NoCommit =>
        r[w] \in 1..Len(log') /\ Holding(log', r[w]) \subseteq LandedNext
  BY TakenStays, LandedGrows DEF RecordOK, TakenOver
<1>2. Len(log) \in Nat /\ Len(log') \in Nat /\ Len(log) <= Len(log')
  BY DEF LogInv, Keeps, Longer
<1>3. r \in [Worker -> Nat \cup {NoCommit}]
  BY DEF RecordOK
<1>4. CASE k = r
  BY <1>1, <1>3, <1>4 DEF RecordNext
<1>5. ASSUME NEW w \in Worker, NEW c \in 1..Len(log), k = [r EXCEPT ![w] = c],
             Holding(log', c) \subseteq LandedNext
      PROVE  RecordNext(k)
  <2>1. c \in Nat /\ c \in 1..Len(log')
    BY <1>2
  <2>2. k \in [Worker -> Nat \cup {NoCommit}]
    BY <1>3, <1>5, <2>1
  <2>3. \A v \in Worker : k[v] = IF v = w THEN c ELSE r[v]
    BY <1>3, <1>5
  <2> QED
    BY <1>1, <1>5, <2>1, <2>2, <2>3 DEF RecordNext
<1> QED
  BY <1>4, <1>5


LEMMA LookNamed ==
    ASSUME NamedInv, Keeps, ~detached, NEW w \in Worker, Look(w)
    PROVE  RecordNext(next') /\ PickInv'
<1>1. LogInv /\ RecordOK(next)
  BY DEF NamedInv, WorkInv
<1>2. head[w] \in 1..Len(log) /\ Sound(log) /\ head[Leader] \in 1..Len(log)
      /\ log \in Seq(Entry)
  BY <1>1 DEF LogInv
<1>3. log' = log /\ head' = head /\ Landed = Holding(log, head[Leader])
      /\ Landed' = LandedNext /\ LandedNext = Holding(log, head[Leader])
  BY <1>1, LandedGrows DEF Look, repo, LandedNext
<1>4. RecordNext(next')
  <2>1. CASE next' = next
    BY <1>1, <2>1, RecordMore
  <2>2. CASE Ancestor(head[w], head[Leader]) /\ next' = [next EXCEPT ![w] = head[w]]
    <3>1. Holding(log, head[w]) \subseteq Holding(log, head[Leader])
      BY <1>2, <2>2, HoldsMore DEF Ancestor, Past
    <3>2. Holding(log', head[w]) \subseteq LandedNext
      BY <1>3, <3>1
    <3> QED
      BY <1>1, <1>2, <2>2, <3>2, RecordMore
  <2> QED
    BY <2>1, <2>2 DEF Look
<1>5. ASSUME poll' = "pick", NEW c \in Past(seen)', c \notin queue'
      PROVE  log[c].what \subseteq Landed
  <2>1. seen' = head[w] /\ queue' = Unpicked(w)
    BY <1>5 DEF Look, Visited
  <2> DEFINE baseline == IF next[w] = NoCommit THEN head[Leader] ELSE next[w]
  <2>2. c \in Past(baseline)
    BY <1>3, <1>5, <2>1 DEF Unpicked, Past
  <2>3. Holding(log, baseline) \subseteq Landed
    BY <1>1, <1>3 DEF RecordOK, TakenOver
  <2> HIDE DEF baseline
  <2> QED
    BY <2>2, <2>3 DEF Past, Holding
<1> QED
  BY <1>3, <1>4, <1>5 DEF PickInv

LEMMA MergeNamed ==
    ASSUME NamedInv, Keeps, ~detached, Merge
    PROVE  RecordNext(next')
<1>1. LogInv /\ RecordOK(next) /\ TakeInv
  BY DEF NamedInv, WorkInv
<1>2. taking \in Worker /\ seen \in Past(head[taking]) /\ head[taking] \in 1..Len(log)
      /\ head[Leader] \in 1..Len(log) /\ Sound(log) /\ log \in Seq(Entry)
  BY <1>1 DEF TakeInv, Merge, LogInv
<1>3. seen \in 1..Len(log) /\ Holding(log, seen) \subseteq Holding(log, head[taking])
  BY <1>2, HoldsMore DEF Past, Sound
<1>4. Longer(log, log')
  BY DEF Keeps
<1>5. Holding(log', seen) = Holding(log, seen)
      /\ Holding(log', head[taking]) = Holding(log, head[taking])
  BY <1>2, <1>3, <1>4, LongerHolds
<1>6. CASE next' = next
  BY <1>1, <1>6, RecordMore
<1>7. CASE MergeInto(head[taking]) /\ next' = [next EXCEPT ![taking] = seen]
  <2>1. head[taking] \in log'[head'[Leader]].past
    <3>1. CASE Ancestor(head[taking], head[Leader]) /\ UNCHANGED <<log, head>>
      BY <3>1 DEF Ancestor, Past
    <3>2. CASE CommitTo(Leader, {head[Leader], head[taking]}, {})
      <4> DEFINE P == {head[Leader], head[taking]}
                 none == {}
      <4>1. P \subseteq 1..Len(log) /\ head[Leader] \in P /\ head[taking] \in P
            /\ none \subseteq Change /\ CommitTo(Leader, P, none)
            /\ Leader \in Worker \cup {Leader}
        BY <1>2, <3>2
      <4> HIDE DEF P, none
      <4>2. ChildOf(log, P, none, log', head'[Leader])
        BY <1>1, <4>1, Commit
      <4> QED
        BY <4>1, <4>2 DEF ChildOf
    <3> QED
      BY <1>7, <3>1, <3>2 DEF MergeInto
  <2>2. Sound(log') /\ head'[Leader] \in 1..Len(log')
    BY DEF Keeps, Longer
  <2>3. Holding(log', head[taking]) \subseteq LandedNext
    BY <2>1, <2>2, HoldsMore DEF LandedNext
  <2>4. Holding(log', seen) \subseteq LandedNext
    BY <1>3, <1>5, <2>3
  <2> QED
    BY <1>1, <1>2, <1>3, <1>7, <2>4, RecordMore
<1> QED
  BY <1>6, <1>7 DEF Merge, MergeSource

LEMMA PickNamed ==
    ASSUME NamedInv, Keeps, ~detached, NEW c \in queue, Pick(c)
    PROVE  RecordNext(next') /\ PickInv'
<1>1. LogInv /\ RecordOK(next) /\ TakeInv /\ PickInv /\ poll = "pick"
  BY DEF NamedInv, WorkInv, Pick
<1>2. taking \in Worker /\ c \in Past(seen) /\ seen \in Past(head[taking])
      /\ head[taking] \in 1..Len(log) /\ queue \subseteq Past(seen)
      /\ head[Leader] \in 1..Len(log) /\ Sound(log) /\ log \in Seq(Entry)
  BY <1>1 DEF TakeInv, LogInv
<1>3. seen \in 1..Len(log) /\ Past(seen) \subseteq 1..Len(log) /\ c \in 1..Len(log)
  BY <1>2 DEF Past, Sound
<1>4. Longer(log, log') /\ \A d \in 1..Len(log) : log'[d] = log[d]
  BY DEF Keeps, Longer
<1>5. Landed \subseteq Landed' /\ Landed' = LandedNext
  BY <1>1, LandedGrows
<1>6. \A d \in queue : c <= d
  BY DEF Pick
<1>7. CASE UNCHANGED next /\ poll' # "pick"
  BY <1>1, <1>7, RecordMore DEF PickInv
<1>8. CASE /\ CommitTo(Leader, {head[Leader]}, log[c].what \ Landed)
           /\ next' = [next EXCEPT ![taking] = c]
           /\ poll' # "pick" \/ (poll' = poll /\ seen' = seen /\ queue' = queue \ {c})
  <2>1. log[c].what \subseteq LandedNext
    <3> DEFINE P == {head[Leader]}
               changes == log[c].what \ Landed
    <3>1. log[c] \in Entry
      BY <1>2, <1>3
    <3>2. P \subseteq 1..Len(log) /\ head[Leader] \in P
          /\ CommitTo(Leader, P, changes) /\ Leader \in Worker \cup {Leader}
      BY <1>2, <1>8
    <3>3. changes \subseteq Change
      BY <3>1 DEF Entry
    <3>4. log[c].what \subseteq changes \cup Landed
      OBVIOUS
    <3> HIDE DEF P, changes
    <3>5. ChildOf(log, P, changes, log', head'[Leader])
      BY <1>1, <3>2, <3>3, Commit
    <3> QED
      BY <1>5, <3>4, <3>5 DEF ChildOf, LandedNext
  <2>2. \A d \in Past(c) : log[d].what \subseteq LandedNext
    <3> SUFFICES ASSUME NEW d \in Past(c)
                 PROVE  log[d].what \subseteq LandedNext
      OBVIOUS
    <3>1. d \in 1..c /\ d \in Past(seen)
      BY <1>2, <1>3 DEF Past, Sound
    <3>2. CASE d = c
      BY <2>1, <3>2
    <3>3. CASE d # c
      <4>1. d \notin queue
        BY <1>3, <1>6, <3>1, <3>3
      <4> QED
        BY <1>1, <1>5, <3>1, <4>1 DEF PickInv
    <3> QED
      BY <3>2, <3>3
  <2>3. Holding(log, c) \subseteq LandedNext
    BY <2>2 DEF Holding, Past
  <2>4. Holding(log', c) \subseteq LandedNext
    BY <1>2, <1>3, <1>4, <2>3, LongerHolds
  <2>5. RecordNext(next')
    BY <1>1, <1>2, <1>3, <1>8, <2>4, RecordMore
  <2>6. ASSUME poll' = "pick", NEW d \in Past(seen), d \notin queue'
        PROVE  log[d].what \subseteq LandedNext
    <3>1. d = c \/ d \notin queue
      BY <1>8, <2>6
    <3> QED
      BY <1>1, <1>5, <2>1, <3>1 DEF PickInv
  <2>7. ASSUME poll' = "pick"
        PROVE  \A d \in Past(seen)' \ queue' : log'[d].what \subseteq Landed'
    <3>1. Past(seen)' = Past(seen)
      BY <1>3, <1>4, <1>8, <2>7 DEF Past
    <3> QED
      BY <1>3, <1>4, <1>5, <2>6, <2>7, <3>1
  <2> QED
    BY <2>5, <2>7 DEF PickInv
<1> QED
  BY <1>7, <1>8 DEF Pick, Taken, Queued


LEMMA NamedQuiet ==
    ASSUME NamedInv, Keeps, ~detached
    PROVE  /\ next' = next \/ next' = record \/ next' = [w \in Worker |-> NoCommit]
                 => RecordNext(next')
           /\ record' = record \/ record' = next \/ record' = [w \in Worker |-> NoCommit]
                 => RecordNext(record')
<1>1. LogInv /\ RecordOK(next) /\ RecordOK(record)
  BY DEF NamedInv, WorkInv
<1>2. RecordNext(next) /\ RecordNext(record)
  BY <1>1, RecordMore
<1>3. RecordNext([w \in Worker |-> NoCommit])
  BY DEF RecordNext
<1> QED
  BY <1>2, <1>3

\* While the poll waits between two picks, what has landed stays so.
LEMMA PickStays ==
    ASSUME NamedInv, Keeps, ~detached,
           poll' # "pick" \/ (poll' = poll /\ seen' = seen /\ queue' = queue)
    PROVE  PickInv'
<1>1. LogInv /\ TakeInv /\ PickInv
  BY DEF NamedInv, WorkInv
<1>2. ASSUME poll' = "pick", NEW c \in Past(seen)', c \notin queue'
      PROVE  log'[c].what \subseteq Landed'
  <2>1. poll = "pick" /\ seen' = seen /\ queue' = queue
    BY <1>2
  <2>2. taking \in Worker /\ seen \in Past(head[taking]) /\ head[taking] \in 1..Len(log)
        /\ Sound(log)
    BY <1>1, <2>1 DEF TakeInv, LogInv
  <2>3. seen \in 1..Len(log) /\ Past(seen) \subseteq 1..Len(log)
    BY <2>2 DEF Past, Sound
  <2>4. \A d \in 1..Len(log) : log'[d] = log[d]
    BY DEF Keeps, Longer
  <2>5. c \in Past(seen) /\ c \in 1..Len(log)
    BY <1>2, <2>1, <2>3, <2>4 DEF Past
  <2>6. log[c].what \subseteq Landed
    BY <1>1, <1>2, <2>1, <2>5 DEF PickInv
  <2> QED
    BY <1>1, <2>4, <2>5, <2>6, LandedGrows
<1> QED
  BY <1>2 DEF PickInv

LEMMA NamedStep == NamedInv /\ [GitNext]_gitVars => NamedInv'
<1> SUFFICES ASSUME NamedInv, [GitNext]_gitVars
             PROVE  NamedInv'
  OBVIOUS
<1>1. WorkInv /\ WorkInv' /\ LogInv /\ Keeps
  BY WorkStep, RepoSteps DEF NamedInv, WorkInv
<1>2. detached' = detached
  BY DEF GitNext, gitVars, team, PollStep, EndStep, WorkerStep, PollBegins, Merge,
         CompareHeads, SaveRecord, PollDies, AutoCommit, Look, CrossRebase, Pick,
         ShutdownBegins, ShutdownRefused, KillWorkers, CleanUp, ShutdownReport, ScaleDown,
         ScaleDownFails, WorkerCommits, Edit, LeaderCommits
<1>3. ASSUME ~detached
      PROVE  RecordOK(record)' /\ RecordOK(next)' /\ PickInv'
  <2>1. record' = record \/ record' = next \/ record' = [w \in Worker |-> NoCommit]
    BY DEF GitNext, gitVars, PollStep, EndStep, WorkerStep, PollBegins, Merge,
           CompareHeads, SaveRecord, PollDies, AutoCommit, Look, CrossRebase, Pick,
           ShutdownBegins, ShutdownRefused, KillWorkers, CleanUp, ShutdownReport,
           ScaleDown, ScaleDownFails, WorkerCommits, Edit, LeaderCommits
  <2>2. \/ /\ next' = next \/ next' = record \/ next' = [w \in Worker |-> NoCommit]
           /\ poll' # "pick" \/ (poll' = poll /\ seen' = seen /\ queue' = queue)
        \/ Merge
        \/ \E w \in Worker : Look(w)
        \/ \E c \in queue : Pick(c)
    BY DEF GitNext, gitVars, monitor, PollStep, EndStep, WorkerStep, PollBegins,
           CompareHeads, SaveRecord, PollDies, PollEnds, AutoCommit, Visited, CrossRebase,
           ShutdownBegins, ShutdownRefused, KillWorkers, CleanUp, ShutdownReport,
           ScaleDown, ScaleDownFails, WorkerCommits, Edit, LeaderCommits
  <2>3. RecordNext(record')
    BY <1>1, <1>3, <2>1, NamedQuiet
  <2>4. RecordNext(next') /\ PickInv'
    <3>1. CASE /\ next' = next \/ next' = record \/ next' = [w \in Worker |-> NoCommit]
               /\ poll' # "pick" \/ (poll' = poll /\ seen' = seen /\ queue' = queue)
      BY <1>1, <1>3, <3>1, NamedQuiet, PickStays
    <3>2. CASE Merge
      <4>1. poll' # "pick"
        BY <3>2 DEF Merge, Taken
      <4> QED
        BY <1>1, <1>3, <3>2, <4>1, MergeNamed, PickStays
    <3>3. ASSUME NEW w \in Worker, Look(w) PROVE RecordNext(next') /\ PickInv'
      BY <1>1, <1>3, <3>3, LookNamed
    <3>4. ASSUME NEW c \in queue, Pick(c) PROVE RecordNext(next') /\ PickInv'
      BY <1>1, <1>3, <3>4, PickNamed
    <3> QED
      BY <2>2, <3>1, <3>2, <3>3, <3>4
  <2> QED
    BY <1>1, <2>3, <2>4, RecordPrimed
<1> QED
  BY <1>1, <1>2, <1>3 DEF NamedInv

\* For every number of workers, changes and faults: when the worktrees have branches,
\* each commit the snapshot calls integrated has landed with its whole past.
THEOREM NamedLanded == GitSpec => []NamedIsLanded
<1>1. GitInit => NamedInv
  <2>1. GitInit => WorkInv
    BY WorkInit
  <2> QED
    BY <2>1 DEF GitInit, NamedInv, RecordOK, TakenOver, PickInv
<1>2. NamedInv => NamedIsLanded
  BY DEF NamedInv, RecordOK, TakenOver, NamedIsLanded, IntegratedIsLanded, Holds, Holding, Past
<1> QED
  BY <1>1, <1>2, NamedStep, PTL DEF GitSpec

-----------------------------------------------------------------------------
(* Types *)

\* What the type invariant says beyond WorkInv.
PlacesOK ==
    /\ detached \in BOOLEAN
    /\ {alive, worktrees, members, roster, todo, closing} \subseteq SUBSET Worker
    /\ {record, next} \subseteq [Worker -> Commits \cup {NoCommit}]
    /\ poll \in {"idle", "commit", "look", "merge", "pick", "landed", "rebase", "save"}
    /\ {start, upon, seen} \subseteq Commits
    /\ taking \in Worker \cup {Leader}
    /\ queue \subseteq Commits
    /\ shut \in {"idle", "asked", "report", "done"}
    /\ faults \in 0..MaxFaults
    /\ {overruled, reported, untold, drained} \subseteq SUBSET Change

LEMMA WorkerSetSteps ==
    ASSUME [GitNext]_gitVars
    PROVE  /\ roster' \in {roster, members, {}}
           /\ todo' \subseteq todo \cup members \cup roster
           /\ closing' \subseteq closing \cup members
           /\ detached' = detached
BY DEF GitNext, gitVars, team, repo, monitor, ending, PollStep, EndStep, WorkerStep,
       PollBegins, Merge, Taken, CompareHeads, SaveRecord, PollDies, PollEnds, AutoCommit,
       Visited, Look, CrossRebase, Pick, Queued, ShutdownBegins, ShutdownRefused,
       KillWorkers, CleanUp, ShutdownReport, ScaleDown, ScaleDownFails, WorkerCommits, Edit,
       LeaderCommits

LEMMA PlaceSteps ==
    ASSUME PlacesOK, [GitNext]_gitVars
    PROVE  /\ poll' \in {"idle", "commit", "look", "merge", "pick", "landed", "rebase", "save"}
           /\ shut' \in {"idle", "asked", "report", "done"}
           /\ taking' \in Worker \cup {Leader}
<1>1. poll' = poll \/ poll' \in {"idle", "commit", "look", "merge", "pick", "landed", "rebase", "save"}
  BY DEF GitNext, gitVars, team, repo, monitor, ending, PollStep, EndStep,
         WorkerStep, PollBegins, Merge, Taken, CompareHeads, SaveRecord, PollDies, PollEnds,
         AutoCommit, Visited, Look, CrossRebase, Pick, Queued, ShutdownBegins, ShutdownRefused,
         KillWorkers, CleanUp, ShutdownReport, ScaleDown, ScaleDownFails, WorkerCommits, Edit,
         LeaderCommits
<1>2. shut' = shut \/ shut' \in {"idle", "asked", "report", "done"}
  BY DEF GitNext, gitVars, team, repo, monitor, ending, PollStep, EndStep,
         WorkerStep, PollBegins, Merge, Taken, CompareHeads, SaveRecord, PollDies, PollEnds,
         AutoCommit, Visited, Look, CrossRebase, Pick, Queued, ShutdownBegins, ShutdownRefused,
         KillWorkers, CleanUp, ShutdownReport, ScaleDown, ScaleDownFails, WorkerCommits, Edit,
         LeaderCommits
<1>3. taking' = taking \/ taking' = Leader \/ \E w \in Worker : taking' = w
  BY DEF GitNext, gitVars, team, repo, monitor, ending, PollStep, EndStep,
         WorkerStep, PollBegins, Merge, Taken, CompareHeads, SaveRecord, PollDies, PollEnds,
         AutoCommit, Visited, Look, CrossRebase, Pick, Queued, ShutdownBegins, ShutdownRefused,
         KillWorkers, CleanUp, ShutdownReport, ScaleDown, ScaleDownFails, WorkerCommits, Edit,
         LeaderCommits
<1> QED
  BY <1>1, <1>2, <1>3 DEF PlacesOK

LEMMA FaultSteps ==
    ASSUME PlacesOK, [GitNext]_gitVars
    PROVE  faults' \in 0..MaxFaults
<1>1. MaxFaults \in Nat /\ faults \in 0..MaxFaults
  BY IntegrationAssumption DEF PlacesOK
<1>2. ASSUME NEW refused \in SUBSET {"status", "merge"}, NEW w \in Worker,
             Checkpoint(w, refused)
      PROVE  faults' \in 0..MaxFaults
  <2>1. IsFiniteSet({"status", "merge"})
    <3>1. IsFiniteSet({"status"})
      BY FS_Singleton
    <3>2. IsFiniteSet({"status"} \cup {"merge"})
      BY <3>1, FS_AddElement
    <3>3. {"status"} \cup {"merge"} = {"status", "merge"}
      OBVIOUS
    <3> QED
      BY <3>2, <3>3
  <2>2. Cardinality(refused) \in Nat
    BY <2>1, FS_Subset, FS_CardinalityType
  <2> QED
    BY <1>1, <1>2, <2>2 DEF Checkpoint
<1>3. \/ faults' = faults \/ Fault
      \/ \E refused \in SUBSET {"status", "merge"}, w \in Worker : Checkpoint(w, refused)
  BY DEF GitNext, gitVars, PollStep, EndStep, WorkerStep, PollBegins, Merge, CompareHeads,
         SaveRecord, PollDies, AutoCommit, Look, CrossRebase, Pick, ShutdownBegins,
         ShutdownRefused, KillWorkers, CleanUp, ShutdownReport, CheckpointFails, ScaleDown,
         ScaleDownFails, WorkerCommits, Edit, LeaderCommits
<1> QED
  BY <1>1, <1>2, <1>3 DEF Fault

LEMMA CommitSteps ==
    ASSUME LogInv, PlacesOK, [GitNext]_gitVars
    PROVE  /\ {start', upon', seen'} \subseteq Commits
           /\ queue' \subseteq Commits
<1>1. 1 \in Commits /\ \A n \in Worker \cup {Leader} : head[n] \in Commits
  BY DEF LogInv, Commits
<1>2. \A n \in Worker \cup {Leader} : Past(head[n]) \subseteq Commits
  BY DEF LogInv, Commits, Past, Sound
<1>3. /\ start' \in {start, 1, head[Leader]}
      /\ upon' \in {upon, 1, head[Leader]}
      /\ seen' \in {seen, 1} \cup {head[w] : w \in Worker}
  BY DEF GitNext, gitVars, monitor, PollStep, EndStep, WorkerStep, PollBegins, Merge, Taken,
         CompareHeads, SaveRecord, PollDies, PollEnds, AutoCommit, Look, CrossRebase, Pick,
         Queued, ShutdownBegins, ShutdownRefused, KillWorkers, CleanUp, ShutdownReport,
         ScaleDown, ScaleDownFails, WorkerCommits, Edit, LeaderCommits
<1>4. queue' \subseteq queue \/ \E w \in Worker : queue' \subseteq Past(head[w])
  BY DEF GitNext, gitVars, monitor, PollStep, EndStep, WorkerStep, PollBegins, Merge, Taken,
         CompareHeads, SaveRecord, PollDies, PollEnds, AutoCommit, Look, Unpicked, CrossRebase,
         Pick, Queued, ShutdownBegins, ShutdownRefused, KillWorkers, CleanUp, ShutdownReport,
         ScaleDown, ScaleDownFails, WorkerCommits, Edit, LeaderCommits
<1>5. {start, upon, seen} \subseteq Commits /\ queue \subseteq Commits
  BY DEF PlacesOK
<1> HIDE DEF Commits
<1> QED
  BY <1>1, <1>2, <1>3, <1>4, <1>5

LEMMA RecordSteps ==
    ASSUME LogInv, TakeInv, PlacesOK, [GitNext]_gitVars
    PROVE  {record', next'} \subseteq [Worker -> Commits \cup {NoCommit}]
<1> DEFINE none == [w \in Worker |-> NoCommit]
<1>1. record' \in {record, next, none}
  BY DEF GitNext, gitVars, PollStep, EndStep, WorkerStep, PollBegins, Merge, CompareHeads,
         SaveRecord, PollDies, AutoCommit, Look, CrossRebase, Pick, ShutdownBegins,
         ShutdownRefused, KillWorkers, CleanUp, ShutdownReport, ScaleDown, ScaleDownFails,
         WorkerCommits, Edit, LeaderCommits
<1>2. \/ next' \in {next, record, none}
      \/ \E w \in Worker : next' = [next EXCEPT ![w] = head[w]]
      \/ next' = [next EXCEPT ![taking] = seen]
      \/ \E c \in queue : next' = [next EXCEPT ![taking] = c]
  BY DEF GitNext, gitVars, monitor, PollStep, EndStep, WorkerStep, PollBegins, Merge,
         CompareHeads, SaveRecord, PollDies, PollEnds, AutoCommit, Look, CrossRebase, Pick,
         ShutdownBegins, ShutdownRefused, KillWorkers, CleanUp, ShutdownReport, ScaleDown,
         ScaleDownFails, WorkerCommits, Edit, LeaderCommits
<1>3. /\ none \in [Worker -> Commits \cup {NoCommit}]
      /\ record \in [Worker -> Commits \cup {NoCommit}]
      /\ next \in [Worker -> Commits \cup {NoCommit}]
      /\ seen \in Commits /\ queue \subseteq Commits
      /\ \A w \in Worker : head[w] \in Commits
  BY DEF PlacesOK, LogInv, Commits
<1> HIDE DEF none
<1> QED
  BY <1>1, <1>2, <1>3

LEMMA LossTypes ==
    ASSUME LogInv, PlacesOK, [GitNext]_gitVars
    PROVE  {overruled', reported', untold', drained'} \subseteq SUBSET Change
<1>1. \A n \in Worker \cup {Leader} : \A c \in Past(head[n]) :
          c \in 1..Len(log) /\ log[c] \in Entry /\ log[c].what \subseteq Change
  <2> SUFFICES ASSUME NEW n \in Worker \cup {Leader}, NEW c \in log[head[n]].past
               PROVE  c \in 1..Len(log) /\ log[c] \in Entry /\ log[c].what \subseteq Change
    BY DEF Past
  <2>1. head[n] \in 1..Len(log) /\ log \in Seq(Entry) /\ Sound(log)
    BY DEF LogInv
  <2>2. c \in 1..head[n]
    BY <2>1 DEF Sound
  <2>3. c \in 1..Len(log)
    BY <2>1, <2>2
  <2>4. log[c] \in Entry
    BY <2>1, <2>3
  <2> QED
    BY <2>3, <2>4 DEF Entry
<1>2. ASSUME NEW w \in Worker
      PROVE  InWorktree(w) \subseteq Change
  BY <1>1 DEF LogInv, InWorktree, Holds
<1>3. overruled' = overruled \/ \E w \in Worker : \E c \in Past(head[w]) :
          overruled' = overruled \cup (log[c].what \ Holds(upon))
  BY DEF GitNext, gitVars, losses, PollStep, EndStep, WorkerStep, PollBegins, Merge,
         CompareHeads, SaveRecord, PollDies, AutoCommit, Look, CrossRebase, Pick,
         ShutdownBegins, ShutdownRefused, KillWorkers, CleanUp, ShutdownReport, ScaleDown,
         ScaleDownFails, WorkerCommits, Edit, LeaderCommits
<1>4. UNCHANGED <<reported, untold>> \/ \E w \in Worker :
          reported' \cup untold' \subseteq
            reported \cup untold \cup dirty[w] \cup Holds(head[w])
  BY ReportParts
  DEF GitNext, gitVars, losses, PollStep, EndStep, WorkerStep, PollBegins, Merge,
      CompareHeads, SaveRecord, PollDies, AutoCommit, Look, CrossRebase, Pick,
      ShutdownBegins, ShutdownRefused, KillWorkers, CleanUp, ScaleDown, ScaleDownFails,
      WorkerCommits, Edit, LeaderCommits
<1>5. drained' = drained \/ \E w \in Worker :
          drained' = drained \cup (InWorktree(w) \ Landed)
  BY DEF GitNext, gitVars, losses, PollStep, EndStep, WorkerStep, PollBegins, Merge,
         CompareHeads, SaveRecord, PollDies, AutoCommit, Look, CrossRebase, Pick,
         ShutdownBegins, ShutdownRefused, KillWorkers, CleanUp, ShutdownReport, ScaleDown,
         ScaleDownFails, WorkerCommits, Edit, LeaderCommits
<1>6. /\ overruled \subseteq Change /\ drained \subseteq Change
      /\ reported \cup untold \subseteq Change
  BY DEF PlacesOK
<1>9. \A w \in Worker : dirty[w] \cup Holds(head[w]) \subseteq Change
  BY <1>1 DEF LogInv, Holds
<1>7. overruled' \subseteq Change
  BY <1>1, <1>3, <1>6
<1>8. reported' \cup untold' \subseteq Change /\ drained' \subseteq Change
  BY <1>2, <1>4, <1>5, <1>6, <1>9
<1> QED
  BY <1>7, <1>8

LEMMA PlacesStep ==
    ASSUME LogInv, TakeInv, Keeps, PlacesOK, [GitNext]_gitVars
    PROVE  PlacesOK'
<1>1. Commits \subseteq Commits'
  BY DEF Keeps, Longer, LogInv, Commits
<1>2. /\ alive \subseteq Worker /\ worktrees \subseteq Worker /\ members \subseteq Worker
      /\ roster \subseteq Worker /\ todo \subseteq Worker /\ closing \subseteq Worker
      /\ detached \in BOOLEAN
  BY DEF PlacesOK
<1>3. /\ alive' \subseteq Worker /\ worktrees' \subseteq Worker /\ members' \subseteq Worker
      /\ roster' \subseteq Worker /\ todo' \subseteq Worker /\ closing' \subseteq Worker
      /\ detached' \in BOOLEAN
  BY <1>2, LossSteps, WorkerSetSteps
<1>4. {record', next'} \subseteq [Worker -> Commits' \cup {NoCommit}]
  <2>1. \A r \in [Worker -> Commits \cup {NoCommit}] : r \in [Worker -> Commits' \cup {NoCommit}]
    BY <1>1
  <2> QED
    BY <2>1, RecordSteps
<1>5. {start', upon', seen'} \subseteq Commits' /\ queue' \subseteq Commits'
  BY <1>1, CommitSteps
<1>6. {alive', worktrees', members', roster', todo', closing'} \subseteq SUBSET Worker
  BY <1>3
<1> QED
  BY <1>3, <1>4, <1>5, <1>6, PlaceSteps, FaultSteps, LossTypes DEF PlacesOK

LEMMA PlacesInit == GitInit => PlacesOK
<1> SUFFICES ASSUME GitInit
             PROVE  PlacesOK
  OBVIOUS
<1>1. Len(log) = 1 /\ 1 \in Commits
  BY DEF GitInit, Commits
<1>2. detached \in BOOLEAN /\ 0 \in 0..MaxFaults
  BY IntegrationAssumption DEF GitInit
<1>3. {record, next} \subseteq [Worker -> Commits \cup {NoCommit}]
  BY DEF GitInit
<1> QED
  BY <1>1, <1>2, <1>3 DEF GitInit, PlacesOK

LEMMA TypedLog ==
    ASSUME LogInv
    PROVE  log \in Seq([what : SUBSET Change, past : SUBSET Commits])
<1> DEFINE k == Len(log)
<1>1. k \in Nat /\ log = [c \in 1..k |-> log[c]]
  BY DEF LogInv
<1>2. \A c \in 1..k : log[c] \in Entry /\ log[c].past \subseteq 1..k
  BY DEF LogInv, Sound
<1>3. \A c \in 1..k : log[c] \in [what : SUBSET Change, past : SUBSET (1..k)]
  BY <1>2 DEF Entry
<1>4. log \in [1..k -> [what : SUBSET Change, past : SUBSET (1..k)]]
  BY <1>1, <1>3
<1>5. log \in Seq([what : SUBSET Change, past : SUBSET (1..k)])
  <2> DEFINE S == [what : SUBSET Change, past : SUBSET (1..k)]
  <2> HIDE DEF S
  <2>1. log \in [1..k -> S]
    BY <1>4 DEF S
  <2>2. log \in Seq(S)
    BY <1>1, <2>1, SeqDef
  <2> QED
    BY <2>2 DEF S
<1> QED
  BY <1>5 DEF Commits

\* For every number of workers, changes and faults, HEADs and records are commits of
\* the log, and pasts point backwards.
THEOREM GitTypes == GitSpec => []GitTypeOK
<1>1. GitInit => WorkInv /\ PlacesOK
  BY WorkInit, PlacesInit
<1>2. WorkInv /\ PlacesOK /\ [GitNext]_gitVars => (WorkInv /\ PlacesOK)'
  <2> SUFFICES ASSUME WorkInv, PlacesOK, [GitNext]_gitVars
               PROVE  WorkInv' /\ PlacesOK'
    OBVIOUS
  <2>1. LogInv /\ UponInv /\ TakeInv
    BY DEF WorkInv
  <2> QED
    BY <2>1, RepoSteps, WorkStep, PlacesStep
<1>3. WorkInv /\ PlacesOK => GitTypeOK
  BY TypedLog DEF WorkInv, LogInv, PlacesOK, GitTypeOK, Commits
<1> QED
  BY <1>1, <1>2, <1>3, PTL DEF GitSpec

-----------------------------------------------------------------------------
(* Data: induction and recursion *)

\* A set of numbers has a least one.
LEMMA Least ==
    ASSUME NEW T \in SUBSET Nat, T # {}
    PROVE  \E n \in T : \A m \in T : n <= m
<1> DEFINE R == OpToRel(<, Nat)
<1>1. IsWellFoundedOn(R, Nat)
  BY NatLessThanWellFounded
<1>2. \A m, n \in Nat : m < n => <<m, n>> \in R
  BY DEF OpToRel
<1> HIDE DEF R
<1>3. PICK n \in T : \A m \in T : <<m, n>> \notin R
  BY <1>1, WFMin
<1>4. n \in Nat /\ \A m \in T : m \in Nat
  OBVIOUS
<1>5. \A m \in T : ~(m < n)
  BY <1>2, <1>3, <1>4
<1> QED
  BY <1>4, <1>5

\* Induction up to k, over a set.
LEMMA UpTo ==
    ASSUME NEW k \in Nat, NEW T, 0 \in T, \A n \in 0..(k - 1) : n \in T => n + 1 \in T
    PROVE  0..k \subseteq T
<1> DEFINE B == {n \in 0..k : n \notin T}
<1> SUFFICES ASSUME B # {}
             PROVE  FALSE
  OBVIOUS
<1>1. \E n \in B : \A m \in B : n <= m
  <2>1. B \in SUBSET Nat
    OBVIOUS
  <2> HIDE DEF B
  <2> QED
    BY <2>1, Least
<1>2. PICK n \in B : \A m \in B : n <= m
  BY <1>1
<1>3. n \in 0..k /\ n # 0
  OBVIOUS
<1>4. n - 1 \in 0..(k - 1) /\ n - 1 \notin B
  BY <1>2, <1>3
<1>5. (n - 1) + 1 \in T
  BY <1>3, <1>4
<1> QED
  BY <1>3, <1>5

\* A function is defined by its first value and a step.
Iterates(f, X, b, step, k) ==
    /\ f \in [0..k -> X]
    /\ f[0] = b
    /\ \A n \in 1..k : f[n] = step[<<f[n - 1], n>>]

LEMMA Recursion ==
    ASSUME NEW X, NEW b \in X, NEW step \in [X \X Nat -> X], NEW k \in Nat
    PROVE  \E f : Iterates(f, X, b, step, k)
<1> DEFINE Is(j, f) == /\ f \in [0..j -> X]
                       /\ f[0] = b
                       /\ \A n \in 1..j : f[n] = step[<<f[n - 1], n>>]
           T == {j \in 0..k : \E f : Is(j, f)}
<1>1. Is(0, [n \in 0..0 |-> b])
  OBVIOUS
<1>2. ASSUME NEW j \in 0..(k - 1), NEW f, Is(j, f)
      PROVE  \E g : Is(j + 1, g)
  <2> DEFINE last == step[<<f[j], j + 1>>]
             g == [n \in 0..(j + 1) |-> IF n <= j THEN f[n] ELSE last]
  <2>1. j \in Nat /\ f[j] \in X /\ last \in X
    BY <1>2
  <2> HIDE DEF last
  <2>2. g \in [0..(j + 1) -> X]
    BY <1>2, <2>1
  <2>3. g[0] = b /\ g[j] = f[j] /\ g[j + 1] = last
    BY <1>2, <2>1
  <2>4. ASSUME NEW n \in 1..(j + 1), n # j + 1
        PROVE  g[n] = step[<<g[n - 1], n>>]
    <3>1. n \in 1..j /\ n - 1 \in 0..j
      BY <2>1, <2>4
    <3>2. g[n] = f[n] /\ g[n - 1] = f[n - 1]
      BY <2>1, <3>1
    <3> QED
      BY <1>2, <3>1, <3>2
  <2>5. g[j + 1] = step[<<g[(j + 1) - 1], j + 1>>]
    BY <2>1, <2>3 DEF last
  <2>6. \A n \in 1..(j + 1) : g[n] = step[<<g[n - 1], n>>]
    BY <2>4, <2>5
  <2>7. Is(j + 1, g)
    BY <2>2, <2>3, <2>6
  <2> QED
    BY <2>7
<1> HIDE DEF Is
<1>3. 0 \in T
  BY <1>1
<1>4. ASSUME NEW j \in 0..(k - 1), j \in T
      PROVE  j + 1 \in T
  BY <1>2, <1>4
<1>5. k \in T
  <2> HIDE DEF T
  <2>1. 0..k \subseteq T
    BY <1>3, <1>4, UpTo
  <2> QED
    BY <2>1
<1> QED
  BY <1>5 DEF Is, Iterates

-----------------------------------------------------------------------------
(* Replay *)

\* h[n]: the engine after the first n events of the log, none of which is refused.
Runs(entries, h) ==
    /\ h \in [0..Len(entries) -> Memory]
    /\ h[0] = NewEngine
    /\ \A n \in 1..Len(entries) :
          Accepts(h[n - 1], entries[n]) /\ h[n] = Apply(h[n - 1], entries[n])

Replays(entries) == entries \in Seq(Event) /\ \E h : Runs(entries, h)

LEMMA NewEngineType == NewEngine \in Memory
BY DEF NewEngine, Memory

\* What is accepted, and what it does, by kind of event.
LEMMA OwnerEvent ==
    ASSUME NEW m, NEW e, e[1] \in {"acquired", "renewed"}
    PROVE  /\ Accepts(m, e) <=> IF e[1] = "acquired" THEN m.owner \in {Nobody, e[2]}
                                                     ELSE m.owner = e[2]
           /\ Apply(m, e) = [m EXCEPT !.owner = e[2]]
<1>1. e[1] # "queued" /\ e[1] # "created" /\ e[1] \notin Marks /\ e[1] \notin Mail
  BY DEF Marks, Mail
<1>2. e[1] \notin {"queued", "created"} /\ e[1] \notin Mail \cup {"created"}
  BY <1>1
<1>3. CASE e[1] = "acquired"
  <2>1. e[1] # "renewed"
    BY <1>3
  <2>2. Accepts(m, e) <=> m.owner \in {Nobody, e[2]}
    BY <1>1, <1>2, <1>3, <2>1, Zenon DEF Accepts
  <2> QED
    BY <1>3, <1>1, <1>2, <2>2, Zenon DEF Apply
<1>4. CASE e[1] = "renewed"
  <2>1. e[1] # "acquired"
    BY <1>4
  <2>2. Accepts(m, e) <=> m.owner = e[2]
    BY <1>1, <1>2, <1>4, <2>1, Zenon DEF Accepts
  <2> QED
    BY <1>4, <1>1, <1>2, <2>1, <2>2, Zenon DEF Apply
<1> QED
  BY <1>3, <1>4

LEMMA QueuedEvent ==
    ASSUME NEW m, NEW e, e[1] = "queued"
    PROVE  /\ Accepts(m, e)
           /\ Apply(m, e) = [m EXCEPT !.requests = [m.requests EXCEPT ![e[2]] = "pending"]]
<1>1. e[1] \notin {"acquired", "renewed"} /\ e[1] # "acquired" /\ e[1] # "renewed"
      /\ e[1] \notin Marks /\ e[1] \notin Mail /\ e[1] \notin Mail \cup {"created"}
      /\ e[1] \in {"queued", "created"}
  BY DEF Marks, Mail
<1>2. Accepts(m, e)
  BY <1>1, Zenon DEF Accepts
<1> QED
  BY <1>1, <1>2, Zenon DEF Apply

LEMMA MarkEvent ==
    ASSUME NEW m, NEW e, e[1] \in Marks
    PROVE  /\ Accepts(m, e) <=> m.requests[e[2]] \in Before(e[1])
           /\ Apply(m, e) = [m EXCEPT !.requests = [m.requests EXCEPT ![e[2]] = e[1]]]
<1>1. e[1] \notin {"acquired", "renewed"} /\ e[1] # "acquired" /\ e[1] # "renewed"
      /\ e[1] # "queued" /\ e[1] \notin Mail /\ e[1] \notin Mail \cup {"created"}
      /\ e[1] \notin {"queued", "created"}
  BY DEF Marks, Mail
<1>2. Accepts(m, e) <=> m.requests[e[2]] \in Before(e[1])
  BY <1>1, Zenon DEF Accepts
<1> QED
  BY <1>1, <1>2, Zenon DEF Apply

LEMMA MailEvent ==
    ASSUME NEW m, NEW e, e[1] \in {"created"} \cup Mail
    PROVE  /\ Accepts(m, e) <=> \/ e[1] = "created"
                               \/ m.messages[e[2]] \in {"created", "mail_notified"}
           /\ Apply(m, e) = [m EXCEPT !.messages = [m.messages EXCEPT ![e[2]] = e[1]]]
<1>1. e[1] \notin {"acquired", "renewed"} /\ e[1] # "acquired" /\ e[1] # "renewed"
      /\ e[1] # "queued" /\ e[1] \notin Marks /\ e[1] \in Mail \cup {"created"}
  BY DEF Marks, Mail
<1>2. Accepts(m, e) <=> \/ e[1] = "created"
                        \/ m.messages[e[2]] \in {"created", "mail_notified"}
  <2>1. CASE e[1] = "created"
    <3>1. e[1] \in {"queued", "created"} /\ e[1] \notin Mail
      BY <2>1 DEF Mail
    <3> QED
      BY <1>1, <2>1, <3>1, Zenon DEF Accepts
  <2>2. CASE e[1] # "created"
    <3>1. e[1] \notin {"queued", "created"} /\ e[1] \in Mail
      BY <1>1, <2>2 
    <3> QED
      BY <1>1, <2>2, <3>1, Zenon DEF Accepts
  <2> QED
    BY <2>1, <2>2
<1> QED
  BY <1>1, <1>2, Zenon DEF Apply

LEMMA BeforeIs ==
    /\ Before("notified") = {"pending"}
    /\ Before("delivered") = {"notified"}
    /\ Before("failed") = {"pending", "notified"}
<1>1. "notified" # "delivered" /\ "notified" # "failed" /\ "delivered" # "failed"
  OBVIOUS
<1> QED
  BY <1>1, Zenon DEF Before

LEMMA EventKinds ==
    ASSUME NEW e \in Event
    PROVE  \/ e[1] \in {"acquired", "renewed"} /\ e[2] \in Owner
           \/ e[1] = "queued" /\ e[2] \in Request
           \/ e[1] \in Marks /\ e[2] \in Request
           \/ e[1] \in {"created"} \cup Mail /\ e[2] \in Message
BY DEF Event

LEMMA ApplyType ==
    ASSUME NEW m \in Memory, NEW e \in Event
    PROVE  Apply(m, e) \in Memory
<1>1. CASE e[1] \in {"acquired", "renewed"} /\ e[2] \in Owner
  BY <1>1, OwnerEvent DEF Memory
<1>2. CASE e[1] = "queued" /\ e[2] \in Request
  BY <1>2, QueuedEvent DEF Memory
<1>3. CASE e[1] \in Marks /\ e[2] \in Request
  BY <1>3, MarkEvent DEF Memory
<1>4. CASE e[1] \in {"created"} \cup Mail /\ e[2] \in Message
  BY <1>4, MailEvent DEF Memory
<1> QED
  BY <1>1, <1>2, <1>3, <1>4, EventKinds

LEMMA ReplayRuns ==
    ASSUME NEW entries \in Seq(Event), NEW h, Runs(entries, h)
    PROVE  Replay(entries) = h[Len(entries)]
<1> DEFINE Is(f) == f = [n \in 0..Len(entries) |->
                            IF n = 0 THEN NewEngine ELSE ReplayEvent(f[n - 1], entries[n])]
           after == CHOOSE f : Is(f)
<1>0. Len(entries) \in Nat
  OBVIOUS
<1>1. Is(h)
  <2>1. \A n \in 1..Len(entries) : h[n] = ReplayEvent(h[n - 1], entries[n])
    BY DEF Runs, ReplayEvent
  <2>2. h[0] = NewEngine
    BY DEF Runs
  <2>3. \A n \in 0..Len(entries) :
            h[n] = IF n = 0 THEN NewEngine ELSE ReplayEvent(h[n - 1], entries[n])
    BY <1>0, <2>1, <2>2
  <2>4. h = [n \in 0..Len(entries) |-> h[n]]
    BY DEF Runs
  <2> QED
    BY <2>3, <2>4
<1>2. Is(after)
  BY <1>1
<1>3. Replay(entries) = after[Len(entries)]
  BY DEF Replay
<1> DEFINE T == {n \in 0..Len(entries) : after[n] = h[n]}
<1>4. 0 \in T
  <2>1. after[0] = NewEngine
    <3> HIDE DEF after
    <3> QED
      BY <1>0, <1>2
  <2> QED
    BY <1>0, <2>1 DEF Runs
<1>5. ASSUME NEW n \in 0..(Len(entries) - 1), n \in T
      PROVE  n + 1 \in T
  <2>1. n + 1 \in 1..Len(entries) /\ n + 1 # 0 /\ (n + 1) - 1 = n
    OBVIOUS
  <2>2. after[n + 1] = ReplayEvent(after[(n + 1) - 1], entries[n + 1])
    <3> HIDE DEF after
    <3> QED
      BY <1>0, <1>2, <2>1
  <2>3. h[n + 1] = ReplayEvent(h[n], entries[n + 1])
    BY <2>1 DEF Runs, ReplayEvent
  <2> QED
    BY <2>1, <2>2, <2>3, <1>5
<1>6. Len(entries) \in T
  <2> HIDE DEF T
  <2>1. 0..Len(entries) \subseteq T
    BY <1>0, <1>4, <1>5, UpTo
  <2> QED
    BY <1>0, <2>1
<1> QED
  BY <1>3, <1>6

LEMMA RunsEmpty == Runs(<<>>, [n \in 0..0 |-> NewEngine])
BY NewEngineType DEF Runs

LEMMA RunsAppend ==
    ASSUME NEW entries \in Seq(Event), NEW h, Runs(entries, h), NEW e \in Event,
           Accepts(h[Len(entries)], e)
    PROVE  \E g : Runs(Append(entries, e), g) /\ g[Len(entries) + 1] = Apply(h[Len(entries)], e)
<1> DEFINE k == Len(entries)
           last == Apply(h[k], e)
           longer == Append(entries, e)
           g == [n \in 0..(k + 1) |-> IF n <= k THEN h[n] ELSE last]
<1>1. k \in Nat /\ h \in [0..k -> Memory] /\ h[k] \in Memory
  BY DEF Runs
<1>2. last \in Memory
  BY <1>1, ApplyType
<1>3. /\ Len(longer) = k + 1
      /\ longer[k + 1] = e
      /\ \A n \in 1..k : longer[n] = entries[n]
  OBVIOUS
<1>4. Accepts(h[k], e) /\ last = Apply(h[k], e)
  OBVIOUS
<1>5. h[0] = NewEngine /\ \A n \in 1..k : Accepts(h[n - 1], entries[n]) /\ h[n] = Apply(h[n - 1], entries[n])
  BY DEF Runs
<1> HIDE DEF k, last, longer
<1>6. g \in [0..(k + 1) -> Memory] /\ g[0] = NewEngine
  BY <1>1, <1>2, <1>5
<1>7. g[k + 1] = last
  BY <1>1
<1>8. ASSUME NEW n \in 1..(k + 1)
      PROVE  Accepts(g[n - 1], longer[n]) /\ g[n] = Apply(g[n - 1], longer[n])
  <2>1. CASE n = k + 1
    <3>1. g[n - 1] = h[k]
      BY <1>1, <2>1
    <3> HIDE DEF g
    <3> QED
      BY <1>3, <1>4, <1>7, <2>1, <3>1
  <2>2. CASE n # k + 1
    <3>1. n \in 1..k
      BY <1>1, <2>2
    <3>2. g[n - 1] = h[n - 1] /\ g[n] = h[n]
      BY <1>1, <3>1
    <3> HIDE DEF g
    <3> QED
      BY <1>3, <1>5, <3>1, <3>2
  <2> QED
    BY <2>1, <2>2
<1>9. Runs(longer, g)
  <2> HIDE DEF g
  <2> QED
    BY <1>3, <1>6, <1>8 DEF Runs
<1>10. g[k + 1] = Apply(h[k], e)
  <2> HIDE DEF g
  <2> QED
    BY <1>4, <1>7
<1> HIDE DEF g
<1>11. \E f : Runs(longer, f) /\ f[k + 1] = Apply(h[k], e)
  BY <1>9, <1>10
<1> QED
  BY <1>11 DEF k, longer

LEMMA RunsPrefix ==
    ASSUME NEW entries \in Seq(Event), NEW h, Runs(entries, h), NEW k \in 0..Len(entries)
    PROVE  Replay(SubSeq(entries, 1, k)) = h[k]
<1> DEFINE part == SubSeq(entries, 1, k)
           g == [n \in 0..k |-> h[n]]
<1>1. part \in Seq(Event) /\ Len(part) = k /\ \A n \in 1..k : part[n] = entries[n]
  OBVIOUS
<1>2. k \in Nat /\ Len(entries) \in Nat
  OBVIOUS
<1>3. /\ h \in [0..Len(entries) -> Memory] 
      /\ h[0] = NewEngine
      /\ \A n \in 1..k : Accepts(h[n - 1], entries[n]) /\ h[n] = Apply(h[n - 1], entries[n])
  BY <1>2 DEF Runs
<1> HIDE DEF part
<1>4. g \in [0..k -> Memory] /\ g[0] = NewEngine /\ g[k] = h[k]
  BY <1>2, <1>3
<1>5. \A n \in 1..k : g[n - 1] = h[n - 1] /\ g[n] = h[n]
  BY <1>2
<1> HIDE DEF g
<1>6. Runs(part, g)
  BY <1>1, <1>3, <1>4, <1>5 DEF Runs
<1>7. Replay(part) = g[k]
  BY <1>1, <1>6, ReplayRuns
<1> QED
  BY <1>4, <1>7 DEF part

\* A log that replays, with one more event that is accepted.
LEMMA ReplaysAppend ==
    ASSUME NEW entries, Replays(entries), NEW e \in Event, Accepts(Replay(entries), e)
    PROVE  Replays(Append(entries, e)) /\ Replay(Append(entries, e)) = Apply(Replay(entries), e)
<1>1. PICK h : Runs(entries, h)
  BY DEF Replays
<1>2. entries \in Seq(Event)
  BY DEF Replays
<1>3. Replay(entries) = h[Len(entries)]
  BY <1>1, <1>2, ReplayRuns
<1>4. PICK g : Runs(Append(entries, e), g) /\ g[Len(entries) + 1] = Apply(h[Len(entries)], e)
  BY <1>1, <1>2, <1>3, RunsAppend
<1>5. Append(entries, e) \in Seq(Event) /\ Len(Append(entries, e)) = Len(entries) + 1
  BY <1>2
<1>6. Replay(Append(entries, e)) = g[Len(entries) + 1]
  BY <1>4, <1>5, ReplayRuns
<1> QED
  BY <1>3, <1>4, <1>5, <1>6 DEF Replays

LEMMA ReplaysEmpty == Replays(<<>>) /\ Replay(<<>>) = NewEngine
<1>1. Len(<<>>) = 0 /\ <<>> \in Seq(Event)
  OBVIOUS
<1> DEFINE h == [n \in 0..0 |-> NewEngine]
<1>2. h[0] = NewEngine
  OBVIOUS
<1>3. Runs(<<>>, h)
  BY RunsEmpty
<1> HIDE DEF h
<1>4. Replay(<<>>) = h[0]
  BY <1>1, <1>3, ReplayRuns
<1> QED
  BY <1>1, <1>2, <1>3, <1>4 DEF Replays

LEMMA ReplaysType ==
    ASSUME NEW entries, Replays(entries)
    PROVE  entries \in Seq(Event) /\ Replay(entries) \in Memory
<1>1. entries \in Seq(Event)
  BY DEF Replays
<1>2. PICK h : Runs(entries, h)
  BY DEF Replays
<1>3. Len(entries) \in 0..Len(entries) /\ h \in [0..Len(entries) -> Memory]
  BY <1>1, <1>2 DEF Runs
<1>4. Replay(entries) = h[Len(entries)]
  BY <1>1, <1>2, ReplayRuns
<1> QED
  BY <1>1, <1>3, <1>4

LEMMA ReplaysAccepts ==
    ASSUME NEW entries, Replays(entries), NEW i \in DOMAIN entries
    PROVE  Accepts(Replay(SubSeq(entries, 1, i - 1)), entries[i])
<1>1. entries \in Seq(Event) /\ i \in 1..Len(entries) /\ i - 1 \in 0..Len(entries)
  BY DEF Replays
<1>2. PICK h : Runs(entries, h)
  BY DEF Replays
<1>3. Replay(SubSeq(entries, 1, i - 1)) = h[i - 1]
  BY <1>1, <1>2, RunsPrefix
<1> QED
  BY <1>1, <1>2, <1>3 DEF Runs

-----------------------------------------------------------------------------
(* Without: what is left of a log *)

LEMMA Keeping ==
    ASSUME NEW entries \in Seq(Event), NEW dropped
    PROVE  \E kept \in [0..Len(entries) -> Seq(Event)] :
              /\ kept[0] = <<>>
              /\ \A n \in 1..Len(entries) :
                    kept[n] = IF entries[n] \in dropped THEN kept[n - 1]
                              ELSE Append(kept[n - 1], entries[n])
              /\ Without(entries, dropped) = kept[Len(entries)]
<1> DEFINE chosen(s, n) == IF entries[n] \in dropped THEN s ELSE Append(s, entries[n])
           none == <<>>
           k == Len(entries)
           Is(f) == f = [n \in 0..k |-> IF n = 0 THEN none ELSE chosen(f[n - 1], n)]
           kept == CHOOSE f : Is(f)
           step == [x \in Seq(Event) \X Nat |-> IF x[2] \in 1..k THEN chosen(x[1], x[2])
                                                 ELSE x[1]]
           Good(f) == /\ f \in [0..k -> Seq(Event)]
                      /\ f[0] = none
                      /\ \A n \in 1..k : f[n] = chosen(f[n - 1], n)
<1>1. Without(entries, dropped) = kept[k]
  BY DEF Without
<1>2. k \in Nat /\ none \in Seq(Event)
  OBVIOUS
<1>3. \A s \in Seq(Event), n \in 1..k : chosen(s, n) \in Seq(Event)
  OBVIOUS
<1> HIDE DEF chosen, none, k
<1>4. step \in [Seq(Event) \X Nat -> Seq(Event)]
  BY <1>3
<1>5. \A g \in [0..k -> Seq(Event)], n \in 1..k : step[<<g[n - 1], n>>] = chosen(g[n - 1], n)
  <2> SUFFICES ASSUME NEW g \in [0..k -> Seq(Event)], NEW n \in 1..k
               PROVE  step[<<g[n - 1], n>>] = chosen(g[n - 1], n)
    OBVIOUS
  <2>1. n - 1 \in 0..k /\ n \in Nat
    BY <1>2
  <2>2. g[n - 1] \in Seq(Event)
    BY <2>1
  <2> QED
    BY <2>1, <2>2
<1> HIDE DEF step
<1>6. PICK f : Iterates(f, Seq(Event), none, step, k)
  <2> DEFINE X == Seq(Event)
  <2>1. none \in X /\ step \in [X \X Nat -> X] /\ k \in Nat
    BY <1>2, <1>4
  <2> HIDE DEF X
  <2>2. \E f : Iterates(f, X, none, step, k)
    BY <2>1, Recursion
  <2> QED
    BY <2>2 DEF X
<1>7. Good(f)
  BY <1>5, <1>6 DEF Iterates
<1>8. Is(f)
  <2>1. f = [n \in 0..k |-> f[n]]
    BY <1>7
  <2>2. \A n \in 0..k : f[n] = IF n = 0 THEN none ELSE chosen(f[n - 1], n)
    BY <1>2, <1>7
  <2> QED
    BY <2>1, <2>2
<1>9. Is(kept)
  BY <1>8
<1> HIDE DEF kept
<1>10. kept[0] = none /\ \A n \in 1..k : kept[n] = chosen(kept[n - 1], n)
  BY <1>2, <1>9
<1> DEFINE T == {n \in 0..k : kept[n] \in Seq(Event)}
<1>11. 0 \in T
  BY <1>2, <1>10
<1>12. ASSUME NEW n \in 0..(k - 1), n \in T
       PROVE  n + 1 \in T
  <2>1. n + 1 \in 1..k /\ (n + 1) - 1 = n /\ n + 1 \in 0..k
    BY <1>2
  <2>2. kept[n + 1] = chosen(kept[n], n + 1)
    BY <1>10, <2>1
  <2> QED
    BY <1>3, <1>12, <2>1, <2>2
<1>13. \A n \in 0..k : kept[n] \in Seq(Event)
  <2> HIDE DEF T
  <2>1. 0..k \subseteq T
    BY <1>2, <1>11, <1>12, UpTo
  <2> QED
    BY <2>1 DEF T
<1>14. kept \in [0..k -> Seq(Event)]
  <2>1. kept = [n \in 0..k |-> kept[n]]
    BY <1>9
  <2> QED
    BY <1>13, <2>1
<1> QED
  BY <1>1, <1>10, <1>14 DEF chosen, none, k

LEMMA AppendSet ==
    ASSUME NEW s \in Seq(Event), NEW e \in Event
    PROVE  ToSet(Append(s, e)) = ToSet(s) \cup {e}
<1>1. DOMAIN s = 1..Len(s) /\ DOMAIN Append(s, e) = 1..(Len(s) + 1) /\ Len(s) \in Nat
  OBVIOUS
<1>2. Append(s, e)[Len(s) + 1] = e /\ \A n \in 1..Len(s) : Append(s, e)[n] = s[n]
  OBVIOUS
<1>3. Len(s) + 1 \in DOMAIN Append(s, e) /\ \A n \in DOMAIN Append(s, e) : n = Len(s) + 1 \/ n \in DOMAIN s
  BY <1>1
<1>4. DOMAIN s \subseteq DOMAIN Append(s, e)
  BY <1>1
<1> QED
  BY <1>1, <1>2, <1>3, <1>4 DEF ToSet

LEMMA EmptySet == ToSet(<<>>) = {}
BY DEF ToSet

\* What is dropped goes, and nothing else.
LEMMA WithoutSet ==
    ASSUME NEW entries \in Seq(Event), NEW dropped
    PROVE  Without(entries, dropped) \in Seq(Event) /\ ToSet(Without(entries, dropped)) = ToSet(entries) \ dropped
<1>1. PICK kept \in [0..Len(entries) -> Seq(Event)] :
              /\ kept[0] = <<>>
              /\ \A n \in 1..Len(entries) :
                    kept[n] = IF entries[n] \in dropped THEN kept[n - 1]
                              ELSE Append(kept[n - 1], entries[n])
              /\ Without(entries, dropped) = kept[Len(entries)]
  BY Keeping
<1>0. Len(entries) \in Nat
  OBVIOUS
<1> DEFINE first(n) == {entries[i] : i \in 1..n}
           T == {n \in 0..Len(entries) : ToSet(kept[n]) = first(n) \ dropped}
<1>2. 0 \in T
  BY <1>0, <1>1, EmptySet
<1>3. ASSUME NEW n \in 0..(Len(entries) - 1), n \in T
      PROVE  n + 1 \in T
  <2>1. n + 1 \in 1..Len(entries) /\ (n + 1) - 1 = n /\ n + 1 \in 0..Len(entries) /\ n \in 0..Len(entries) /\ n \in Nat
    OBVIOUS
  <2>2. kept[n + 1] = IF entries[n + 1] \in dropped THEN kept[n] ELSE Append(kept[n], entries[n + 1])
    BY <1>1, <2>1
  <2>3. entries[n + 1] \in Event /\ kept[n] \in Seq(Event)
    BY <2>1
  <2>4. first(n + 1) = first(n) \cup {entries[n + 1]}
    <3>1. \A i : i \in 1..(n + 1) <=> i \in 1..n \/ i = n + 1
      BY <2>1
    <3> QED
      BY <3>1
  <2>5. ToSet(Append(kept[n], entries[n + 1])) = ToSet(kept[n]) \cup {entries[n + 1]}
    BY <2>3, AppendSet
  <2> HIDE DEF first
  <2> QED
    BY <1>3, <2>1, <2>2, <2>4, <2>5
<1>4. Len(entries) \in T
  <2> HIDE DEF T
  <2>1. 0..Len(entries) \subseteq T
    BY <1>0, <1>2, <1>3, UpTo
  <2> QED
    BY <1>0, <2>1
<1>5. first(Len(entries)) = ToSet(entries)
  BY DEF ToSet
<1> QED
  BY <1>0, <1>1, <1>4, <1>5

-----------------------------------------------------------------------------
(* Compact *)

\* The engine without the requests of a set.
Trim(m, gone) ==
    [m EXCEPT !.requests = [r \in Request |-> IF r \in gone THEN "none" ELSE m.requests[r]]]

Events(gone) == ({"queued"} \cup Marks) \X gone

LEMMA TrimType ==
    ASSUME NEW m \in Memory, NEW gone
    PROVE  /\ Trim(m, gone) \in Memory
           /\ Trim(m, gone).owner = m.owner
           /\ Trim(m, gone).messages = m.messages
           /\ \A r \in Request :
                 Trim(m, gone).requests[r] = IF r \in gone THEN "none" ELSE m.requests[r]
BY DEF Trim, Memory

\* An event that is dropped is not missed, and one that is kept is not refused.
LEMMA TrimStep ==
    ASSUME NEW gone \in SUBSET Request, NEW m \in Memory, NEW e \in Event, Accepts(m, e)
    PROVE  IF e \in Events(gone) THEN Trim(Apply(m, e), gone) = Trim(m, gone)
           ELSE Accepts(Trim(m, gone), e) /\ Apply(Trim(m, gone), e) = Trim(Apply(m, e), gone)
<1> DEFINE t == Trim(m, gone)
<1>1. /\ t \in Memory
      /\ t.owner = m.owner
      /\ t.messages = m.messages
      /\ \A r \in Request : t.requests[r] = IF r \in gone THEN "none" ELSE m.requests[r]
  BY TrimType
<1>2. e = <<e[1], e[2]>>
  BY DEF Event
<1>3. CASE e[1] \in {"acquired", "renewed"} /\ e[2] \in Owner
  <2>1. e \notin Events(gone)
    BY <1>3 DEF Events, Marks
  <2>2. Accepts(t, e)
    <3> HIDE DEF t
    <3> QED
      BY <1>1, <1>3, OwnerEvent
  <2>3. Apply(t, e) = Trim(Apply(m, e), gone)
    BY <1>3, OwnerEvent DEF Trim, Memory
  <2> QED
    BY <2>1, <2>2, <2>3
<1>4. CASE e[1] \in {"created"} \cup Mail /\ e[2] \in Message
  <2>1. e \notin Events(gone)
    BY <1>4 DEF Events, Marks, Mail
  <2>2. Accepts(t, e)
    <3> HIDE DEF t
    <3> QED
      BY <1>1, <1>4, MailEvent
  <2>3. Apply(t, e) = Trim(Apply(m, e), gone)
    BY <1>4, MailEvent DEF Trim, Memory
  <2> QED
    BY <2>1, <2>2, <2>3
<1>5. CASE e[1] \in {"queued"} \cup Marks /\ e[2] \in Request
  <2> DEFINE s == IF e[1] = "queued" THEN "pending" ELSE e[1]
             set(q) == [q EXCEPT !.requests = [q.requests EXCEPT ![e[2]] = s]]
  <2>1. Apply(m, e) = set(m) /\ Apply(t, e) = set(t)
    <3>1. CASE e[1] = "queued"
      BY <3>1, QueuedEvent
    <3>2. CASE e[1] \in Marks
      <4>1. e[1] # "queued"
        BY <3>2 DEF Marks
      <4> QED
        BY <3>2, <4>1, MarkEvent
    <3> QED
      BY <1>5, <3>1, <3>2
  <2>2. CASE e[2] \in gone
    <3>1. e \in Events(gone)
      BY <1>2, <1>5, <2>2 DEF Events
    <3>2. Trim(set(m), gone) = Trim(m, gone)
      BY <1>5, <2>2 DEF Trim, Memory
    <3> QED
      BY <2>1, <3>1, <3>2
  <2>3. CASE e[2] \notin gone
    <3>1. e \notin Events(gone)
      BY <1>2, <2>3 DEF Events
    <3>2. set(t) = Trim(set(m), gone)
      BY <1>5, <2>3 DEF Trim, Memory
    <3>3. Accepts(t, e)
      <4> HIDE DEF t
      <4>1. t.requests[e[2]] = m.requests[e[2]]
        BY <1>1, <1>5, <2>3
      <4>2. CASE e[1] = "queued"
        BY <4>2, QueuedEvent
      <4>3. CASE e[1] \in Marks
        BY <4>1, <4>3, MarkEvent
      <4> QED
        BY <1>5, <4>2, <4>3
    <3> QED
      BY <2>1, <3>1, <3>2, <3>3
  <2> QED
    BY <2>2, <2>3
<1> QED
  BY <1>3, <1>4, <1>5, EventKinds

LEMMA WithoutReplays ==
    ASSUME NEW entries, Replays(entries), NEW gone \in SUBSET Request
    PROVE  /\ Replays(Without(entries, Events(gone)))
           /\ Replay(Without(entries, Events(gone))) = Trim(Replay(entries), gone)
<1> DEFINE k == Len(entries)
<1>1. entries \in Seq(Event) /\ k \in Nat
  BY DEF Replays
<1>2. PICK h : Runs(entries, h)
  BY DEF Replays
<1>3. PICK kept \in [0..k -> Seq(Event)] :
         /\ kept[0] = <<>>
         /\ \A n \in 1..k : kept[n] = IF entries[n] \in Events(gone) THEN kept[n - 1]
                                      ELSE Append(kept[n - 1], entries[n])
         /\ Without(entries, Events(gone)) = kept[k]
  BY <1>1, Keeping
<1>4. Replay(entries) = h[k]
  BY <1>1, <1>2, ReplayRuns
<1>5. /\ h[0] = NewEngine
      /\ \A n \in 0..k : h[n] \in Memory
      /\ \A n \in 1..k : Accepts(h[n - 1], entries[n]) /\ h[n] = Apply(h[n - 1], entries[n])
  BY <1>2 DEF Runs
<1>6. \A n \in 1..k : entries[n] \in Event
  BY <1>1
<1> HIDE DEF k
<1> DEFINE T == {n \in 0..k : Replays(kept[n]) /\ Replay(kept[n]) = Trim(h[n], gone)}
<1>7. 0 \in T
  <2>1. Trim(NewEngine, gone) = NewEngine
    BY DEF Trim, NewEngine
  <2> QED
    BY <1>1, <1>3, <1>5, <2>1, ReplaysEmpty
<1>8. ASSUME NEW n \in 0..(k - 1), n \in T
      PROVE  n + 1 \in T
  <2>1. n + 1 \in 1..k /\ (n + 1) - 1 = n /\ n + 1 \in 0..k /\ n \in 0..k
    BY <1>1
  <2> DEFINE e == entries[n + 1]
             s == kept[n]
  <2>2. Replays(s) /\ Replay(s) = Trim(h[n], gone)
    BY <1>8
  <2>3. e \in Event /\ h[n] \in Memory /\ Accepts(h[n], e) /\ h[n + 1] = Apply(h[n], e)
    BY <1>5, <1>6, <2>1
  <2>4. kept[n + 1] = IF e \in Events(gone) THEN s ELSE Append(s, e)
    BY <1>3, <2>1
  <2> HIDE DEF e, s
  <2>5. IF e \in Events(gone) THEN Trim(h[n + 1], gone) = Trim(h[n], gone)
        ELSE Accepts(Trim(h[n], gone), e) /\ Apply(Trim(h[n], gone), e) = Trim(h[n + 1], gone)
    BY <2>3, TrimStep
  <2>6. CASE e \in Events(gone)
    BY <2>1, <2>2, <2>4, <2>5, <2>6
  <2>7. CASE e \notin Events(gone)
    <3>1. Replays(Append(s, e)) /\ Replay(Append(s, e)) = Apply(Replay(s), e)
      BY <2>2, <2>3, <2>5, <2>7, ReplaysAppend
    <3> QED
      BY <2>1, <2>2, <2>4, <2>5, <2>7, <3>1
  <2> QED
    BY <2>6, <2>7
<1>9. k \in T
  <2> HIDE DEF T
  <2>1. 0..k \subseteq T
    BY <1>1, <1>7, <1>8, UpTo
  <2> QED
    BY <1>1, <2>1
<1> QED
  BY <1>3, <1>4, <1>9

\* The state of a request that has been marked is an event of the log.
LEMMA MarkLogged ==
    ASSUME NEW entries, Replays(entries), NEW r \in Request, Replay(entries).requests[r] \in Marks
    PROVE  <<Replay(entries).requests[r], r>> \in ToSet(entries)
<1> DEFINE k == Len(entries)
           first(n) == {entries[i] : i \in 1..n}
<1>1. entries \in Seq(Event) /\ k \in Nat
  BY DEF Replays
<1>2. PICK h : Runs(entries, h)
  BY DEF Replays
<1>3. Replay(entries) = h[k]
  BY <1>1, <1>2, ReplayRuns
<1>4. /\ h[0] = NewEngine
      /\ \A n \in 0..k : h[n] \in Memory
      /\ \A n \in 1..k : Accepts(h[n - 1], entries[n]) /\ h[n] = Apply(h[n - 1], entries[n])
  BY <1>2 DEF Runs
<1>5. \A n \in 1..k : entries[n] \in Event
  BY <1>1
<1>6. first(k) = ToSet(entries)
  BY <1>1 DEF ToSet
<1> HIDE DEF k
<1> DEFINE T == {n \in 0..k : h[n].requests[r] \in Marks => <<h[n].requests[r], r>> \in first(n)}
<1>7. 0 \in T
  BY <1>1, <1>4 DEF NewEngine, Marks
<1>8. ASSUME NEW n \in 0..(k - 1), n \in T
      PROVE  n + 1 \in T
  <2>1. n + 1 \in 1..k /\ (n + 1) - 1 = n /\ n + 1 \in 0..k /\ n \in 0..k /\ n \in Nat
    BY <1>1
  <2> DEFINE e == entries[n + 1]
  <2>2. e \in Event /\ h[n] \in Memory /\ h[n + 1] = Apply(h[n], e)
    BY <1>4, <1>5, <2>1
  <2>3. first(n) \subseteq first(n + 1) /\ e \in first(n + 1)
    BY <2>1
  <2> HIDE DEF e, first
  <2>4. h[n + 1].requests[r] = h[n].requests[r] \/ h[n + 1].requests[r] = "pending"
           \/ e = <<h[n + 1].requests[r], r>>
    <3>1. CASE e[1] \in {"acquired", "renewed"} /\ e[2] \in Owner
      BY <2>2, <3>1, OwnerEvent DEF Memory
    <3>2. CASE e[1] \in {"created"} \cup Mail /\ e[2] \in Message
      BY <2>2, <3>2, MailEvent DEF Memory
    <3>3. CASE e[1] = "queued" /\ e[2] \in Request
      BY <2>2, <3>3, QueuedEvent DEF Memory
    <3>4. CASE e[1] \in Marks /\ e[2] \in Request
      <4>1. e = <<e[1], e[2]>>
        BY <2>2 DEF Event
      <4>2. h[n + 1].requests = [h[n].requests EXCEPT ![e[2]] = e[1]]
        BY <2>2, <3>4, MarkEvent DEF Memory
      <4>3. h[n].requests \in [Request -> {"none", "pending"} \cup Marks]
        BY <2>2 DEF Memory
      <4> QED
        BY <3>4, <4>1, <4>2, <4>3
    <3> QED
      BY <2>2, <3>1, <3>2, <3>3, <3>4, EventKinds
  <2>5. "pending" \notin Marks
    BY DEF Marks
  <2> QED
    BY <1>8, <2>1, <2>3, <2>4, <2>5
<1>9. k \in T
  <2> HIDE DEF T
  <2>1. 0..k \subseteq T
    BY <1>1, <1>7, <1>8, UpTo
  <2> QED
    BY <1>1, <2>1
<1> QED
  BY <1>3, <1>6, <1>9

\* What compact leaves replays, to an engine with the same requests pending and
\* notified; what it drops are events of requests of which the end is logged.
LEMMA Compacted ==
    ASSUME NEW entries, Replays(entries)
    PROVE  LET left == Compact(Replay(entries), entries)
           IN  /\ Replays(left)
               /\ Counted(Replay(left)) = Counted(Replay(entries))
               /\ ToSet(left) \subseteq ToSet(entries)
               /\ \A e \in ToSet(entries) \ ToSet(left) :
                     /\ e[1] \in {"queued"} \cup Marks
                     /\ {<<"delivered", e[2]>>, <<"failed", e[2]>>} \cap ToSet(entries) # {}
<1> DEFINE m    == Replay(entries)
           gone == Ended(m)
           left == Without(entries, Events(gone))
<1>1. Compact(m, entries) = left
  BY DEF Compact, Events
<1>2. gone \in SUBSET Request
  BY DEF Ended
<1>3. entries \in Seq(Event) /\ m \in Memory
  BY ReplaysType
<1>4. Replays(left) /\ Replay(left) = Trim(m, gone)
  <2> HIDE DEF gone
  <2> QED
    BY <1>2, WithoutReplays
<1>5. Counted(Trim(m, gone)) = Counted(m)
  <2>1. \A r \in Request : Trim(m, gone).requests[r] = IF r \in gone THEN "none" ELSE m.requests[r]
    BY <1>3, TrimType
  <2>2. \A r \in gone : m.requests[r] \notin {"pending", "notified"}
    BY DEF Ended
  <2>3. \A r \in Request, s \in {"pending", "notified"} :
           Trim(m, gone).requests[r] = s <=> m.requests[r] = s
    BY <2>1, <2>2
  <2> HIDE DEF m, gone
  <2> QED
    BY <2>3 DEF Counted
<1>6. ToSet(left) = ToSet(entries) \ Events(gone)
  BY <1>3, WithoutSet
<1>7. ASSUME NEW e \in ToSet(entries) \ ToSet(left)
      PROVE  /\ e[1] \in {"queued"} \cup Marks
             /\ {<<"delivered", e[2]>>, <<"failed", e[2]>>} \cap ToSet(entries) # {}
  <2>1. e[1] \in {"queued"} \cup Marks /\ e[2] \in gone
    <3> HIDE DEF gone, left
    <3> QED
      BY <1>6, <1>7 DEF Events
  <2>2. e[2] \in Request /\ m.requests[e[2]] \in {"delivered", "failed"}
    BY <2>1 DEF Ended
  <2>3. <<m.requests[e[2]], e[2]>> \in ToSet(entries)
    BY <2>2, MarkLogged DEF Marks
  <2> QED
    BY <2>1, <2>2, <2>3
<1> HIDE DEF m, left
<1> QED
  BY <1>1, <1>4, <1>5, <1>6, <1>7 DEF m

-----------------------------------------------------------------------------
(* The invariant *)

Writing == {"snapshot", "truncate", "events"}

\* Every log that could be loaded replays, and an engine has the requests of the log it
\* will write.
Readable ==
    /\ events # Torn => Replays(events)
    /\ \A p \in Exec : /\ Replays(journal[p])
                       /\ Counted(memory[p]) = Counted(Replay(journal[p]))

\* Who holds the lock writes, and until it is done snapshot.json is its own.
Locking ==
    \A p \in Exec :
        /\ flock = p <=> stage[p] \in Writing
        /\ stage[p] \in {"truncate", "events"} => backlog = Counted(memory[p])

\* Logs hold what was accepted, and compact dropped what is over.
Recorded ==
    /\ Logged(events) \subseteq accepted
    /\ \A p \in Exec : /\ ToSet(journal[p]) \cup Logged(base[p]) \subseteq accepted
                       /\ \A e \in Logged(base[p]) \ ToSet(journal[p]) : Over(e)

\* In events.json, or in the log that is being written over it.
Held(e) ==
    IF \E p \in Exec : stage[p] = "events"
    THEN \E p \in Exec : stage[p] = "events" /\ e \in ToSet(journal[p])
    ELSE e \in Logged(events)

Remains(e) == Held(e) \/ e \in overrun \/ Over(e)

Answers ==
    /\ \A e \in answered : Remains(e)
    /\ \A p \in Exec : stage[p] = "answer" =>
                         \A e \in ToSet(journal[p]) \ Logged(base[p]) : Remains(e)

EngineInv ==
    EngineTypeOK /\ Readable /\ Locking /\ FilesAgree /\ Recorded /\ Answers

\* What the two ways to begin have in common.
Begins(p, m, entries, read) ==
    /\ stage[p] = "idle" /\ commands < MaxCommands
    /\ Starts(p, m, entries, read)
    /\ m \in Memory
    /\ Replays(entries)
    /\ Counted(m) = Counted(Replay(entries))
    /\ read \in Seq(Event) \cup {Torn}
    /\ accepted \subseteq accepted' /\ accepted' \subseteq Event
    /\ ToSet(entries) \cup Logged(read) \subseteq accepted'
    /\ \A x \in Logged(read) \ ToSet(entries) : Over(x)'
    /\ UNCHANGED <<disk, answered, whole, overrun>>

LEMMA SetType ==
    ASSUME NEW entries \in Seq(Event)
    PROVE  ToSet(entries) \subseteq Event
BY DEF ToSet

LEMMA BeginBegins ==
    ASSUME EngineInv, NEW p \in Exec, NEW e \in Event, NEW compacting \in BOOLEAN,
           Begin(p, e, compacting)
    PROVE  \E m, entries, read : Begins(p, m, entries, read)
<1> DEFINE entries    == IF events = Torn THEN <<>> ELSE events
           m      == Apply(Replay(entries), e)
           longer == Append(entries, e)
           chosen   == IF compacting THEN Compact(m, longer) ELSE longer
<1>1. Replays(entries) /\ ToSet(entries) = Logged(events)
  BY ReplaysEmpty, EmptySet DEF EngineInv, Readable, Logged
<1>2. /\ stage[p] = "idle" /\ commands < MaxCommands
      /\ Accepts(Replay(entries), e)
      /\ Starts(p, m, chosen, events)
      /\ accepted' = accepted \cup {e}
      /\ UNCHANGED <<disk, answered, whole, overrun>>
  BY DEF Begin, Startable
<1> HIDE DEF entries
<1>3. entries \in Seq(Event) /\ Replay(entries) \in Memory
  BY <1>1, ReplaysType
<1>4. m \in Memory
  BY <1>3, ApplyType
<1>5. Replays(longer) /\ Replay(longer) = m
  BY <1>1, <1>2, ReplaysAppend
<1>6. ToSet(longer) = Logged(events) \cup {e}
  BY <1>1, <1>3, AppendSet
<1>7. accepted \subseteq Event /\ Logged(events) \subseteq accepted /\ events \in Seq(Event) \cup {Torn}
  BY DEF EngineInv, EngineTypeOK, Recorded
<1> HIDE DEF m, longer
<1>8. /\ Replays(chosen)
      /\ Counted(Replay(chosen)) = Counted(m)
      /\ ToSet(chosen) \subseteq ToSet(longer)
      /\ \A x \in ToSet(longer) \ ToSet(chosen) :
            /\ x[1] \in {"queued"} \cup Marks
            /\ {<<"delivered", x[2]>>, <<"failed", x[2]>>} \cap ToSet(longer) # {}
  <2>1. CASE compacting
    <3>1. chosen = Compact(Replay(longer), longer)
      BY <1>5, <2>1
    <3> HIDE DEF chosen
    <3> QED
      BY <1>5, <3>1, Compacted
  <2>2. CASE ~compacting
    <3>1. chosen = longer
      BY <2>2
    <3> QED
      BY <1>5, <3>1
  <2> QED
    BY <2>1, <2>2
<1> HIDE DEF chosen
<1>9. \A x \in Logged(events) \ ToSet(chosen) : Over(x)'
  BY <1>2, <1>6, <1>7, <1>8 DEF Over
<1>10. Begins(p, m, chosen, events)
  BY <1>2, <1>4, <1>6, <1>7, <1>8, <1>9 DEF Begins
<1> QED
  BY <1>10

LEMMA InitBegins ==
    ASSUME EngineInv, NEW p \in Exec, BeginInit(p)
    PROVE  \E m, entries, read : Begins(p, m, entries, read)
<1>1. ToSet(<<>>) = {} /\ Logged(Torn) = {} /\ accepted \subseteq Event
  BY EmptySet DEF Logged, EngineInv, EngineTypeOK
<1>2. Begins(p, NewEngine, <<>>, Torn)
  BY <1>1, ReplaysEmpty, NewEngineType DEF BeginInit, Startable, Begins
<1> QED
  BY <1>2

LEMMA CountedType ==
    ASSUME NEW m
    PROVE  Counted(m) \in [{"pending", "notified"} -> SUBSET Request]
BY DEF Counted

LEMMA EngineInvInit ==
    ASSUME EngineInit
    PROVE  EngineInv
<1>1. EngineTypeOK
  BY EngineAssumption, CountedType, NewEngineType DEF EngineInit, EngineTypeOK
<1>2. Readable
  BY ReplaysEmpty DEF EngineInit, Readable
<1>3. Locking
  BY EngineAssumption DEF EngineInit, Locking, Writing
<1>4. Recorded /\ Answers
  BY EmptySet DEF EngineInit, Recorded, Answers, Logged
<1> QED
  BY <1>1, <1>2, <1>3, <1>4 DEF EngineInv, FilesAgree, EngineInit

-----------------------------------------------------------------------------
(* One step *)

LEMMA BeginsInv ==
    ASSUME EngineInv, NEW p \in Exec, NEW m, NEW entries, NEW read, Begins(p, m, entries, read)
    PROVE  EngineInv'
<1> USE DEF EngineInv, Begins, Starts, disk
<1>0. entries \in Seq(Event)
  BY ReplaysType
<1>1. EngineTypeOK'
  BY <1>0, EngineAssumption DEF EngineTypeOK
<1>2. Readable'
  BY DEF Readable, EngineTypeOK
<1>3. Locking'
  BY DEF Locking, Writing, EngineTypeOK
<1>4. FilesAgree'
  BY DEF FilesAgree
<1>5. \A e : Over(e) => Over(e)'
  BY DEF Over
<1>6. Recorded'
  BY <1>5 DEF Recorded, EngineTypeOK
<1>7. \A e : Remains(e) => Remains(e)'
  BY <1>5 DEF Remains, Held, EngineTypeOK
<1>8. Answers'
  BY <1>7 DEF Answers, EngineTypeOK
<1> QED
  BY <1>1, <1>2, <1>3, <1>4, <1>6, <1>8

LEMMA LockFilesInv ==
    ASSUME EngineInv, NEW p \in Exec, LockFiles(p)
    PROVE  EngineInv'
<1> USE DEF EngineInv, LockFiles, told
<1>1. EngineTypeOK'
  BY DEF EngineTypeOK
<1>2. Readable'
  BY DEF Readable
<1>3. Locking'
  BY EngineAssumption DEF Locking, Writing, EngineTypeOK
<1>4. FilesAgree'
  BY DEF FilesAgree
<1>5. Recorded'
  BY DEF Recorded, Over
<1>6. \A e : Remains(e) => Remains(e)'
  BY DEF Remains, Held, Over, EngineTypeOK
<1>7. Answers'
  BY <1>6 DEF Answers, EngineTypeOK
<1> QED
  BY <1>1, <1>2, <1>3, <1>4, <1>5, <1>7

LEMMA WriteSnapshotInv ==
    ASSUME EngineInv, NEW p \in Exec, WriteSnapshot(p)
    PROVE  EngineInv'
<1> USE DEF EngineInv, WriteSnapshot, told
<1>1. EngineTypeOK'
  BY CountedType DEF EngineTypeOK
<1>2. Readable'
  BY DEF Readable
<1>3. Locking'
  BY EngineAssumption DEF Locking, Writing, EngineTypeOK
<1>4. FilesAgree'
  BY DEF FilesAgree
<1>5. Recorded'
  BY DEF Recorded, Over
<1>6. \A e : Remains(e) => Remains(e)'
  BY DEF Remains, Held, Over, EngineTypeOK
<1>7. Answers'
  BY <1>6 DEF Answers, EngineTypeOK
<1> QED
  BY <1>1, <1>2, <1>3, <1>4, <1>5, <1>7

LEMMA TruncateInv ==
    ASSUME EngineInv, NEW p \in Exec, Truncate(p)
    PROVE  EngineInv'
<1> USE DEF EngineInv, Truncate, told
<1>1. EngineTypeOK'
  BY DEF EngineTypeOK, Logged, Recorded
<1>2. Readable'
  BY DEF Readable
<1>3. Locking'
  BY EngineAssumption DEF Locking, Writing, EngineTypeOK
<1>4. FilesAgree'
  BY DEF FilesAgree
<1>5. Recorded'
  BY DEF Recorded, Over, Logged
<1>6. ASSUME NEW e, Remains(e)
      PROVE  Remains(e)'
  <2>1. Held(e) => e \in Logged(events)
    BY DEF Held, Locking, Writing, EngineTypeOK
  <2>2. e \in ToSet(journal[p]) => Held(e)'
    BY DEF Held, EngineTypeOK
  <2>3. e \in Logged(events) \ ToSet(journal[p]) => Over(e) \/ e \in overrun'
    BY DEF Recorded
  <2> QED
    BY <1>6, <2>1, <2>2, <2>3 DEF Remains, Over
<1>7. Answers'
  BY <1>6 DEF Answers, EngineTypeOK
<1> QED
  BY <1>1, <1>2, <1>3, <1>4, <1>5, <1>7

LEMMA WriteEventsInv ==
    ASSUME EngineInv, NEW p \in Exec, WriteEvents(p)
    PROVE  EngineInv'
<1> USE DEF EngineInv, WriteEvents, told
<1>0. journal[p] # Torn /\ Logged(journal[p]) = ToSet(journal[p])
  BY TornAssumption DEF EngineTypeOK, Logged
<1>1. EngineTypeOK'
  BY DEF EngineTypeOK
<1>2. Readable'
  BY DEF Readable
<1>3. Locking'
  BY EngineAssumption DEF Locking, Writing, EngineTypeOK
<1>4. FilesAgree'
  BY DEF FilesAgree, Readable, Locking
<1>5. Recorded'
  BY <1>0 DEF Recorded, Over
<1>6. ASSUME NEW e, Remains(e)
      PROVE  Remains(e)'
  <2>1. Held(e) => e \in ToSet(journal[p])
    BY DEF Held, Locking, Writing, EngineTypeOK
  <2>2. ~\E q \in Exec : stage'[q] = "events"
    BY DEF Locking, Writing, EngineTypeOK
  <2>3. e \in ToSet(journal[p]) => Held(e)'
    BY <1>0, <2>2 DEF Held
  <2> QED
    BY <1>6, <2>1, <2>3 DEF Remains, Over
<1>7. Answers'
  <2>1. \A e \in ToSet(journal[p]) : Remains(e)
    BY DEF Remains, Held
  <2> QED
    BY <1>6, <2>1 DEF Answers, EngineTypeOK
<1> QED
  BY <1>1, <1>2, <1>3, <1>4, <1>5, <1>7

\* What a persist that stops leaves behind is kept, or counted as overrun.
LEMMA StopsKept ==
    ASSUME EngineInv, NEW p \in Exec, Stops(p), NEW to \in {"answer", "idle"},
           stage' = [stage EXCEPT ![p] = to],
           journal' = journal \/ \E entries : journal' = [journal EXCEPT ![p] = entries],
           NEW e, Remains(e)
    PROVE  Remains(e)'
<1> USE DEF EngineInv, Stops
<1>1. Over(e) => Over(e)'
  BY DEF Over
<1>2. e \in overrun => e \in overrun'
  OBVIOUS
<1>3. CASE Held(e) /\ stage[p] = "events"
  <2>1. e \in ToSet(journal[p])
    BY <1>3 DEF Held, Locking, Writing, EngineTypeOK
  <2> QED
    BY <1>3, <2>1 DEF Remains
<1>4. CASE Held(e) /\ stage[p] # "events"
  <2>1. \A q \in Exec : stage'[q] = "events" <=> stage[q] = "events"
    BY <1>4 DEF EngineTypeOK
  <2>2. \A q \in Exec : stage[q] = "events" => journal'[q] = journal[q]
    BY <1>4 DEF EngineTypeOK
  <2>3. Held(e)'
    BY <1>4, <2>1, <2>2 DEF Held
  <2> QED
    BY <2>3 DEF Remains
<1> QED
  BY <1>1, <1>2, <1>3, <1>4 DEF Remains

LEMMA StopsParts ==
    ASSUME EngineInv, NEW p \in Exec, Stops(p)
    PROVE  /\ flock' \in Exec \cup {Nobody}
           /\ overrun' \subseteq Event
           /\ \A q \in Exec \ {p} : flock' = q <=> flock = q
           /\ flock' # p
<1>1. journal[p] \in Seq(Event)
  BY DEF EngineInv, EngineTypeOK
<1>2. ToSet(journal[p]) \subseteq Event
  BY <1>1, SetType
<1> QED
  BY <1>2, EngineAssumption DEF EngineInv, EngineTypeOK, Stops

LEMMA PersistFailsInv ==
    ASSUME EngineInv, NEW p \in Exec, PersistFails(p)
    PROVE  EngineInv'
<1> USE DEF EngineInv, PersistFails
<1>0. Stops(p)
  OBVIOUS
<1>1. EngineTypeOK'
  BY <1>0, StopsParts DEF EngineTypeOK, Stops
<1>2. Readable'
  BY DEF Readable, Stops
<1>3. Locking'
  BY <1>0, StopsParts DEF Locking, Writing, EngineTypeOK, Stops
<1>4. FilesAgree'
  BY DEF FilesAgree, Stops
<1>5. Recorded'
  BY DEF Recorded, Over, Stops
<1>6. \A e : Remains(e) => Remains(e)'
  BY <1>0, StopsKept
<1>7. Answers'
  <2>1. \A e \in ToSet(journal[p]) \ Logged(base[p]) : Remains(e)'
    BY DEF Remains, Stops
  <2>2. answered' = answered /\ journal' = journal /\ base' = base
    OBVIOUS
  <2>3. \A q \in Exec \ {p} : stage'[q] = stage[q]
    BY DEF EngineTypeOK
  <2> QED
    BY <1>6, <2>1, <2>2, <2>3 DEF Answers
<1> QED
  BY <1>1, <1>2, <1>3, <1>4, <1>5, <1>7

\* An invocation that is gone holds nothing and knows nothing.
LEMMA GoneParts ==
    ASSUME EngineInv, NEW p \in Exec, Gone(p)
    PROVE  /\ stage' \in [Exec -> {"idle", "persist", "snapshot", "truncate", "events", "answer"}]
           /\ memory' \in [Exec -> Memory]
           /\ journal' \in [Exec -> Seq(Event)]
           /\ base' \in [Exec -> Seq(Event) \cup {Torn}]
           /\ stage'[p] = "idle" /\ journal'[p] = <<>> /\ base'[p] = Torn /\ memory'[p] = NewEngine
           /\ \A q \in Exec \ {p} : /\ stage'[q] = stage[q] /\ journal'[q] = journal[q]
                                    /\ base'[q] = base[q] /\ memory'[q] = memory[q]
BY NewEngineType DEF EngineInv, EngineTypeOK, Gone

LEMMA GoneInv ==
    ASSUME EngineInv, NEW p \in Exec, Gone(p),
           UNCHANGED <<events, backlog, commands, accepted, whole>>,
           /\ flock' \in Exec \cup {Nobody}
           /\ flock' # p
           /\ \A q \in Exec \ {p} : flock' = q <=> flock = q,
           overrun' \subseteq Event,
           answered' \subseteq Event,
           \A e : Remains(e) => Remains(e)',
           \A e \in answered' : Remains(e)
    PROVE  EngineInv'
<1> USE DEF EngineInv
<1>1. EngineTypeOK'
  BY GoneParts DEF EngineTypeOK
<1>2. Readable'
  BY GoneParts, ReplaysEmpty DEF Readable
<1>3. Locking'
  BY GoneParts DEF Locking, Writing
<1>4. FilesAgree'
  BY DEF FilesAgree
<1>5. Recorded'
  BY GoneParts, EmptySet DEF Recorded, Over, Logged
<1>6. Answers'
  BY GoneParts, EmptySet DEF Answers
<1> QED
  BY <1>1, <1>2, <1>3, <1>4, <1>5, <1>6

LEMMA KilledInv ==
    ASSUME EngineInv, NEW p \in Exec, Killed(p)
    PROVE  EngineInv'
<1>1. Gone(p) /\ answered' = answered
  BY DEF Killed
<1>2. answered' \subseteq Event /\ \A e \in answered' : Remains(e)
  BY <1>1 DEF EngineInv, EngineTypeOK, Answers
<1>3. CASE Stops(p)
  <2>1. UNCHANGED <<events, backlog, commands, accepted, whole>>
    BY <1>3 DEF Stops
  <2>2. \A e : Remains(e) => Remains(e)'
    BY <1>1, <1>3, StopsKept DEF Gone
  <2> QED
    BY <1>1, <1>2, <1>3, <2>1, <2>2, StopsParts, GoneInv
<1>4. CASE stage[p] = "answer" /\ UNCHANGED <<disk, commands, accepted, whole, overrun>>
  <2>1. UNCHANGED <<events, backlog, commands, accepted, whole, flock, overrun>>
    BY <1>4 DEF disk
  <2>2. flock # p /\ flock \in Exec \cup {Nobody} /\ overrun \subseteq Event
    BY <1>4 DEF EngineInv, Locking, Writing, EngineTypeOK
  <2>3. \A e : Remains(e) => Remains(e)'
    BY <1>1, <1>4, <2>1, GoneParts DEF Remains, Held, Over
  <2> QED
    BY <1>1, <1>2, <2>1, <2>2, <2>3, GoneInv
<1> QED
  BY <1>3, <1>4 DEF Killed

LEMMA AnswerInv ==
    ASSUME EngineInv, NEW p \in Exec, Answer(p)
    PROVE  EngineInv'
<1>1. /\ Gone(p) /\ stage[p] = "answer"
      /\ answered' = answered \cup (ToSet(journal[p]) \ Logged(base[p]))
      /\ UNCHANGED <<events, backlog, commands, accepted, whole, flock, overrun>>
  BY DEF Answer, disk
<1>2. flock # p /\ flock \in Exec \cup {Nobody} /\ overrun \subseteq Event
  BY <1>1 DEF EngineInv, Locking, Writing, EngineTypeOK
<1>3. \A e : Remains(e) => Remains(e)'
  BY <1>1, GoneParts DEF Remains, Held, Over
<1>4. answered' \subseteq Event
  <2>1. journal[p] \in Seq(Event) /\ answered \subseteq Event
    BY DEF EngineInv, EngineTypeOK
  <2>2. ToSet(journal[p]) \subseteq Event
    BY <2>1, SetType
  <2> QED
    BY <1>1, <2>1, <2>2
<1>5. \A e \in answered' : Remains(e)
  BY <1>1 DEF EngineInv, Answers
<1> QED
  BY <1>1, <1>2, <1>3, <1>4, <1>5, GoneInv

LEMMA EngineInvNext ==
    ASSUME EngineInv, [EngineNext]_engineVars
    PROVE  EngineInv'
<1>1. CASE UNCHANGED engineVars
  BY <1>1 DEF engineVars, disk, local, told, EngineInv, EngineTypeOK, Readable, Locking,
              FilesAgree, Recorded, Answers, Remains, Held, Over
<1>2. CASE EngineNext
  <2>1. PICK p \in Exec : ExecStep(p)
    BY <1>2 DEF EngineNext
  <2>2. CASE \E e \in Event, compacting \in BOOLEAN : Begin(p, e, compacting)
    BY <2>2, BeginBegins, BeginsInv
  <2>3. CASE BeginInit(p)
    BY <2>3, InitBegins, BeginsInv
  <2> QED
    BY <2>1, <2>2, <2>3, LockFilesInv, WriteSnapshotInv, TruncateInv, WriteEventsInv,
       PersistFailsInv, KilledInv, AnswerInv DEF ExecStep
<1> QED
  BY <1>1, <1>2

LEMMA EngineInvHolds == EngineSpec => []EngineInv
<1>1. EngineInit => EngineInv
  BY EngineInvInit
<1>2. EngineInv /\ [EngineNext]_engineVars => EngineInv'
  BY EngineInvNext
<1> QED
  BY <1>1, <1>2, PTL DEF EngineSpec

LEMMA EngineInvImplies ==
    ASSUME EngineInv
    PROVE  EngineTypeOK /\ LogReplays /\ FilesAgree /\ AnsweredKept
<1>1. LogReplays
  BY ReplaysAccepts DEF EngineInv, Readable, LogReplays
<1>2. AnsweredKept
  <2> SUFFICES ASSUME flock = Nobody, NEW e \in answered
               PROVE  e \in Logged(events) \cup overrun \/ Over(e)
    BY DEF AnsweredKept
  <2>1. ~\E p \in Exec : stage[p] = "events"
    BY EngineAssumption DEF EngineInv, Locking, Writing
  <2> QED
    BY <2>1 DEF EngineInv, Answers, Remains, Held
<1> QED
  BY <1>1, <1>2 DEF EngineInv

\* For any number of invocations, however they overlap, fail or are killed: what
\* events.json and the memory of an invocation hold are logs and engines.
THEOREM EngineTypes == EngineSpec => []EngineTypeOK
BY EngineInvHolds, EngineInvImplies, PTL

\* load never passes over an event of a log that exec has written: whatever overlaps,
\* is killed or compacts, replay_event refuses nothing.
THEOREM EveryLogReplays == EngineSpec => []LogReplays
BY EngineInvHolds, EngineInvImplies, PTL

\* After a persist that went through, replaying events.json gives the requests that
\* snapshot.json counts as pending and as notified, compacted or not.
THEOREM SnapshotAgrees == EngineSpec => []FilesAgree
BY EngineInvHolds, EngineInvImplies, PTL

\* An event whose caller was answered is in events.json, but for the requests that have
\* ended and the ways in which persist is recorded to have lost it.
THEOREM AnswersAreKept == EngineSpec => []AnsweredKept
BY EngineInvHolds, EngineInvImplies, PTL

=============================================================================
