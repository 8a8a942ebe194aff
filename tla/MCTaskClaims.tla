---------------------------- MODULE MCTaskClaims -----------------------------
(* Instances of TaskClaims for TLC. *)
EXTENDS TaskClaims, TLC

CONSTANTS t1, t2

\* One task under contention: created for nobody or for a chosen worker, claimed
\* by both workers, taken over, edited; every operation races with every other.
OneDrafts == [task : {t1}, owner : Worker \cup {Nobody}, deps : {{}}]
OneRequests == {"claim", "finish", "release", "reclaim", "edit"} \X {t1}
OneDepChoices == {{}}
OneMaxClaims == [t \in Task |-> 2]
OneMaxVersion == [t \in Task |-> 2]

\* t2 may depend on t1, from the start or by an edit made while t1 is worked on
\* and t2 is claimed.
TwoDrafts == {[task |-> t1, owner |-> Nobody, deps |-> {}]}
             \cup [task : {t2}, owner : {Nobody}, deps : {{}, {t1}}]
TwoRequests == ({"claim", "finish"} \X {t1})
               \cup ({"claim", "edit"} \X {t2})
TwoDepChoices == {{}, {t1}}
TwoMaxClaims == [t \in Task |-> 1]
TwoMaxVersion == [t \in Task |-> 2]

MCSymmetry == Permutations(Proc) \cup Permutations(Worker)
=============================================================================
