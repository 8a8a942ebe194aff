---------------------------- MODULE MCIntegration ----------------------------
(* One run for two components that share no state: the integration of the  *)
(* workers' commits and the runtime engine, each while the other rests.    *)
EXTENDS Integration, RuntimeEngine, TLC

VARIABLE which  \* the component that runs

Init ==
    /\ which \in {"git", "engine"}
    /\ GitInit /\ EngineInit
    /\ which = "engine" => detached

Next ==
    /\ UNCHANGED which
    /\ \/ which = "git" /\ GitNext /\ UNCHANGED engineVars
       \/ which = "engine" /\ EngineNext /\ UNCHANGED gitVars

Spec == Init /\ [][Next]_<<which, gitVars, engineVars>>

MCSymmetry == Permutations(Exec)
=============================================================================
