----------------------------- MODULE MCTeamPhase ------------------------------
(* Instances of TeamPhase for TLC. *)
EXTENDS TeamPhase

CONSTANTS loop, another

\* A team that is run by runtime-cli and looked at by somebody else, in both launch
\* modes, and one that only status calls poll.
MCTeams == [prompt : BOOLEAN, looping : {{loop}}] \cup {[prompt |-> TRUE, looping |-> {}]}

\* A team that only status calls poll.
StatusTeams == {[prompt |-> FALSE, looping |-> {}]}
=============================================================================
