------------------------------ MODULE MCHandover ------------------------------
(* A coordinator is replaced: the election, and the race of two members that   *)
(* both originate transitions after it while a third only receives.  The two   *)
(* do not interact: a behaviour chooses one of them (part) and stays in it.    *)
EXTENDS MCElection, MCEpochBinding

VARIABLE part

mcvars == <<part, electionvars, vars>>

MCInit == part \in {"election", "race"} /\ ElectionInit /\ Init

ElectionStep == part = "election" /\ ElectionNext /\ UNCHANGED <<part, vars>>
RaceStep == part = "race" /\ Next /\ UNCHANGED <<part, electionvars>>

MCNext == ElectionStep \/ RaceStep

MCSpec == MCInit /\ [][MCNext]_mcvars

===============================================================================
