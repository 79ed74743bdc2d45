------------------------------ MODULE MCElection ------------------------------
(* Bounds for Election: the members of Repeating may claim twice, the others   *)
(* once.                                                                       *)
EXTENDS Election

CONSTANT Repeating

MCMaxClaims == [m \in Member |-> IF m \in Repeating THEN 2 ELSE 1]

==============================================================================
