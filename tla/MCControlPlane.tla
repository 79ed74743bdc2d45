---------------------------- MODULE MCControlPlane ----------------------------
(* Bounds for ControlPlane: the coordinator may send CoordinatorFrames control *)
(* frames per epoch and every other member MemberFrames.                       *)
EXTENDS ControlPlane

CONSTANTS CoordinatorFrames, MemberFrames

MCMaxSeq == [m \in Member |-> IF m = Coordinator THEN CoordinatorFrames ELSE MemberFrames]

==============================================================================
