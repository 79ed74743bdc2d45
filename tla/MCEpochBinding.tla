---------------------------- MODULE MCEpochBinding ----------------------------
(* Bounds for EpochBinding: control frames per epoch of the originators, of    *)
(* the other founders and of late joiners.                                     *)
EXTENDS EpochBinding

CONSTANTS OriginatorFrames, FounderFrames, JoinerFrames

MCMaxSeq ==
    [m \in Member |-> CASE m \in Originator -> OriginatorFrames
                        [] m \in Founder \ Originator -> FounderFrames
                        [] OTHER -> JoinerFrames]

==============================================================================
