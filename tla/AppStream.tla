------------------------------ MODULE AppStream ------------------------------
(* The application streams of a group: payloads sealed, numbered and framed by *)
(* one GroupNode and delivered by another, over a network that loses, repeats  *)
(* and reorders frames, while members advance through epochs, restart and fail *)
(* to open what they receive.                                                  *)
(*                                                                             *)
(* The control plane is abstracted to Advance: a member that leaves an epoch   *)
(* goes to the next one with the tid every member has there                    *)
(* (SameEpochSameTid of ControlPlane).  What an application keeps over a       *)
(* restart is the blob of export_out_seq; it writes the blob before it hands a *)
(* frame to the transport, so that no transmitted number can be issued again.  *)
EXTENDS GroupNode, Sequences

CONSTANTS Sender,      \* members whose applications send
          Restarting,  \* members that may be rebuilt
          MaxSeq,      \* bound: frames of one stream in one epoch
          MaxEpoch,    \* bound: largest epoch
          MaxLife      \* bound: restarts of one member

ASSUME AppAssumption == Sender \subseteq Member /\ Restarting \subseteq Member
ASSUME AppBoundAssumption == MaxSeq \in Nat /\ MaxEpoch \in Nat /\ MaxLife \in Nat

VARIABLES endpoint,     \* endpoint[m]: the GroupNode of member m
          outbox,       \* outbox[m]: frames built and not yet handed to the transport
          saved,        \* saved[m]: the counters of the last export_out_seq
          transmitted,  \* every frame ever transmitted
          life,         \* life[m]: how often m was rebuilt
          got           \* got[m]: the PayloadReceived events of m, in order (history)

streamvars == <<endpoint, outbox, saved, transmitted, life, got>>

AppStreamType == StreamType \ {"Control"}

\* life is the sender's; it tells apart two frames that carry the same number
Frame == [from : Member, st : AppStreamType, epoch : Nat, tid : Nat,
          critical : BOOLEAN, seq : Nat, life : Nat]

Receipt == [life : Nat, epoch : Nat, st : AppStreamType, from : Member, seq : Nat]

\* Every field keeps its type and no node is outside the states that a node
\* reaches once it is part of a group.
StreamTypeOK ==
    /\ endpoint \in [Member -> GroupNodeType]
    /\ \A m \in Member : endpoint[m].state \in {"Active", "Resyncing", "Failed"}
    /\ outbox \in [Member -> SUBSET Frame]
    /\ saved \in [Member -> [StreamType -> Nat]]
    /\ transmitted \in SUBSET Frame
    /\ life \in [Member -> Nat]
    /\ got \in [Member -> Seq(Receipt)]

StreamInit ==
    /\ endpoint = [m \in Member |-> BootstrapAsCreator(New, 1)]
    /\ outbox = [m \in Member |-> {}]
    /\ saved = [m \in Member |-> NoOutSeq]
    /\ transmitted = {}
    /\ life = [m \in Member |-> 0]
    /\ got = [m \in Member |-> << >>]

------------------------------------------------------------------------------
(* Sending *)

PayloadFrame(m, st, critical) ==
    [from |-> m, st |-> st, epoch |-> endpoint[m].current_epoch,
     tid |-> endpoint[m].last_transition_id, critical |-> critical,
     seq |-> endpoint[m].out_seq[st] + 1, life |-> life[m]]

Send(m, st, critical) ==
    /\ m \in Sender
    /\ endpoint[m].out_seq[st] < MaxSeq
    /\ CanSend(endpoint[m])
    /\ endpoint' = [endpoint EXCEPT ![m] = SendPayload(@, st)]
    /\ outbox' = [outbox EXCEPT ![m] = @ \cup {PayloadFrame(m, st, critical)}]
    /\ UNCHANGED <<saved, transmitted, life, got>>

\* seal returns an error after next_seq: the number is used up, no frame exists
SealFails(m, st) ==
    /\ m \in Sender
    /\ endpoint[m].out_seq[st] < MaxSeq
    /\ CanSend(endpoint[m])
    /\ endpoint' = [endpoint EXCEPT ![m] = SendPayload(@, st)]
    /\ UNCHANGED <<outbox, saved, transmitted, life, got>>

ExportOutSeq(nd) == nd.out_seq

Save(m) ==
    /\ saved' = [saved EXCEPT ![m] = ExportOutSeq(endpoint[m])]
    /\ UNCHANGED <<endpoint, outbox, transmitted, life, got>>

Transmit(m, f) ==
    /\ f \in outbox[m]
    /\ saved[m][f.st] >= f.seq
    /\ outbox' = [outbox EXCEPT ![m] = @ \ {f}]
    /\ transmitted' = transmitted \cup {f}
    /\ UNCHANGED <<endpoint, saved, life, got>>

------------------------------------------------------------------------------
(* Receiving: deliver_frame.  A frame that fails its other checks changes      *)
(* nothing.                                                                    *)

\* The transition id of a CRITICAL frame is checked against the last one applied
TransitionIdOk(nd, f) == f.critical => f.tid = nd.last_transition_id

\* Mutant: the frame of a past epoch is still delivered
PassesAnyPastEpoch(nd, f) ==
    /\ f.epoch <= nd.current_epoch
    /\ TransitionIdOk(nd, f)
    /\ Fresh(nd, f.st, f.from, f.seq)

Passes(nd, f) ==
    /\ f.epoch = nd.current_epoch
    /\ TransitionIdOk(nd, f)
    /\ Fresh(nd, f.st, f.from, f.seq)

\* The receipt says which frame the event was for and in which life
Deliver(m, f) ==
    /\ f.from # m
    /\ Passes(endpoint[m], f)
    /\ endpoint' = [endpoint EXCEPT ![m] = Record(@, f.st, f.from, f.seq)]
    /\ got' = [got EXCEPT ![m] = Append(@,
                 [life |-> life[m], epoch |-> f.epoch,
                  st |-> f.st, from |-> f.from, seq |-> f.seq])]
    /\ UNCHANGED <<outbox, saved, transmitted, life>>

\* open fails after the window has moved: the frame is gone
OpenFails(m, f) ==
    /\ f.from # m
    /\ Passes(endpoint[m], f)
    /\ endpoint' = [endpoint EXCEPT ![m] = Record(@, f.st, f.from, f.seq)]
    /\ UNCHANGED <<outbox, saved, transmitted, life, got>>

EpochMismatch(m, f) ==
    /\ f.from # m
    /\ f.epoch # endpoint[m].current_epoch
    /\ endpoint' = [endpoint EXCEPT ![m] = TriggerResync(@)]
    /\ UNCHANGED <<outbox, saved, transmitted, life, got>>

------------------------------------------------------------------------------
(* Epochs and restarts *)

Advance(m) ==
    /\ endpoint[m].current_epoch < MaxEpoch
    /\ endpoint' = [endpoint EXCEPT ![m] = ApplyTransition(@, @.current_epoch)]
    /\ UNCHANGED <<outbox, saved, transmitted, life, got>>

\* Mutant: the counters are not restored
RebuiltNodeFromNew(nd, counters) == Rebuild(New, nd.current_epoch)

\* A node rebuilt from the MLS state, which holds the epoch, and the saved blob
RebuiltNode(nd, counters) ==
    Rebuild([nd EXCEPT !.out_seq = counters], nd.current_epoch)

Restart(m) ==
    /\ m \in Restarting
    /\ life[m] < MaxLife
    /\ endpoint' = [endpoint EXCEPT ![m] = RebuiltNode(@, saved[m])]
    /\ outbox' = [outbox EXCEPT ![m] = {}]
    /\ life' = [life EXCEPT ![m] = @ + 1]
    /\ UNCHANGED <<saved, transmitted, got>>

StreamNext ==
    \/ \E m \in Member, st \in AppStreamType :
          \/ \E critical \in BOOLEAN : Send(m, st, critical)
          \/ SealFails(m, st)
    \/ \E m \in Member :
          \/ Save(m) \/ Advance(m) \/ Restart(m)
          \/ \E f \in outbox[m] : Transmit(m, f)
          \/ \E f \in transmitted : Deliver(m, f) \/ OpenFails(m, f) \/ EpochMismatch(m, f)

StreamSpec == StreamInit /\ [][StreamNext]_streamvars

------------------------------------------------------------------------------
(* Properties *)

SameStream(r, s) ==
    r.life = s.life /\ r.epoch = s.epoch /\ r.st = s.st /\ r.from = s.from

\* Within one life of the receiver, the payloads that a sender numbered in one
\* epoch are delivered in that order and none twice, whatever the network
\* repeats or reorders.  apply_transition forgets the replay window while the
\* old frames are still under way, so this needs the epoch check as well.
InOrderOnce ==
    \A m \in Member : \A i, j \in DOMAIN got[m] :
        i < j /\ SameStream(got[m][i], got[m][j]) => got[m][i].seq < got[m][j].seq

\* What a sender transmits in an epoch is above everything it transmitted there
\* before, restarts included: restore_out_seq resumes above the high-water
\* marks that peers can have recorded, so a number names one frame.
ResumesAbove ==
    /\ \A f \in transmitted :
          f.epoch = endpoint[f.from].current_epoch => f.seq <= endpoint[f.from].out_seq[f.st]
    /\ \A f, g \in transmitted :
          f.from = g.from /\ f.st = g.st /\ f.epoch = g.epoch /\ f.seq = g.seq => f = g

\* Stated by the comment on export_out_seq, "a rebuilt node must re-accept
\* re-fetched history": a frame of the epoch a rebuilt node is in, above its
\* window, passes the checks of deliver_frame.
RebuiltReaccepts ==
    \A m \in Member : \A f \in transmitted :
        /\ life[m] > 0 /\ f.from # m
        /\ f.epoch = endpoint[m].current_epoch
        /\ Fresh(endpoint[m], f.st, f.from, f.seq)
        => Passes(endpoint[m], f)

==============================================================================
