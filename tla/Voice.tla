-------------------------------- MODULE Voice --------------------------------
(* One speaker and one listener: GapClient::send, a network that loses,        *)
(* repeats and reorders frames, GapClient::accept and a jitter buffer in front *)
(* of the decoder, while both sides move to new epochs.                        *)
(*                                                                             *)
(* With ViaNode, a frame first passes the epoch and replay checks of           *)
(* deliver_frame; without it, accept gets the payload directly, as in the      *)
(* client's own tests.  The application pushes New and Late frames of its      *)
(* epoch into the jitter buffer, which is there to reorder, and clears it when *)
(* the epoch advances.                                                         *)
EXTENDS AudioClient, Integers, FiniteSetsExt

CONSTANTS ViaNode,        \* is there a GroupNode between network and client
          MaxSpoken,      \* bound: frames in one epoch
          MaxVoiceEpoch   \* bound: largest epoch

VARIABLES speaker,     \* [client, epoch, sent]: the sending side
          air,         \* every audio frame ever sent; n is its position in its
                       \* epoch, the sequence_no of the GBP frame around it
          listener,    \* the receiving GapClient
          listener_epoch,   \* the epoch of the listener's node
          node_hw,     \* the node's replay window for the speaker's stream
          expired,     \* epochs whose T_overlap has passed at the listener
          jitter,      \* the listener's buffer
          arrival,     \* what became of the frame that arrived last (history)
          news,        \* the frames accepted as New, in order (history)
          played       \* the frames of this epoch that went to the decoder (history)

voicevars == <<speaker, air, listener, listener_epoch, node_hw, expired, jitter,
               arrival, news, played>>

ASSUME VoiceAssumption ==
    SeqMod \in Nat \ {0} /\ HalfRange \in Nat /\ MaxSpoken \in Nat /\ ViaNode \in BOOLEAN

\* Two regimes: the numbers of an epoch do not wrap, and any two of them are
\* within the reach of the late test

NoWrap == MaxSpoken < SeqMod
WithinReach == NoWrap /\ MaxSpoken <= HalfRange + 1

NoArrival == [verdict |-> "none", phase |-> 0, n |-> 0, gap |-> 0]

VoiceInit ==
    /\ speaker = [client |-> NewGapClient, epoch |-> 1, sent |-> 0]
    /\ air = {}
    /\ listener = NewGapClient
    /\ listener_epoch = 1
    /\ node_hw = 0
    /\ expired = {}
    /\ jitter = NewSource
    /\ arrival = NoArrival
    /\ news = << >>
    /\ played = << >>

Speak ==
    /\ speaker.sent < MaxSpoken
    /\ LET client == NextRtpSeq(speaker.client, speaker.epoch)
       IN  /\ speaker' = [speaker EXCEPT !.client = client, !.sent = @ + 1]
           /\ air' = air \cup {[n |-> speaker.sent + 1, seq |-> client.out_rtp_seq,
                                phase |-> speaker.epoch]}
    /\ UNCHANGED <<listener, listener_epoch, node_hw, expired, jitter, arrival, news,
                   played>>

SpeakerAdvances ==
    /\ speaker.epoch < MaxVoiceEpoch
    /\ speaker' = [speaker EXCEPT !.epoch = @ + 1, !.sent = 0]
    /\ UNCHANGED <<air, listener, listener_epoch, node_hw, expired, jitter, arrival,
                   news, played>>

------------------------------------------------------------------------------

\* How far the frame is ahead of the last New one of its epoch
SinceNew(f) ==
    f.n - Max({0} \cup {news[i].n : i \in {j \in DOMAIN news : news[j].phase = f.phase}})

\* The listener's node does not hand the frame up
NodeRejects(f) ==
    /\ ViaNode
    /\ f.phase # listener_epoch \/ f.n <= node_hw
    /\ arrival' = [verdict |-> IF f.phase # listener_epoch THEN "EpochMismatch"
                               ELSE "Replay",
                   phase |-> f.phase, n |-> f.n, gap |-> 0]
    /\ UNCHANGED <<speaker, air, listener, listener_epoch, node_hw, expired, jitter,
                   news, played>>

Arrive(f) ==
    /\ ViaNode => f.phase = listener_epoch /\ f.n > node_hw
    /\ LET client == SyncGapEpoch(listener, listener_epoch)
           verdict == Verdict(client, f.seq, f.phase, listener_epoch)
       IN  /\ listener' = IF verdict = "New"
                          THEN MarkSeen(client, f.seq, f.phase, listener_epoch)
                          ELSE client
           /\ news' = IF verdict = "New" THEN Append(news, f) ELSE news
           /\ jitter' = IF f.phase = listener_epoch THEN PushFrame(jitter, f)
                        ELSE jitter
           /\ arrival' = [verdict |-> verdict, phase |-> f.phase, n |-> f.n,
                          gap |-> SinceNew(f)]
    /\ node_hw' = IF ViaNode THEN f.n ELSE node_hw
    /\ UNCHANGED <<speaker, air, listener_epoch, expired, played>>

PlayInOrder ==
    /\ CanPopInOrder(jitter)
    /\ played' = Append(played, Head(jitter.waiting))
    /\ jitter' = Pop(jitter)
    /\ UNCHANGED <<speaker, air, listener, listener_epoch, node_hw, expired, arrival,
                   news>>

\* The playout deadline has come and the expected frame is missing
PlayForced ==
    /\ jitter.waiting # << >> /\ ~ CanPopInOrder(jitter)
    /\ played' = Append(played, Head(jitter.waiting))
    /\ jitter' = Pop(jitter)
    /\ UNCHANGED <<speaker, air, listener, listener_epoch, node_hw, expired, arrival,
                   news>>

ListenerAdvances ==
    /\ listener_epoch < MaxVoiceEpoch
    /\ listener_epoch' = listener_epoch + 1
    /\ node_hw' = 0
    /\ jitter' = NewSource
    /\ played' = << >>
    /\ UNCHANGED <<speaker, air, listener, expired, arrival, news>>

Expire(e) ==
    /\ e < listener_epoch /\ e \notin expired
    /\ expired' = expired \cup {e}
    /\ listener' = [listener EXCEPT !.old_windows = {w \in @ : w.epoch # e}]
    /\ UNCHANGED <<speaker, air, listener_epoch, node_hw, jitter, arrival, news,
                   played>>

VoiceNext ==
    \/ Speak \/ SpeakerAdvances \/ ListenerAdvances
    \/ PlayInOrder \/ PlayForced
    \/ \E f \in air : Arrive(f) \/ NodeRejects(f)
    \/ \E e \in 1 .. MaxVoiceEpoch : Expire(e)

VoiceSpec == VoiceInit /\ [][VoiceNext]_voicevars

------------------------------------------------------------------------------
(* Properties *)

\* The replay windows of GapClient::accept, the current one and those of the
\* overlap, accept a frame as New at most once and never after a later frame of
\* its epoch, however often and in whatever order it arrives.
AcceptedOnce ==
    \A i, j \in DOMAIN news :
        i < j /\ news[i].phase = news[j].phase => news[i].n < news[j].n

\* Stated by GapAccept::Late ("`rtp_sequence` was already seen"): while frames
\* arrive less than half the number range out of place, the client never takes
\* the same frame as New a second time.
NeverNewTwice ==
    (\A i, j \in DOMAIN news : i < j => news[i].n <= news[j].n + HalfRange)
        => \A i, j \in DOMAIN news : i # j => news[i] # news[j]

\* The decoder gets the frames of an epoch in the order they were spoken, none
\* twice, although they arrive out of order, repeated, evicted and forced out.
PlayedInOrder ==
    \A i, j \in DOMAIN played : i < j => played[i].n < played[j].n

\* Behind a node the late test never drops a fresh frame, also when the number
\* wraps, unless about half the number range was lost in one run: the wrapped
\* number then looks like a recent one.
FreshIsNew ==
    ViaNode /\ arrival.verdict = "Late" => arrival.gap >= SeqMod - HalfRange

\* Stated by accept ("EpochStale only when key_phase refers to an epoch that has
\* already expired its T_overlap window"): a frame of an earlier epoch is turned
\* away only after that epoch's overlap has expired.
OverlapHonoured ==
    arrival.verdict \in {"EpochStale", "EpochMismatch"} /\ arrival.phase < listener_epoch
        => arrival.phase \in expired

==============================================================================
