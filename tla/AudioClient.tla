----------------------------- MODULE AudioClient -----------------------------
(* The GAP client and the jitter buffer as data types, for one media source    *)
(* (crates/gap/src/client.rs and jitter.rs).  An Option is a set of at most    *)
(* one element.  The 16-bit RTP sequence is taken modulo SeqMod, and HalfRange *)
(* is the 0x7FFF of the late test.  An overlap window that has expired is the  *)
(* same as none: every use of old_windows asks for expires > now.              *)
EXTENDS Naturals, Sequences

CONSTANTS SeqMod, HalfRange, JitterCapacity

NewGapClient == [out_rtp_seq |-> 0, in_hw |-> {}, epoch |-> {}, old_windows |-> {}]

SyncGapEpoch(client, epoch) ==
    IF client.epoch = {epoch} THEN client
    ELSE [out_rtp_seq |-> 0, in_hw |-> {}, epoch |-> {epoch},
          old_windows |-> client.old_windows \cup
             {[epoch |-> e, in_hw |-> client.in_hw] :
                 e \in IF client.in_hw = {} THEN {} ELSE client.epoch}]

\* send: the number is used up whether or not the node can send
NextRtpSeq(client, epoch) ==
    LET synced == SyncGapEpoch(client, epoch)
    IN  [synced EXCEPT !.out_rtp_seq = (@ + 1) % SeqMod]

\* Mutant: the half-range test is missing
LateWithoutWrap(in_hw, seq) ==
    LET hw == IF in_hw = {} THEN 0 ELSE CHOOSE h \in in_hw : TRUE
    IN  seq <= hw

Late(in_hw, seq) ==
    LET hw == IF in_hw = {} THEN 0 ELSE CHOOSE h \in in_hw : TRUE
    IN  seq <= hw /\ hw - seq <= HalfRange

\* What accept returns for a synchronised client ...
Verdict(client, seq, phase, epoch) ==
    LET old == {w \in client.old_windows : w.epoch = phase}
    IN  CASE phase = epoch -> IF Late(client.in_hw, seq) THEN "Late" ELSE "New"
          [] phase # epoch /\ old # {} ->
                IF \E w \in old : Late(w.in_hw, seq) THEN "Late" ELSE "New"
          [] OTHER -> "EpochStale"

\* Mutant: the window of the old epoch is not moved
MarkSeenNowOnly(client, seq, phase, epoch) ==
    IF phase = epoch THEN [client EXCEPT !.in_hw = {seq}] ELSE client

\* ... and what a New frame does to its window
MarkSeen(client, seq, phase, epoch) ==
    IF phase = epoch THEN [client EXCEPT !.in_hw = {seq}]
    ELSE [client EXCEPT !.old_windows =
             {IF w.epoch = phase THEN [w EXCEPT !.in_hw = {seq}] ELSE w : w \in @}]

------------------------------------------------------------------------------
(* JitterBuffer, one source.  The number is a u32 here: next is not reduced    *)
(* modulo SeqMod.                                                              *)

NewSource == [waiting |-> << >>, next |-> {}]

IsTooLate(source, seq) == \E n \in source.next : seq < n

\* The frame goes before the first later one
Position(waiting, frame) ==
    LET places == {i \in DOMAIN waiting : waiting[i].seq > frame.seq}
                     \cup {Len(waiting) + 1}
    IN  CHOOSE i \in places : \A j \in places : i <= j

InsertAt(waiting, frame) ==
    LET pos == Position(waiting, frame)
    IN  [i \in 1 .. Len(waiting) + 1 |->
            IF i < pos THEN waiting[i] ELSE IF i = pos THEN frame ELSE waiting[i - 1]]

\* push: Late and repeated frames change nothing; over capacity the first goes
PushFrame(source, frame) ==
    LET waiting == InsertAt(source.waiting, frame)
    IN  IF \/ IsTooLate(source, frame.seq)
           \/ \E i \in DOMAIN source.waiting : source.waiting[i].seq = frame.seq
        THEN source
        ELSE [source EXCEPT !.waiting =
                IF Len(waiting) > JitterCapacity THEN Tail(waiting) ELSE waiting]

CanPopInOrder(source) ==
    /\ source.waiting # << >>
    /\ \A n \in source.next : Head(source.waiting).seq = n

\* Mutant: the frame just played is still expected
PopSameNext(source) ==
    [waiting |-> Tail(source.waiting), next |-> {Head(source.waiting).seq}]

\* pop_in_order when it may, pop_force at the playout deadline
Pop(source) ==
    [waiting |-> Tail(source.waiting), next |-> {Head(source.waiting).seq + 1}]

==============================================================================
