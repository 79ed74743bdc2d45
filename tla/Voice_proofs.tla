---------------------------- MODULE Voice_proofs -----------------------------
(* Proofs about Voice: frames are accepted once, played in order and counted   *)
(* late only when they are.                                                    *)
EXTENDS Voice, TLAPS

-------------------------------------------------------------------------------
(* The inductive invariants *)

Option(S) == {o \in SUBSET S : \A x, y \in o : x = y}

\* A frame's number is its position in its epoch, modulo SeqMod.
Frame ==
    {f \in [n : 1 .. MaxSpoken, seq : 0 .. MaxSpoken, phase : Nat] : f.seq = f.n % SeqMod}

OverlapWindow == [epoch : Nat, in_hw : Option(0 .. MaxSpoken)]

GapClient == [out_rtp_seq : Nat, in_hw : Option(0 .. MaxSpoken), epoch : Option(Nat),
              old_windows : SUBSET OverlapWindow]

\* The speaker's client has numbered the frames of its epoch.
SpeakerInv ==
    /\ speaker \in [client : GapClient, epoch : Nat, sent : Nat]
    /\ speaker.sent <= MaxSpoken
    /\ IF speaker.client.epoch = {speaker.epoch}
       THEN speaker.client.out_rtp_seq = speaker.sent % SeqMod
       ELSE speaker.sent = 0
    /\ \A e \in speaker.client.epoch : e <= speaker.epoch
    /\ air \subseteq Frame

\* No frame is of a later epoch than the client's, and a window is at or above
\* every frame of its epoch that was New.
Covers(client, frames) ==
    /\ client \in GapClient
    /\ \A i \in DOMAIN frames : \E e \in client.epoch : frames[i].phase <= e
    /\ \A w \in client.old_windows : \E e \in client.epoch : w.epoch < e
    /\ \A i \in DOMAIN frames :
          frames[i].phase \in client.epoch => \E h \in client.in_hw : frames[i].seq <= h
    /\ \A w \in client.old_windows : \A i \in DOMAIN frames :
          frames[i].phase = w.epoch => \E h \in w.in_hw : frames[i].seq <= h

Ordered(frames) ==
    \A i, j \in DOMAIN frames :
        i < j /\ frames[i].phase = frames[j].phase => frames[i].n < frames[j].n

WindowInv ==
    /\ listener_epoch \in Nat
    /\ news \in Seq(Frame)
    /\ \A e \in listener.epoch : e <= listener_epoch
    /\ Covers(listener, news)
    /\ AcceptedOnce

\* Behind a node: the frames of the epoch that were New are at or below the
\* node's window, and the client's window is the number of the last of them.
Tracks(client, frames, e, hw) ==
    LET current == {i \in DOMAIN frames : frames[i].phase = e}
    IN  /\ client \in GapClient
        /\ \A c \in client.epoch : c <= e
        /\ \A i \in DOMAIN frames : frames[i].phase <= e
        /\ \A i \in current : frames[i].n <= hw
        /\ client.epoch # {e} \/ client.in_hw = {} => current = {}
        /\ client.epoch = {e} => \A h \in client.in_hw :
              \E i \in current :
                  h = frames[i].seq /\ \A j \in current : frames[j].n <= frames[i].n

NodeInv ==
    /\ listener_epoch \in Nat /\ node_hw \in Nat
    /\ news \in Seq(Frame)
    /\ Tracks(listener, news, listener_epoch, node_hw)
    /\ AcceptedOnce /\ FreshIsNew

Sorted(frames) == \A i, j \in DOMAIN frames : i < j => frames[i].seq < frames[j].seq

\* The buffer is sorted and holds no frame that was due; what was played is
\* below the number that is expected.
Buffers(source, frames) ==
    /\ source \in [waiting : Seq(Frame), next : Option(Nat)]
    /\ frames \in Seq(Frame)
    /\ Sorted(source.waiting) /\ Sorted(frames)
    /\ source.next = {} => frames = << >>
    /\ \A k \in source.next :
          /\ \A i \in DOMAIN source.waiting : source.waiting[i].seq >= k
          /\ \A i \in DOMAIN frames : frames[i].seq < k

JitterInv == Buffers(jitter, played)

-------------------------------------------------------------------------------
(* Numbers modulo SeqMod *)

LEMMA DivMod ==
    ASSUME NEW m \in Nat \ {0}, NEW n \in Nat
    PROVE  /\ n = m * (n \div m) + (n % m) /\ n \div m \in Nat
           /\ n % m \in Nat /\ n % m < m /\ n % m <= n
OBVIOUS

LEMMA Times ==
    ASSUME NEW m \in Nat, NEW p \in Nat, NEW q \in Nat, p > q
    PROVE  m * p >= m * q + m
<1>1. p - q - 1 \in Nat
  OBVIOUS
<1>2. m * (p - q - 1) >= 0
  BY <1>1
<1>3. m * (p - q - 1) = m * p - m * q - m
  OBVIOUS
<1>4. QED
  BY <1>2, <1>3

\* Quotient and remainder are unique.
LEMMA Remainder ==
    ASSUME NEW m \in Nat \ {0}, NEW q \in Nat, NEW r \in Nat, r < m,
           NEW n \in Nat, n = m * q + r
    PROVE  n % m = r
<1> DEFINE p == n \div m
<1>1. n = m * p + (n % m) /\ p \in Nat /\ n % m \in Nat /\ n % m < m
  BY DivMod, Zenon
<1> HIDE DEF p
<1>2. m * p \in Nat /\ m * q \in Nat
  BY <1>1
<1>3. ~ (p > q)
  <2>1. p > q => m * p >= m * q + m
    BY <1>1, Times, Zenon
  <2>2. QED
    BY <1>1, <1>2, <2>1
<1>4. ~ (q > p)
  <2>1. q > p => m * q >= m * p + m
    BY <1>1, Times, Zenon
  <2>2. QED
    BY <1>1, <1>2, <2>1
<1>5. p = q
  BY <1>1, <1>3, <1>4
<1>6. QED
  BY <1>1, <1>5

LEMMA SmallRemainder ==
    ASSUME NEW m \in Nat, NEW n \in Nat, n < m
    PROVE  n % m = n
<1>1. n = m * 0 + n /\ m \in Nat \ {0}
  OBVIOUS
<1>2. QED
  BY <1>1, Remainder

\* Counting modulo m counts positions modulo m.
LEMMA NextRemainder ==
    ASSUME NEW m \in Nat \ {0}, NEW n \in Nat
    PROVE  ((n % m) + 1) % m = (n + 1) % m
<1> DEFINE q == n \div m
           r == n % m
<1>1. n = m * q + r /\ q \in Nat /\ r \in Nat /\ r < m
  BY DivMod, Zenon
<1> HIDE DEF q, r
<1>2. CASE r + 1 < m
  <2>1. n + 1 = m * q + (r + 1)
    BY <1>1
  <2>2. (n + 1) % m = r + 1
    BY <1>1, <1>2, <2>1, Remainder
  <2>3. (r + 1) % m = r + 1
    BY <1>1, <1>2, SmallRemainder
  <2>4. QED
    BY <2>2, <2>3, Zenon DEF r
<1>3. CASE r + 1 = m
  <2>1. n + 1 = m * (q + 1) + 0 /\ q + 1 \in Nat /\ m = m * 1 + 0
    BY <1>1, <1>3
  <2>2. (n + 1) % m = 0 /\ m % m = 0
    BY <1>1, <2>1, Remainder
  <2>3. QED
    BY <2>2, <1>3, Zenon DEF r
<1>4. QED
  BY <1>1, <1>2, <1>3

\* A later position whose number is not larger is almost a whole round ahead.
LEMMA Ahead ==
    ASSUME NEW m \in Nat \ {0}, NEW k \in Nat, NEW n \in Nat, n > k, n % m <= k % m
    PROVE  n - k >= m - ((k % m) - (n % m))
<1> DEFINE p == n \div m
           q == k \div m
<1>1. n = m * p + (n % m) /\ p \in Nat /\ n % m \in Nat
  BY DivMod, Zenon
<1>2. k = m * q + (k % m) /\ q \in Nat /\ k % m \in Nat
  BY DivMod, Zenon
<1> HIDE DEF p, q
<1>3. m * p \in Nat /\ m * q \in Nat
  BY <1>1, <1>2
<1>4. q >= p => m * q >= m * p
  <2>1. q > p => m * q >= m * p + m
    BY <1>1, <1>2, Times, Zenon
  <2>2. QED
    BY <1>1, <1>2, <1>3, <2>1
<1>5. p > q
  BY <1>1, <1>2, <1>3, <1>4
<1>6. m * p >= m * q + m
  BY <1>1, <1>2, <1>5, Times, Zenon
<1>7. QED
  BY <1>1, <1>2, <1>3, <1>6

-------------------------------------------------------------------------------
(* Frames and the speaker *)

LEMMA FrameFields ==
    ASSUME NEW f \in Frame
    PROVE  /\ f.n \in Nat /\ f.seq \in Nat /\ f.phase \in Nat
           /\ f.n >= 1 /\ f.n <= MaxSpoken /\ f.seq = f.n % SeqMod /\ f.seq \in 0 .. MaxSpoken
           /\ NoWrap => f.seq = f.n
<1>1. /\ f.n \in Nat /\ f.seq \in Nat /\ f.phase \in Nat
      /\ f.n >= 1 /\ f.n <= MaxSpoken /\ f.seq = f.n % SeqMod /\ f.seq \in 0 .. MaxSpoken
  BY VoiceAssumption DEF Frame
<1>2. NoWrap => f.n % SeqMod = f.n
  BY <1>1, SmallRemainder, VoiceAssumption DEF NoWrap
<1>3. QED
  BY <1>1, <1>2, Zenon

\* The client starts afresh in a new epoch and keeps the window of the old one.
LEMMA SyncEpochEffect ==
    ASSUME NEW client \in GapClient, NEW e \in Nat
    PROVE  /\ SyncGapEpoch(client, e) \in GapClient
           /\ SyncGapEpoch(client, e).epoch = {e}
           /\ client.epoch = {e} => SyncGapEpoch(client, e) = client
           /\ client.epoch # {e} =>
                 /\ SyncGapEpoch(client, e).out_rtp_seq = 0
                 /\ SyncGapEpoch(client, e).in_hw = {}
                 /\ \A w \in SyncGapEpoch(client, e).old_windows :
                       \/ w \in client.old_windows
                       \/ w.epoch \in client.epoch /\ w.in_hw = client.in_hw
<1>1. CASE client.epoch = {e}
  BY <1>1, Zenon DEF SyncGapEpoch
<1>2. CASE client.epoch # {e}
  <2> DEFINE old == {[epoch |-> c, in_hw |-> client.in_hw] :
                        c \in IF client.in_hw = {} THEN {} ELSE client.epoch}
  <2>1. SyncGapEpoch(client, e) = [out_rtp_seq |-> 0, in_hw |-> {}, epoch |-> {e},
                                old_windows |-> client.old_windows \cup old]
    BY <1>2, Zenon DEF SyncGapEpoch
  <2>2. client.in_hw \in Option(0 .. MaxSpoken) /\ client.epoch \in Option(Nat)
        /\ client.old_windows \in SUBSET OverlapWindow
    BY Zenon DEF GapClient
  <2>3. \A w \in old : /\ w \in OverlapWindow
                       /\ w.epoch \in client.epoch /\ w.in_hw = client.in_hw
    BY <2>2 DEF OverlapWindow, Option
  <2>4. {} \in Option(0 .. MaxSpoken) /\ {e} \in Option(Nat)
    BY Zenon DEF Option
  <2> HIDE DEF old
  <2>5. QED
    BY <1>2, <2>1, <2>2, <2>3, <2>4 DEF GapClient
<1>3. QED
  BY <1>1, <1>2, Zenon

LEMMA SpeakKeeps ==
    ASSUME SpeakerInv, Speak
    PROVE  SpeakerInv'
<1> DEFINE client == NextRtpSeq(speaker.client, speaker.epoch)
           synced == SyncGapEpoch(speaker.client, speaker.epoch)
           f == [n |-> speaker.sent + 1, seq |-> client.out_rtp_seq, phase |-> speaker.epoch]
<1>1. /\ speaker.client \in GapClient /\ speaker.epoch \in Nat /\ speaker.sent \in Nat
      /\ speaker.sent < MaxSpoken /\ MaxSpoken \in Nat /\ SeqMod \in Nat \ {0}
  BY VoiceAssumption, Zenon DEF SpeakerInv, Speak
<1>2. /\ synced \in GapClient /\ synced.epoch = {speaker.epoch}
      /\ synced.out_rtp_seq = speaker.sent % SeqMod
  <2>1. 0 % SeqMod = 0
    BY <1>1, SmallRemainder
  <2>2. QED
    BY <1>1, <2>1, SyncEpochEffect, Zenon DEF SpeakerInv
<1>3. /\ client = [synced EXCEPT !.out_rtp_seq = (@ + 1) % SeqMod]
      /\ synced.out_rtp_seq \in Nat
  BY <1>2, Zenon DEF NextRtpSeq, GapClient
<1> HIDE DEF synced
<1>4. /\ client.out_rtp_seq = (synced.out_rtp_seq + 1) % SeqMod
      /\ client.epoch = {speaker.epoch}
      /\ (synced.out_rtp_seq + 1) % SeqMod \in Nat => client \in GapClient
  BY <1>2, <1>3, Zenon DEF GapClient
<1> HIDE DEF client
<1>5. client.out_rtp_seq = (speaker.sent + 1) % SeqMod /\ client \in GapClient
  <2>1. ((speaker.sent % SeqMod) + 1) % SeqMod = (speaker.sent + 1) % SeqMod
    BY <1>1, NextRemainder, Zenon
  <2>2. (speaker.sent + 1) % SeqMod \in Nat
    BY <1>1, DivMod
  <2>3. QED
    BY <1>2, <1>4, <2>1, <2>2, Zenon
<1>6. f \in Frame
  BY <1>1, <1>5, DivMod DEF Frame
<1>7. speaker' = [speaker EXCEPT !.client = client, !.sent = @ + 1] /\ air' = air \cup {f}
  BY Zenon DEF Speak, client
<1> HIDE DEF f
<1>8. /\ speaker' = [client |-> client, epoch |-> speaker.epoch, sent |-> speaker.sent + 1]
      /\ air \subseteq Frame
  BY <1>7, Zenon DEF SpeakerInv
<1>9. QED
  BY <1>1, <1>4, <1>5, <1>6, <1>7, <1>8 DEF SpeakerInv

LEMMA SpeakerAdvancesKeeps ==
    ASSUME SpeakerInv, SpeakerAdvances
    PROVE  SpeakerInv'
<1>1. /\ speaker' = [client |-> speaker.client, epoch |-> speaker.epoch + 1, sent |-> 0]
      /\ air' = air /\ speaker.epoch \in Nat /\ speaker.client \in GapClient
      /\ speaker.client.epoch \in SUBSET Nat
      /\ \A e \in speaker.client.epoch : e <= speaker.epoch
  BY Zenon DEF SpeakerAdvances, SpeakerInv, GapClient, Option
<1>2. speaker.client.epoch # {speaker.epoch + 1}
  <2>1. ASSUME speaker.epoch + 1 \in speaker.client.epoch PROVE FALSE
    BY <1>1, <2>1
  <2>2. QED
    BY <2>1, Zenon
<1>3. speaker'.client = speaker.client /\ speaker'.epoch = speaker.epoch + 1 /\ speaker'.sent = 0
      /\ speaker' \in [client : GapClient, epoch : Nat, sent : Nat]
  BY <1>1
<1>4. \A e \in speaker.client.epoch : e <= speaker.epoch + 1
  BY <1>1
<1>5. MaxSpoken \in Nat /\ air' \subseteq Frame
  BY <1>1, VoiceAssumption, Zenon DEF SpeakerInv
<1>6. QED
  BY <1>2, <1>3, <1>4, <1>5 DEF SpeakerInv

LEMMA NextSpeakerInv ==
    ASSUME SpeakerInv, [VoiceNext]_voicevars
    PROVE  SpeakerInv'
<1>1. CASE UNCHANGED <<speaker, air>>
  BY <1>1, Zenon DEF SpeakerInv
<1>2. ASSUME ~ Speak, ~ SpeakerAdvances PROVE UNCHANGED <<speaker, air>>
  BY <1>2, Zenon DEF VoiceNext, voicevars, ListenerAdvances, PlayInOrder, PlayForced, Arrive, NodeRejects, Expire
<1>3. QED
  BY <1>1, <1>2, SpeakKeeps, SpeakerAdvancesKeeps, Zenon

-------------------------------------------------------------------------------
(* The late test and the replay windows *)

LEMMA LateNone ==
    ASSUME NEW seq \in Nat
    PROVE  Late({}, seq) <=> seq = 0
BY VoiceAssumption DEF Late

LEMMA LateSome ==
    ASSUME NEW h \in Nat, NEW seq \in Nat
    PROVE  Late({h}, seq) <=> seq <= h /\ h - seq <= HalfRange
<1>1. (CHOOSE x \in {h} : TRUE) = h
  OBVIOUS
<1>2. {h} # {}
  OBVIOUS
<1>3. QED
  BY <1>1, <1>2, Zenon DEF Late

\* When any two numbers are within reach, a number that is not late is above
\* the window.
LEMMA NotLateIsAbove ==
    ASSUME WithinReach, NEW in_hw \in Option(0 .. MaxSpoken), NEW f \in Frame,
           ~ Late(in_hw, f.seq), NEW g \in Frame, \E h \in in_hw : g.seq <= h
    PROVE  g.n < f.n
<1>1. PICK h \in in_hw : g.seq <= h
  OBVIOUS
<1>2. in_hw = {h} /\ h \in 0 .. MaxSpoken
  BY Zenon DEF Option
<1>3. /\ f.seq \in Nat /\ g.seq \in Nat /\ f.seq = f.n /\ g.seq = g.n /\ f.n >= 1
      /\ h \in Nat /\ h <= MaxSpoken /\ MaxSpoken <= HalfRange + 1 /\ MaxSpoken \in Nat /\ HalfRange \in Nat
  BY <1>2, FrameFields, VoiceAssumption DEF WithinReach
<1>4. ~ (f.seq <= h /\ h - f.seq <= HalfRange)
  BY <1>2, <1>3, LateSome, Zenon
<1>5. QED
  BY <1>1, <1>2, <1>3, <1>4

LEMMA SyncCovers ==
    ASSUME NEW client, NEW frames \in Seq(Frame), Covers(client, frames),
           NEW e \in Nat, \A c \in client.epoch : c <= e
    PROVE  Covers(SyncGapEpoch(client, e), frames) /\ SyncGapEpoch(client, e).epoch = {e}
<1> DEFINE synced == SyncGapEpoch(client, e)
<1>1. client \in GapClient
  BY Zenon DEF Covers
<1>2. /\ synced \in GapClient /\ synced.epoch = {e}
      /\ client.epoch = {e} => synced = client
      /\ client.epoch # {e} =>
            /\ synced.in_hw = {}
            /\ \A w \in synced.old_windows :
                  \/ w \in client.old_windows
                  \/ w.epoch \in client.epoch /\ w.in_hw = client.in_hw
  BY <1>1, SyncEpochEffect, Zenon
<1> HIDE DEF synced
<1>3. CASE client.epoch = {e}
  BY <1>2, <1>3, Zenon DEF synced
<1>4. CASE client.epoch # {e}
  <2>1. client.epoch \in SUBSET Nat /\ \A x, y \in client.epoch : x = y
    BY <1>1, Zenon DEF GapClient, Option
  <2>2. \A c \in client.epoch : c < e /\ c \in Nat
    BY <1>4, <2>1
  <2>3. \A w \in client.old_windows : w.epoch \in Nat
    BY <1>1, Zenon DEF GapClient, OverlapWindow
  <2>4. \A i \in DOMAIN frames : frames[i].phase \in Nat
    BY DEF Frame
  <2>5. \A i \in DOMAIN frames : frames[i].phase < e
    BY <2>2, <2>4 DEF Covers
  <2>6. \A w \in client.old_windows : w.epoch < e
    BY <2>2, <2>3 DEF Covers
  <2>7. \A w \in synced.old_windows : w.epoch < e
    BY <1>2, <1>4, <2>2, <2>6, Zenon
  <2>8. ASSUME NEW w \in synced.old_windows, NEW i \in DOMAIN frames,
               frames[i].phase = w.epoch
        PROVE  \E h \in w.in_hw : frames[i].seq <= h
    BY <1>2, <1>4, <2>8, Zenon DEF Covers
  <2>9. \A i \in DOMAIN frames : frames[i].phase <= e /\ frames[i].phase # e
    BY <2>4, <2>5
  <2>10. QED
    BY <1>2, <1>4, <2>7, <2>8, <2>9, Zenon DEF Covers, synced
<1>5. QED
  BY <1>3, <1>4, Zenon

\* A New frame raises the window of its epoch, which covers it then.
LEMMA MarkSeenCovers ==
    ASSUME NEW client, NEW frames \in Seq(Frame), Covers(client, frames),
           NEW e \in Nat, client.epoch = {e}, NEW f \in Frame,
           Verdict(client, f.seq, f.phase, e) = "New",
           \A i \in DOMAIN frames : frames[i].phase = f.phase => frames[i].seq <= f.seq
    PROVE  Covers(MarkSeen(client, f.seq, f.phase, e), Append(frames, f))
           /\ MarkSeen(client, f.seq, f.phase, e).epoch = {e}
<1> DEFINE marked == MarkSeen(client, f.seq, f.phase, e)
           more == Append(frames, f)
<1>1. /\ more \in Seq(Frame) /\ DOMAIN more = DOMAIN frames \cup {Len(frames) + 1}
      /\ more[Len(frames) + 1] = f
      /\ \A i \in DOMAIN frames : more[i] = frames[i]
  OBVIOUS
<1>2. client \in GapClient /\ f.seq \in Nat /\ f.phase \in Nat /\ {f.seq} \in Option(0 .. MaxSpoken)
  BY FrameFields, Zenon DEF Covers, Option
<1> HIDE DEF more
<1>3. CASE f.phase = e
  <2>1. marked = [client EXCEPT !.in_hw = {f.seq}]
    BY <1>3, Zenon DEF MarkSeen
  <2>2. /\ marked \in GapClient /\ marked.in_hw = {f.seq} /\ marked.epoch = client.epoch
        /\ marked.old_windows = client.old_windows
    BY <1>2, <2>1, Zenon DEF GapClient
  <2> HIDE DEF marked
  <2>3. \A i \in DOMAIN more : more[i].phase <= e /\ (more[i].phase = e => more[i].seq <= f.seq)
    BY <1>1, <1>2, <1>3 DEF Covers
  <2>4. \A w \in client.old_windows : w.epoch < e /\ w.epoch \in Nat
    BY <1>2, Zenon DEF Covers, GapClient, OverlapWindow
  <2>5. ASSUME NEW w \in client.old_windows, NEW i \in DOMAIN more, more[i].phase = w.epoch
        PROVE  \E h \in w.in_hw : more[i].seq <= h
    BY <1>1, <1>3, <2>4, <2>5 DEF Covers
  <2>6. QED
    BY <2>2, <2>3, <2>4, <2>5, Zenon DEF Covers, marked, more
<1>4. CASE f.phase # e
  <2> DEFINE old == client.old_windows
             new == {IF w.epoch = f.phase THEN [w EXCEPT !.in_hw = {f.seq}] ELSE w : w \in old}
  <2>1. marked = [client EXCEPT !.old_windows = new]
    BY <1>4, Zenon DEF MarkSeen
  <2>2. old \in SUBSET OverlapWindow
    BY <1>2, Zenon DEF GapClient
  <2>3. PICK v \in old : v.epoch = f.phase
    BY <1>4, Zenon DEF Verdict
  <2>4. ASSUME NEW w \in new
        PROVE  /\ w \in OverlapWindow
               /\ \/ w.epoch = f.phase /\ w.in_hw = {f.seq}
                  \/ w \in old /\ w.epoch # f.phase
               /\ \E x \in old : x.epoch = w.epoch
    BY <1>2, <2>2, Zenon DEF OverlapWindow
  <2> HIDE DEF new
  <2>5. /\ marked \in GapClient /\ marked.in_hw = client.in_hw /\ marked.epoch = client.epoch
        /\ marked.old_windows = new
    BY <1>2, <2>1, <2>4, Zenon DEF GapClient
  <2> HIDE DEF marked
  <2>6. \A w \in new : w.epoch < e
    BY <2>4, Zenon DEF Covers
  <2>7. \A i \in DOMAIN more :
          /\ more[i].phase <= e
          /\ more[i].phase = e => \E h \in client.in_hw : more[i].seq <= h
    BY <1>1, <1>2, <1>4, <2>3 DEF Covers
  <2>8. ASSUME NEW w \in new, NEW i \in DOMAIN more, more[i].phase = w.epoch
        PROVE  \E h \in w.in_hw : more[i].seq <= h
    <3>1. CASE w.epoch = f.phase /\ w.in_hw = {f.seq}
      BY <1>1, <1>2, <2>8, <3>1
    <3>2. CASE w \in old /\ w.epoch # f.phase
      BY <1>1, <2>8, <3>2, Zenon DEF Covers
    <3>3. QED
      BY <2>4, <3>1, <3>2, Zenon
  <2>9. QED
    BY <2>5, <2>6, <2>7, <2>8 DEF Covers, marked, more
<1>5. QED
  BY <1>3, <1>4, Zenon

\* A frame that is New comes after the frames of its epoch that were New before.
LEMMA NewIsLater ==
    ASSUME WithinReach, NEW client, NEW frames \in Seq(Frame),
           Covers(client, frames), NEW e \in Nat, client.epoch = {e}, NEW f \in Frame,
           Verdict(client, f.seq, f.phase, e) = "New",
           NEW i \in DOMAIN frames, frames[i].phase = f.phase
    PROVE  frames[i].n < f.n
<1>1. client \in GapClient /\ frames[i] \in Frame
  BY DEF Covers
<1>2. CASE f.phase = e
  <2>1. ~ Late(client.in_hw, f.seq)
    BY <1>2, Zenon DEF Verdict
  <2>2. \E h \in client.in_hw : frames[i].seq <= h
    BY <1>2, Zenon DEF Covers
  <2>3. client.in_hw \in Option(0 .. MaxSpoken)
    BY <1>1, Zenon DEF GapClient
  <2>4. QED
    BY <1>1, <2>1, <2>2, <2>3, NotLateIsAbove, Zenon
<1>3. CASE f.phase # e
  <2>1. PICK w \in client.old_windows : w.epoch = f.phase /\ ~ Late(w.in_hw, f.seq)
    BY <1>3, Zenon DEF Verdict
  <2>2. \E h \in w.in_hw : frames[i].seq <= h
    BY <2>1, Zenon DEF Covers
  <2>3. w.in_hw \in Option(0 .. MaxSpoken)
    BY <1>1, Zenon DEF GapClient, OverlapWindow
  <2>4. QED
    BY <1>1, <2>1, <2>2, <2>3, NotLateIsAbove, Zenon
<1>4. QED
  BY <1>2, <1>3, Zenon

LEMMA OrderedAppend ==
    ASSUME NEW frames \in Seq(Frame), Ordered(frames), NEW f \in Frame,
           \A i \in DOMAIN frames : frames[i].phase = f.phase => frames[i].n < f.n
    PROVE  Append(frames, f) \in Seq(Frame) /\ Ordered(Append(frames, f))
<1>1. /\ Append(frames, f) \in Seq(Frame)
      /\ DOMAIN Append(frames, f) = DOMAIN frames \cup {Len(frames) + 1}
      /\ Append(frames, f)[Len(frames) + 1] = f
      /\ \A i \in DOMAIN frames : Append(frames, f)[i] = frames[i] /\ i < Len(frames) + 1
  OBVIOUS
<1>2. \A i \in DOMAIN frames : i \in Nat /\ ~ (Len(frames) + 1 < i)
  BY <1>1
<1>3. ~ (Len(frames) + 1 < Len(frames) + 1)
  OBVIOUS
<1>4. QED
  BY <1>1, <1>2, <1>3, Zenon DEF Ordered

LEMMA ArriveWindow ==
    ASSUME WithinReach, WindowInv, NEW f \in Frame, Arrive(f)
    PROVE  WindowInv'
<1> DEFINE client == SyncGapEpoch(listener, listener_epoch)
           verdict == Verdict(client, f.seq, f.phase, listener_epoch)
<1>1. /\ listener_epoch' = listener_epoch /\ listener_epoch \in Nat /\ news \in Seq(Frame)
      /\ listener' = IF verdict = "New" THEN MarkSeen(client, f.seq, f.phase, listener_epoch) ELSE client
      /\ news' = IF verdict = "New" THEN Append(news, f) ELSE news
  BY Zenon DEF Arrive, WindowInv
<1>2. Covers(client, news) /\ client.epoch = {listener_epoch} /\ Ordered(news)
  BY <1>1, SyncCovers, Zenon DEF WindowInv, AcceptedOnce, Ordered
<1> HIDE DEF client
<1>3. CASE verdict = "New"
  <2>1. \A i \in DOMAIN news : news[i].phase = f.phase => news[i].n < f.n
    BY <1>1, <1>2, <1>3, NewIsLater, Zenon
  <2>2. \A i \in DOMAIN news : news[i].phase = f.phase => news[i].seq <= f.seq
    <3>1. \A i \in DOMAIN news : news[i].seq = news[i].n /\ news[i].n \in Nat
      BY <1>1, FrameFields DEF WithinReach
    <3>2. f.seq = f.n /\ f.n \in Nat
      BY FrameFields, Zenon DEF WithinReach
    <3>3. QED
      BY <2>1, <3>1, <3>2
  <2>3. Covers(listener', news') /\ listener'.epoch = {listener_epoch}
    <3>1. /\ listener' = MarkSeen(client, f.seq, f.phase, listener_epoch)
          /\ news' = Append(news, f)
      BY <1>1, <1>3, Zenon
    <3>2. PICK e : e = listener_epoch
      BY Zenon
    <3>3. /\ Covers(MarkSeen(client, f.seq, f.phase, e), Append(news, f))
          /\ MarkSeen(client, f.seq, f.phase, e).epoch = {e}
      BY <1>1, <1>2, <1>3, <2>2, <3>2, MarkSeenCovers
    <3>4. QED
      BY <3>1, <3>2, <3>3, Zenon
  <2>4. news' \in Seq(Frame) /\ Ordered(news')
    BY <1>1, <1>2, <1>3, <2>1, OrderedAppend, Zenon
  <2>5. QED
    <3>1. listener_epoch' \in Nat /\ \A e \in listener'.epoch : e <= listener_epoch'
      BY <1>1, <2>3
    <3>2. AcceptedOnce'
      BY <2>4, Zenon DEF AcceptedOnce, Ordered
    <3>3. QED
      BY <2>3, <2>4, <3>1, <3>2, Zenon DEF WindowInv
<1>4. CASE verdict # "New"
  <2>1. listener' = client /\ news' = news
    BY <1>1, <1>4, Zenon
  <2>2. Covers(listener', news') /\ listener'.epoch = {listener_epoch}
    BY <1>2, <2>1, Zenon
  <2>3. QED
    BY <1>1, <1>2, <2>1, <2>2 DEF WindowInv, AcceptedOnce, Ordered
<1>5. QED
  BY <1>3, <1>4, Zenon

LEMMA ExpireWindow ==
    ASSUME WindowInv, NEW e, Expire(e)
    PROVE  WindowInv'
<1> DEFINE rest == {w \in listener.old_windows : w.epoch # e}
<1>1. listener \in GapClient /\ Covers(listener, news)
  BY Zenon DEF WindowInv, Covers
<1>2. listener' = [listener EXCEPT !.old_windows = rest] /\ listener_epoch' = listener_epoch /\ news' = news
  BY Zenon DEF Expire
<1>3. /\ listener' \in GapClient /\ listener'.epoch = listener.epoch
      /\ listener'.in_hw = listener.in_hw /\ listener'.old_windows = rest
  BY <1>1, <1>2, Zenon DEF GapClient
<1>4. Covers(listener', news')
  BY <1>1, <1>2, <1>3, Zenon DEF Covers
<1>5. QED
  BY <1>2, <1>3, <1>4, Zenon DEF WindowInv, AcceptedOnce

LEMMA NextWindowInv ==
    ASSUME WithinReach, SpeakerInv, WindowInv, [VoiceNext]_voicevars
    PROVE  WindowInv'
<1>1. CASE UNCHANGED <<listener, listener_epoch, news>>
  BY <1>1, Zenon DEF WindowInv, AcceptedOnce
<1>2. CASE ListenerAdvances
  <2>1. listener_epoch' = listener_epoch + 1 /\ listener' = listener /\ news' = news /\ listener_epoch \in Nat
    BY <1>2, Zenon DEF ListenerAdvances, WindowInv
  <2>2. \A c \in listener.epoch : c \in Nat /\ c <= listener_epoch
    BY Zenon DEF WindowInv, Covers, GapClient, Option
  <2>3. \A c \in listener.epoch : c <= listener_epoch + 1
    BY <2>1, <2>2
  <2>4. QED
    BY <2>1, <2>3 DEF WindowInv, AcceptedOnce
<1>3. ASSUME NEW f \in air, Arrive(f) PROVE WindowInv'
  BY <1>3, ArriveWindow, Zenon DEF SpeakerInv
<1>4. ASSUME NEW e, Expire(e) PROVE WindowInv'
  BY <1>4, ExpireWindow, Zenon
<1>5. ASSUME \/ UNCHANGED voicevars \/ Speak \/ SpeakerAdvances \/ PlayInOrder \/ PlayForced
             \/ \E f \in air : NodeRejects(f)
      PROVE  UNCHANGED <<listener, listener_epoch, news>>
  BY <1>5, Zenon DEF voicevars, Speak, SpeakerAdvances, PlayInOrder, PlayForced, NodeRejects
<1>6. QED
  BY <1>1, <1>2, <1>3, <1>4, <1>5, Zenon DEF VoiceNext

LEMMA InitInv ==
    ASSUME VoiceInit
    PROVE  SpeakerInv /\ WindowInv
<1>1. NewGapClient \in GapClient /\ NewGapClient.epoch = {} /\ NewGapClient.old_windows = {}
  BY Zenon DEF NewGapClient, GapClient, Option
<1>2. SpeakerInv
  <2>1. speaker.client = NewGapClient /\ speaker.epoch = 1 /\ speaker.sent = 0 /\ air = {}
        /\ speaker = [client |-> NewGapClient, epoch |-> 1, sent |-> 0]
    BY Zenon DEF VoiceInit
  <2>2. MaxSpoken \in Nat
    BY VoiceAssumption, Zenon
  <2>3. QED
    BY <1>1, <2>1, <2>2 DEF SpeakerInv
<1>3. WindowInv
  BY <1>1 DEF VoiceInit, WindowInv, Covers, AcceptedOnce
<1>4. QED
  BY <1>2, <1>3, Zenon

-------------------------------------------------------------------------------
(* Frames that pass the node first *)

LEMMA MaxIs ==
    ASSUME NEW S \in SUBSET Nat, NEW m \in S, \A x \in S : x <= m
    PROVE  Max(S) = m
<1>1. m \in S /\ \A x \in S : m >= x
  OBVIOUS
<1>2. \A k \in S : (\A x \in S : k >= x) => k = m
  <2>1. ASSUME NEW k \in S, \A x \in S : k >= x PROVE k = m
    BY <1>1, <2>1
  <2>2. QED
    BY <2>1, Zenon
<1>3. QED
  BY <1>1, <1>2, Zenon DEF Max

LEMMA SyncTracks ==
    ASSUME NEW client, NEW frames \in Seq(Frame), NEW e \in Nat, NEW hw,
           Tracks(client, frames, e, hw)
    PROVE  Tracks(SyncGapEpoch(client, e), frames, e, hw) /\ SyncGapEpoch(client, e).epoch = {e}
<1> DEFINE synced == SyncGapEpoch(client, e)
<1>1. client \in GapClient
  BY Zenon DEF Tracks
<1>2. /\ synced \in GapClient /\ synced.epoch = {e}
      /\ client.epoch = {e} => synced = client
      /\ client.epoch # {e} => synced.in_hw = {}
  BY <1>1, SyncEpochEffect, Zenon
<1> HIDE DEF synced
<1>3. CASE client.epoch = {e}
  BY <1>2, <1>3, Zenon DEF synced
<1>4. CASE client.epoch # {e}
  <2>1. \A c \in synced.epoch : c <= e
    BY <1>2
  <2>2. QED
    BY <1>2, <1>4, <2>1, Zenon DEF Tracks, synced
<1>5. QED
  BY <1>3, <1>4, Zenon

\* The gap before a frame that is late behind a node.
LEMMA LateGap ==
    ASSUME NEW client, news \in Seq(Frame), listener_epoch \in Nat, node_hw \in Nat,
           Tracks(client, news, listener_epoch, node_hw), client.epoch = {listener_epoch},
           NEW f \in Frame, f.phase = listener_epoch, f.n > node_hw, Late(client.in_hw, f.seq)
    PROVE  SinceNew(f) >= SeqMod - HalfRange
<1> DEFINE current == {j \in DOMAIN news : news[j].phase = f.phase}
           S == {0} \cup {news[i].n : i \in current}
<1>1. /\ SinceNew(f) = f.n - Max(S) /\ SeqMod \in Nat \ {0} /\ HalfRange \in Nat
      /\ f.n \in Nat /\ f.n >= 1 /\ f.seq \in Nat /\ f.seq = f.n % SeqMod
  BY FrameFields, VoiceAssumption, Zenon DEF SinceNew
<1>2. \A i \in current : news[i] \in Frame /\ news[i].n \in Nat /\ news[i].n <= node_hw
  BY FrameFields DEF Tracks
<1>3. S \in SUBSET Nat
  BY <1>2
<1>4. client.in_hw \in Option(0 .. MaxSpoken)
  BY Zenon DEF Tracks, GapClient
<1>5. CASE client.in_hw = {}
  <2>1. current = {}
    BY <1>5, Zenon DEF Tracks
  <2>2. Max(S) = 0
    <3>1. 0 \in S /\ \A x \in S : x <= 0
      BY <2>1
    <3> HIDE DEF S
    <3>2. QED
      BY <1>3, <3>1, MaxIs, Zenon
  <2>3. f.n % SeqMod = 0
    BY <1>1, <1>5, LateNone, Zenon
  <2>4. 0 % SeqMod = 0
    BY <1>1, SmallRemainder
  <2>5. f.n - 0 >= SeqMod - ((0 % SeqMod) - (f.n % SeqMod))
    <3>1. 0 \in Nat /\ f.n > 0 /\ f.n % SeqMod <= 0 % SeqMod
      BY <1>1, <2>3, <2>4
    <3>2. QED
      BY <1>1, <3>1, Ahead, Zenon
  <2>6. QED
    BY <1>1, <2>2, <2>3, <2>4, <2>5
<1>6. CASE client.in_hw # {}
  <2>1. PICK h \in client.in_hw : TRUE
    BY <1>6, Zenon
  <2>2. client.in_hw = {h} /\ h \in Nat
    BY <1>4, <2>1 DEF Option
  <2>3. PICK i \in current : h = news[i].seq /\ \A j \in current : news[j].n <= news[i].n
    BY <2>1, Zenon DEF Tracks
  <2> DEFINE k == news[i].n
  <2>4. k \in Nat /\ k < f.n /\ h = k % SeqMod
    BY <1>1, <1>2, <2>3, FrameFields
  <2>5. Max(S) = k
    <3>1. k \in S /\ \A x \in S : x <= k
      BY <2>3, <2>4
    <3>2. QED
      BY <1>3, <3>1, MaxIs, Zenon
  <2>6. f.seq <= h /\ h - f.seq <= HalfRange
    BY <1>1, <2>2, LateSome
  <2> HIDE DEF k, S
  <2>7. f.n - k >= SeqMod - (h - f.seq)
    BY <1>1, <2>4, <2>6, Ahead, Zenon
  <2>8. QED
    <3>1. h \in Nat /\ f.n - k \in Int /\ SinceNew(f) = f.n - k
      BY <1>1, <2>2, <2>4, <2>5
    <3>2. SeqMod \in Nat /\ HalfRange \in Nat /\ f.seq \in Nat
      BY <1>1, Zenon
    <3>3. QED
      BY <2>6, <2>7, <3>1, <3>2
<1>7. QED
  BY <1>5, <1>6, Zenon

\* A frame that passed the node and is New becomes the last of its epoch.
LEMMA MarkSeenTracks ==
    ASSUME NEW client, NEW frames \in Seq(Frame), NEW e \in Nat, NEW hw \in Nat,
           Tracks(client, frames, e, hw), client.epoch = {e},
           NEW f \in Frame, f.phase = e, f.n > hw
    PROVE  Tracks(MarkSeen(client, f.seq, f.phase, e), Append(frames, f), e, f.n)
<1> DEFINE marked == MarkSeen(client, f.seq, f.phase, e)
           more == Append(frames, f)
           last_i == Len(frames) + 1
<1>1. /\ DOMAIN more = DOMAIN frames \cup {last_i} /\ more[last_i] = f
      /\ \A i \in DOMAIN frames : more[i] = frames[i]
  OBVIOUS
<1> HIDE DEF more, last_i
<1>2. client \in GapClient /\ f.n \in Nat /\ {f.seq} \in Option(0 .. MaxSpoken)
  BY FrameFields, Zenon DEF Tracks, Option
<1>3. marked = [client EXCEPT !.in_hw = {f.seq}]
  BY Zenon DEF MarkSeen
<1>4. marked \in GapClient /\ marked.in_hw = {f.seq} /\ marked.epoch = {e}
  BY <1>2, <1>3, Zenon DEF GapClient
<1> HIDE DEF marked
<1>5. \A i \in DOMAIN more : more[i].phase <= e /\ (more[i].phase = e => more[i].n <= f.n)
  <2>1. \A i \in DOMAIN frames :
          frames[i].n \in Nat /\ (frames[i].phase = e => frames[i].n <= hw)
    BY FrameFields DEF Tracks
  <2>2. QED
    BY <1>1, <1>2, <2>1 DEF Tracks
<1>6. last_i \in DOMAIN more /\ more[last_i].phase = e /\ more[last_i].seq = f.seq
  BY <1>1, Zenon
<1>7. \A c \in marked.epoch : c <= e
  BY <1>4
<1>8. Tracks(marked, more, e, f.n)
  BY <1>1, <1>4, <1>5, <1>6, <1>7, Zenon DEF Tracks
<1>9. QED
  BY <1>8, Zenon DEF marked, more

LEMMA ArriveNode ==
    ASSUME ViaNode, NodeInv, NEW f \in Frame, Arrive(f)
    PROVE  NodeInv'
<1> DEFINE client == SyncGapEpoch(listener, listener_epoch)
           verdict == Verdict(client, f.seq, f.phase, listener_epoch)
<1>1. /\ listener_epoch' = listener_epoch /\ listener_epoch \in Nat /\ news \in Seq(Frame) /\ node_hw \in Nat
      /\ f.phase = listener_epoch /\ f.n > node_hw /\ node_hw' = f.n
      /\ listener' = IF verdict = "New" THEN MarkSeen(client, f.seq, f.phase, listener_epoch) ELSE client
      /\ news' = IF verdict = "New" THEN Append(news, f) ELSE news
      /\ arrival'.verdict = verdict /\ arrival'.gap = SinceNew(f)
  BY Zenon DEF Arrive, NodeInv
<1>2. Tracks(client, news, listener_epoch, node_hw) /\ client.epoch = {listener_epoch} /\ Ordered(news)
  BY <1>1, SyncTracks, Zenon DEF NodeInv, AcceptedOnce, Ordered
<1>3. f.n \in Nat
  BY FrameFields, Zenon
<1> HIDE DEF client
<1>4. verdict = IF Late(client.in_hw, f.seq) THEN "Late" ELSE "New"
  BY <1>1, Zenon DEF Verdict
<1> HIDE DEF verdict
<1>5. CASE verdict = "New"
  <2>1. Tracks(listener', news', listener_epoch, f.n)
    BY <1>1, <1>2, <1>5, MarkSeenTracks, Zenon
  <2>2. \A i \in DOMAIN news : news[i].phase = f.phase => news[i].n < f.n
    <3>1. \A i \in DOMAIN news :
            news[i].n \in Nat /\ (news[i].phase = listener_epoch => news[i].n <= node_hw)
      BY <1>1, <1>2, FrameFields DEF Tracks
    <3>2. QED
      BY <1>1, <1>3, <3>1
  <2>3. news' \in Seq(Frame) /\ Ordered(news')
    BY <1>1, <1>2, <1>5, <2>2, OrderedAppend, Zenon
  <2>4. QED
    BY <1>1, <1>3, <1>5, <2>1, <2>3, Zenon DEF NodeInv, AcceptedOnce, Ordered, FreshIsNew
<1>6. CASE verdict = "Late"
  <2>1. Late(client.in_hw, f.seq)
    BY <1>4, <1>6, Zenon
  <2>2. SinceNew(f) >= SeqMod - HalfRange
    BY <1>1, <1>2, <2>1, LateGap, Zenon
  <2>3. listener' = client /\ news' = news
    BY <1>1, <1>6, Zenon
  <2>4. \A i \in DOMAIN news : news[i].n \in Nat
    BY <1>1, FrameFields
  <2>5. Tracks(client, news, listener_epoch, f.n)
    <3>1. \A i \in DOMAIN news : news[i].phase = listener_epoch => news[i].n <= node_hw
      BY <1>2, Zenon DEF Tracks
    <3>2. \A i \in DOMAIN news : news[i].phase = listener_epoch => news[i].n <= f.n
      BY <1>1, <1>3, <2>4, <3>1
    <3>3. QED
      BY <1>2, <3>2, Zenon DEF Tracks
  <2>6. QED
    BY <1>1, <1>2, <1>3, <2>2, <2>3, <2>5, Zenon DEF NodeInv, AcceptedOnce, Ordered, FreshIsNew
<1>7. QED
  BY <1>4, <1>5, <1>6, Zenon

LEMMA NextNodeInv ==
    ASSUME ViaNode, SpeakerInv, NodeInv, [VoiceNext]_voicevars
    PROVE  NodeInv'
<1>1. CASE UNCHANGED <<listener, listener_epoch, node_hw, news, arrival>>
  BY <1>1, Zenon DEF NodeInv, AcceptedOnce, FreshIsNew
<1>2. CASE ListenerAdvances
  <2>1. /\ listener_epoch' = listener_epoch + 1 /\ listener' = listener /\ news' = news /\ listener_epoch \in Nat
        /\ node_hw' = 0 /\ arrival' = arrival /\ Tracks(listener, news, listener_epoch, node_hw)
        /\ news \in Seq(Frame)
    BY <1>2, Zenon DEF ListenerAdvances, NodeInv
  <2>2. \A c \in listener.epoch : c \in Nat /\ c <= listener_epoch
    BY <2>1, Zenon DEF Tracks, GapClient, Option
  <2>3. (\A c \in listener.epoch : c <= listener_epoch + 1) /\ listener.epoch # {listener_epoch + 1}
    <3>1. ASSUME NEW c \in listener.epoch PROVE c <= listener_epoch + 1 /\ c # listener_epoch + 1
      BY <2>1, <2>2
    <3>2. QED
      BY <3>1, Zenon
  <2>4. \A i \in DOMAIN news : news[i].phase \in Nat /\ news[i].phase <= listener_epoch
    BY <2>1, FrameFields DEF Tracks
  <2>5. \A i \in DOMAIN news : news[i].phase <= listener_epoch + 1 /\ news[i].phase # listener_epoch + 1
    BY <2>1, <2>4
  <2>6. Tracks(listener, news, listener_epoch + 1, 0)
    BY <2>1, <2>3, <2>5, Zenon DEF Tracks
  <2>7. QED
    BY <2>1, <2>6 DEF NodeInv, AcceptedOnce, FreshIsNew
<1>3. ASSUME NEW f \in air, Arrive(f) PROVE NodeInv'
  BY <1>3, ArriveNode, Zenon DEF SpeakerInv
<1>4. ASSUME NEW e, Expire(e) PROVE NodeInv'
  <2> DEFINE rest == {w \in listener.old_windows : w.epoch # e}
  <2>1. listener \in GapClient /\ Tracks(listener, news, listener_epoch, node_hw)
    BY Zenon DEF NodeInv, Tracks
  <2>2. /\ listener' = [listener EXCEPT !.old_windows = rest]
        /\ UNCHANGED <<listener_epoch, node_hw, news, arrival>>
    BY <1>4, Zenon DEF Expire
  <2>3. /\ listener' \in GapClient /\ listener'.epoch = listener.epoch
        /\ listener'.in_hw = listener.in_hw
    BY <2>1, <2>2, Zenon DEF GapClient
  <2>4. Tracks(listener', news, listener_epoch, node_hw)
    BY <2>1, <2>3, Zenon DEF Tracks
  <2>5. QED
    BY <2>2, <2>4, Zenon DEF NodeInv, AcceptedOnce, FreshIsNew
<1>5. ASSUME NEW f \in air, NodeRejects(f) PROVE NodeInv'
  <2>1. UNCHANGED <<listener, listener_epoch, node_hw, news>> /\ arrival'.verdict # "Late"
    BY <1>5, Zenon DEF NodeRejects
  <2>2. QED
    BY <2>1, Zenon DEF NodeInv, AcceptedOnce, FreshIsNew
<1>6. ASSUME \/ UNCHANGED voicevars \/ Speak \/ SpeakerAdvances \/ PlayInOrder \/ PlayForced
      PROVE  UNCHANGED <<listener, listener_epoch, node_hw, news, arrival>>
  BY <1>6, Zenon DEF voicevars, Speak, SpeakerAdvances, PlayInOrder, PlayForced
<1>7. QED
  BY <1>1, <1>2, <1>3, <1>4, <1>5, <1>6, Zenon DEF VoiceNext

-------------------------------------------------------------------------------
(* The jitter buffer *)

INSTANCE WellFoundedInduction

\* Every set of natural numbers that is not empty has a least element.
LEMMA Least ==
    ASSUME NEW T \in SUBSET Nat, T # {}
    PROVE  \E x \in T : \A y \in T : x <= y
<1> DEFINE R == OpToRel(<, Nat)
<1>1. IsWellFoundedOn(R, Nat)
  BY NatLessThanWellFounded, Zenon
<1>2. PICK x \in T : \A y \in T : ~ (<<y, x>> \in R)
  BY <1>1, WFMin, Zenon
<1>3. ASSUME NEW y \in T PROVE ~ (y < x)
  <2>1. y < x => <<y, x>> \in R
    BY Zenon DEF OpToRel
  <2>2. QED
    BY <1>2, <2>1, Zenon
<1>4. QED
  BY <1>3

\* The place is behind the frames that are not later and before those that are.
LEMMA PositionIs ==
    ASSUME NEW waiting \in Seq(Frame), NEW f \in Frame
    PROVE  /\ Position(waiting, f) \in 1 .. Len(waiting) + 1
           /\ \A i \in DOMAIN waiting : i < Position(waiting, f) => waiting[i].seq <= f.seq
           /\ Position(waiting, f) \in DOMAIN waiting =>
                 waiting[Position(waiting, f)].seq > f.seq
<1> DEFINE places == {i \in DOMAIN waiting : waiting[i].seq > f.seq} \cup {Len(waiting) + 1}
           pos == Position(waiting, f)
<1>1. places \in SUBSET Nat /\ places # {}
  OBVIOUS
<1>2. \E i \in places : \A j \in places : i <= j
  BY <1>1, Least, Zenon
<1>3. pos = CHOOSE i \in places : \A j \in places : i <= j
  BY Zenon DEF Position
<1> HIDE DEF pos
<1>4. pos \in places /\ \A j \in places : pos <= j
  BY <1>2, <1>3, Zenon
<1>5. f.seq \in Nat /\ \A i \in DOMAIN waiting : waiting[i].seq \in Nat
  BY FrameFields
<1>6. pos \in 1 .. Len(waiting) + 1
  BY <1>4
<1>7. ASSUME NEW i \in DOMAIN waiting, i < pos PROVE waiting[i].seq <= f.seq
  <2>1. i \notin places
    BY <1>4, <1>6, <1>7
  <2>2. QED
    BY <1>5, <2>1
<1>8. pos \in DOMAIN waiting => waiting[pos].seq > f.seq
  <2>1. Len(waiting) + 1 \notin DOMAIN waiting
    OBVIOUS
  <2>2. QED
    BY <1>4, <2>1, Zenon
<1>9. QED
  BY <1>6, <1>7, <1>8, Zenon DEF pos

LEMMA InsertSorts ==
    ASSUME NEW waiting \in Seq(Frame), Sorted(waiting), NEW f \in Frame,
           \A i \in DOMAIN waiting : waiting[i].seq # f.seq
    PROVE  /\ InsertAt(waiting, f) \in Seq(Frame) /\ InsertAt(waiting, f) # << >>
           /\ Sorted(InsertAt(waiting, f))
           /\ \A i \in DOMAIN InsertAt(waiting, f) :
                 \/ InsertAt(waiting, f)[i] = f
                 \/ \E j \in DOMAIN waiting : InsertAt(waiting, f)[i] = waiting[j]
<1> DEFINE pos == Position(waiting, f)
           n == Len(waiting)
           new == InsertAt(waiting, f)
<1>1. /\ pos \in 1 .. n + 1 /\ n \in Nat /\ DOMAIN waiting = 1 .. n
      /\ \A i \in DOMAIN waiting : i < pos => waiting[i].seq <= f.seq
      /\ pos \in DOMAIN waiting => waiting[pos].seq > f.seq
  BY PositionIs
<1>2. new = [i \in 1 .. n + 1 |->
                IF i < pos THEN waiting[i] ELSE IF i = pos THEN f ELSE waiting[i - 1]]
  BY Zenon DEF InsertAt
<1> HIDE DEF pos, new
<1>3. \A i \in 1 .. n + 1 :
        /\ i < pos => i \in DOMAIN waiting /\ new[i] = waiting[i]
        /\ i = pos => new[i] = f
        /\ i > pos => i - 1 \in DOMAIN waiting /\ i - 1 >= pos /\ new[i] = waiting[i - 1]
  BY <1>1, <1>2
<1>4. \A i \in 1 .. n + 1 : new[i] \in Frame
  BY <1>1, <1>3
<1>5. new \in Seq(Frame) /\ DOMAIN new = 1 .. n + 1 /\ n + 1 \in Nat
  BY <1>1, <1>2, <1>4
<1>6. f.seq \in Nat /\ \A i \in DOMAIN waiting : waiting[i].seq \in Nat
  BY FrameFields
<1>7. \A i \in DOMAIN waiting : i < pos => waiting[i].seq < f.seq
  BY <1>1, <1>6
<1>8. \A i \in DOMAIN waiting : i >= pos => f.seq < waiting[i].seq
  <2>1. ASSUME NEW i \in DOMAIN waiting, i >= pos PROVE f.seq < waiting[i].seq
    <3>1. pos \in DOMAIN waiting /\ (i > pos \/ i = pos)
      BY <1>1, <2>1
    <3>2. i > pos => waiting[pos].seq < waiting[i].seq
      BY <1>1, <3>1, Zenon DEF Sorted
    <3>3. QED
      BY <1>1, <1>6, <3>1, <3>2
  <2>2. QED
    BY <2>1, Zenon
<1>9. ASSUME NEW i \in 1 .. n + 1, NEW j \in 1 .. n + 1, i < j PROVE new[i].seq < new[j].seq
  <2>1. CASE j < pos
    <3>1. i < pos /\ i \in DOMAIN waiting /\ j \in DOMAIN waiting
      BY <1>1, <1>9, <2>1
    <3>2. QED
      BY <1>3, <1>9, <2>1, <3>1, Zenon DEF Sorted
  <2>2. CASE j = pos
    <3>1. i < pos
      BY <1>9, <2>2, Zenon
    <3>2. QED
      BY <1>3, <1>7, <2>2, <3>1, Zenon
  <2>3. CASE j > pos /\ i = pos
    BY <1>3, <1>8, <2>3, Zenon
  <2>4. CASE j > pos /\ i < pos
    <3>1. i \in DOMAIN waiting /\ j - 1 \in DOMAIN waiting /\ i < j - 1
      BY <1>1, <1>3, <2>4
    <3>2. QED
      BY <1>3, <2>4, <3>1, Zenon DEF Sorted
  <2>5. CASE j > pos /\ i > pos
    <3>1. i - 1 \in DOMAIN waiting /\ j - 1 \in DOMAIN waiting /\ i - 1 < j - 1
      BY <1>3, <1>9, <2>5
    <3>2. QED
      BY <1>3, <2>5, <3>1, Zenon DEF Sorted
  <2>6. QED
    BY <1>1, <2>1, <2>2, <2>3, <2>4, <2>5
<1>10. Sorted(new)
  BY <1>5, <1>9, Zenon DEF Sorted
<1>11. \A i \in DOMAIN new : new[i] = f \/ \E j \in DOMAIN waiting : new[i] = waiting[j]
  BY <1>1, <1>3, <1>5
<1>12. new # << >>
  BY <1>5
<1>13. QED
  BY <1>5, <1>10, <1>11, <1>12, Zenon DEF new

\* What is left of a sorted buffer without its head comes after the head.
LEMMA TailSorted ==
    ASSUME NEW frames \in Seq(Frame), frames # << >>, Sorted(frames)
    PROVE  /\ Tail(frames) \in Seq(Frame) /\ Head(frames) \in Frame /\ Sorted(Tail(frames))
           /\ \A i \in DOMAIN Tail(frames) :
                 /\ Head(frames).seq < Tail(frames)[i].seq
                 /\ i + 1 \in DOMAIN frames /\ Tail(frames)[i] = frames[i + 1]
           /\ Head(frames) = frames[1] /\ 1 \in DOMAIN frames
<1>1. /\ Tail(frames) \in Seq(Frame) /\ Head(frames) = frames[1] /\ 1 \in DOMAIN frames
      /\ \A i \in DOMAIN Tail(frames) :
            i \in Nat /\ i + 1 \in DOMAIN frames /\ 1 < i + 1 /\ Tail(frames)[i] = frames[i + 1]
  OBVIOUS
<1>2. \A i, j \in DOMAIN Tail(frames) : i < j => i + 1 < j + 1
  BY <1>1
<1>3. Sorted(Tail(frames))
  BY <1>1, <1>2, Zenon DEF Sorted
<1>4. \A i \in DOMAIN Tail(frames) : Head(frames).seq < Tail(frames)[i].seq
  BY <1>1, Zenon DEF Sorted
<1>5. QED
  BY <1>1, <1>3, <1>4

LEMMA PushBuffers ==
    ASSUME NEW source, NEW frames, Buffers(source, frames), NEW f \in Frame
    PROVE  Buffers(PushFrame(source, f), frames)
<1> DEFINE waiting == InsertAt(source.waiting, f)
           kept == IF Len(waiting) > JitterCapacity THEN Tail(waiting) ELSE waiting
<1>1. source \in [waiting : Seq(Frame), next : Option(Nat)] /\ Sorted(source.waiting)
  BY Zenon DEF Buffers
<1>2. CASE \/ IsTooLate(source, f.seq)
           \/ \E i \in DOMAIN source.waiting : source.waiting[i].seq = f.seq
  BY <1>2, Zenon DEF PushFrame
<1>3. CASE ~ \/ IsTooLate(source, f.seq)
             \/ \E i \in DOMAIN source.waiting : source.waiting[i].seq = f.seq
  <2>1. PushFrame(source, f) = [source EXCEPT !.waiting = kept]
    BY <1>3, Zenon DEF PushFrame
  <2>2. /\ waiting \in Seq(Frame) /\ waiting # << >> /\ Sorted(waiting)
        /\ \A i \in DOMAIN waiting :
              waiting[i] = f \/ \E j \in DOMAIN source.waiting : waiting[i] = source.waiting[j]
    BY <1>1, <1>3, InsertSorts, Zenon
  <2> HIDE DEF waiting
  <2>3. /\ kept \in Seq(Frame) /\ Sorted(kept)
        /\ \A i \in DOMAIN kept : \E j \in DOMAIN waiting : kept[i] = waiting[j]
    BY <2>2, TailSorted, Zenon
  <2> HIDE DEF kept
  <2>4. f.seq \in Nat /\ \A i \in DOMAIN source.waiting : source.waiting[i].seq \in Nat
    BY <1>1, FrameFields
  <2>5. source.next \in SUBSET Nat
    BY <1>1, Zenon DEF Option
  <2>6. ASSUME NEW k \in source.next, NEW i \in DOMAIN kept PROVE kept[i].seq >= k
    <3>1. ~ (f.seq < k)
      BY <1>3, Zenon DEF IsTooLate
    <3>2. \A j \in DOMAIN source.waiting : source.waiting[j].seq >= k
      BY Zenon DEF Buffers
    <3>3. f.seq >= k
      BY <2>4, <2>5, <3>1
    <3>4. QED
      BY <2>2, <2>3, <3>2, <3>3
  <2> DEFINE new == [source EXCEPT !.waiting = kept]
  <2>7. /\ new.waiting = kept /\ new.next = source.next
        /\ new \in [waiting : Seq(Frame), next : Option(Nat)]
    BY <1>1, <2>3, Zenon
  <2> HIDE DEF new
  <2>8. Buffers(new, frames)
    BY <2>3, <2>6, <2>7, Zenon DEF Buffers
  <2>9. QED
    BY <2>1, <2>8, Zenon DEF new
<1>4. QED
  BY <1>2, <1>3, Zenon

LEMMA PopBuffers ==
    ASSUME NEW source, NEW frames, Buffers(source, frames), source.waiting # << >>
    PROVE  Buffers(Pop(source), Append(frames, Head(source.waiting)))
<1> DEFINE head == Head(source.waiting)
           rest == Tail(source.waiting)
           more == Append(frames, head)
           k == head.seq + 1
<1>1. /\ source.waiting \in Seq(Frame) /\ Sorted(source.waiting) /\ frames \in Seq(Frame)
      /\ source.next \in Option(Nat) /\ Sorted(frames)
  BY Zenon DEF Buffers
<1>2. /\ rest \in Seq(Frame) /\ head \in Frame /\ Sorted(rest)
      /\ \A i \in DOMAIN rest : head.seq < rest[i].seq
      /\ head = source.waiting[1] /\ 1 \in DOMAIN source.waiting
  BY <1>1, TailSorted, Zenon
<1>3. Pop(source) = [waiting |-> rest, next |-> {k}]
  BY Zenon DEF Pop
<1>4. head.seq \in Nat /\ \A i \in DOMAIN rest : rest[i].seq \in Nat
  BY <1>2, FrameFields
<1>5. \A i \in DOMAIN frames : frames[i].seq \in Nat /\ frames[i].seq < head.seq
  <2>1. CASE source.next = {}
    <3>1. frames = << >>
      BY <2>1, Zenon DEF Buffers
    <3>2. QED
      BY <3>1
  <2>2. ASSUME NEW x \in source.next, NEW i \in DOMAIN frames
        PROVE  frames[i].seq \in Nat /\ frames[i].seq < head.seq
    <3>1. x \in Nat /\ frames[i].seq \in Nat
      BY <1>1, FrameFields DEF Option
    <3>2. frames[i].seq < x /\ head.seq >= x
      BY <1>2, Zenon DEF Buffers
    <3>3. QED
      BY <1>4, <3>1, <3>2
  <2>3. QED
    BY <2>1, <2>2, Zenon
<1> HIDE DEF head, rest
<1>6. /\ more \in Seq(Frame) /\ DOMAIN more = DOMAIN frames \cup {Len(frames) + 1}
      /\ more[Len(frames) + 1] = head
      /\ \A i \in DOMAIN frames : more[i] = frames[i] /\ i \in Nat /\ i < Len(frames) + 1
  BY <1>1, <1>2
<1> HIDE DEF more
<1>7. Len(frames) + 1 \in Nat
  BY <1>1
<1>8. Sorted(more)
  <2>1. ASSUME NEW i \in DOMAIN more, NEW j \in DOMAIN more, i < j
        PROVE  more[i].seq < more[j].seq
    <3>1. i \in DOMAIN frames
      BY <1>6, <1>7, <2>1
    <3>2. QED
      BY <1>1, <1>5, <1>6, <2>1, <3>1, Zenon DEF Sorted
  <2>2. QED
    BY <2>1, Zenon DEF Sorted
<1>9. {k} \in Option(Nat)
  BY <1>4 DEF Option
<1>10. /\ \A i \in DOMAIN rest : rest[i].seq >= k
       /\ \A i \in DOMAIN more : more[i].seq < k
  BY <1>2, <1>4, <1>5, <1>6
<1> HIDE DEF k
<1>11. Buffers([waiting |-> rest, next |-> {k}], more)
  BY <1>2, <1>6, <1>8, <1>9, <1>10, Zenon DEF Buffers
<1>12. QED
  BY <1>3, <1>11, Zenon DEF head, rest, more

LEMMA NewSourceBuffers == Buffers(NewSource, << >>)
BY DEF Buffers, NewSource, Sorted, Option

LEMMA NextJitterInv ==
    ASSUME SpeakerInv, JitterInv, [VoiceNext]_voicevars
    PROVE  JitterInv'
<1>1. CASE UNCHANGED <<jitter, played>>
  BY <1>1, Zenon DEF JitterInv
<1>2. CASE ListenerAdvances
  BY <1>2, NewSourceBuffers, Zenon DEF ListenerAdvances, JitterInv
<1>3. ASSUME NEW f \in air, Arrive(f) PROVE JitterInv'
  <2>1. f \in Frame
    BY Zenon DEF SpeakerInv
  <2>2. played' = played /\ (jitter' = jitter \/ jitter' = PushFrame(jitter, f))
    BY <1>3, Zenon DEF Arrive
  <2>3. QED
    BY <2>1, <2>2, PushBuffers, Zenon DEF JitterInv
<1>4. CASE PlayInOrder \/ PlayForced
  <2>1. /\ jitter.waiting # << >> /\ played' = Append(played, Head(jitter.waiting))
        /\ jitter' = Pop(jitter)
    BY <1>4, Zenon DEF PlayInOrder, PlayForced, CanPopInOrder
  <2>2. QED
    BY <2>1, PopBuffers, Zenon DEF JitterInv
<1>5. ASSUME \/ UNCHANGED voicevars \/ Speak \/ SpeakerAdvances
             \/ \E e \in 1 .. MaxVoiceEpoch : Expire(e)
             \/ \E f \in air : NodeRejects(f)
      PROVE  UNCHANGED <<jitter, played>>
  BY <1>5, Zenon DEF voicevars, Speak, SpeakerAdvances, Expire, NodeRejects
<1>6. QED
  BY <1>1, <1>2, <1>3, <1>4, <1>5, Zenon DEF VoiceNext

LEMMA InitNodeJitter ==
    ASSUME VoiceInit
    PROVE  NodeInv /\ JitterInv
<1>1. NewGapClient \in GapClient /\ NewGapClient.epoch = {}
  BY Zenon DEF NewGapClient, GapClient, Option
<1>2. arrival.verdict = "none"
  BY Zenon DEF VoiceInit, NoArrival
<1>3. NodeInv
  BY <1>1, <1>2 DEF VoiceInit, NodeInv, Tracks, AcceptedOnce, FreshIsNew
<1>4. JitterInv
  BY NewSourceBuffers, Zenon DEF VoiceInit, JitterInv
<1>5. QED
  BY <1>3, <1>4, Zenon

\* Sorted by number, the frames of an epoch whose numbers do not wrap are in
\* the order they were spoken.
LEMMA SortedIsInOrder ==
    ASSUME NoWrap, Buffers(jitter, played)
    PROVE  PlayedInOrder
<1>1. \A i \in DOMAIN played : played[i].seq = played[i].n
  BY FrameFields DEF Buffers
<1>2. QED
  BY <1>1, Zenon DEF Buffers, Sorted, PlayedInOrder

-------------------------------------------------------------------------------
(* Theorems *)

\* The replay windows of GapClient::accept take a frame as New at most once and
\* never after a later one of its epoch: behind a node for any number of frames,
\* and for a client that gets them in any order while any two numbers of an
\* epoch are within reach of the late test.
THEOREM FramesAcceptedOnce ==
    ASSUME ViaNode \/ WithinReach
    PROVE  VoiceSpec => []AcceptedOnce
<1>1. CASE WithinReach
  <2> DEFINE Inv == SpeakerInv /\ WindowInv
  <2>1. VoiceInit => Inv
    BY InitInv, Zenon
  <2>2. Inv /\ [VoiceNext]_voicevars => Inv'
    BY <1>1, NextSpeakerInv, NextWindowInv, Zenon
  <2>3. Inv => AcceptedOnce
    BY Zenon DEF WindowInv
  <2>4. QED
    BY <2>1, <2>2, <2>3, PTL DEF VoiceSpec
<1>2. CASE ViaNode
  <2> DEFINE Inv == SpeakerInv /\ NodeInv
  <2>1. VoiceInit => Inv
    BY InitInv, InitNodeJitter, Zenon
  <2>2. Inv /\ [VoiceNext]_voicevars => Inv'
    BY <1>2, NextSpeakerInv, NextNodeInv, Zenon
  <2>3. Inv => AcceptedOnce
    BY Zenon DEF NodeInv
  <2>4. QED
    BY <2>1, <2>2, <2>3, PTL DEF VoiceSpec
<1>3. QED
  BY <1>1, <1>2, Zenon

\* While the numbers of an epoch do not wrap, the jitter buffer gives the decoder
\* the frames in the order they were spoken, none twice (JitterBuffer::push,
\* pop_in_order, pop_force).
THEOREM FramesPlayedInOrder ==
    ASSUME NoWrap
    PROVE  VoiceSpec => []PlayedInOrder
<1> DEFINE Inv == SpeakerInv /\ JitterInv
<1>1. VoiceInit => Inv
  BY InitInv, InitNodeJitter, Zenon
<1>2. Inv /\ [VoiceNext]_voicevars => Inv'
  BY NextSpeakerInv, NextJitterInv, Zenon
<1>3. Inv => PlayedInOrder
  BY SortedIsInOrder, Zenon DEF JitterInv
<1>4. QED
  BY <1>1, <1>2, <1>3, PTL DEF VoiceSpec

\* Behind a node, and however often the number wraps, the late test of
\* GapClient::accept drops a fresh frame only when at least SeqMod - HalfRange
\* positions lie between it and the last frame that was New.
THEOREM FreshFramesAreNew == VoiceSpec => []FreshIsNew
<1>1. CASE ViaNode
  <2> DEFINE Inv == SpeakerInv /\ NodeInv
  <2>1. VoiceInit => Inv
    BY InitInv, InitNodeJitter, Zenon
  <2>2. Inv /\ [VoiceNext]_voicevars => Inv'
    BY <1>1, NextSpeakerInv, NextNodeInv, Zenon
  <2>3. Inv => FreshIsNew
    BY Zenon DEF NodeInv
  <2>4. QED
    BY <2>1, <2>2, <2>3, PTL DEF VoiceSpec
<1>2. CASE ~ ViaNode
  <2>1. FreshIsNew
    BY <1>2, Zenon DEF FreshIsNew
  <2>2. QED
    BY <2>1, PTL
<1>3. QED
  BY <1>1, <1>2, Zenon

==============================================================================
