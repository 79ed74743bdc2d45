--------------------------------- MODULE Chat ---------------------------------
(* Text messages between members whose GTP clients discard repeated messages,  *)
(* whose nodes refuse frames of another epoch, and which may crash and come    *)
(* back.  A member that returns, or whose node has refused a frame, asks every *)
(* peer for what it retained above a watermark (GTP section 7), while live     *)
(* messages keep arriving.                                                     *)
(*                                                                             *)
(* The transport is one reliable ordered channel per pair of members (the      *)
(* O|R|A profile of GtpClient::send); what is sent to a member that is down is *)
(* lost.  A watermark keeps the maximum per sender, so the application has to  *)
(* use it with care: it observes a message when it comes from its own sender,  *)
(* who sends in order, not when another member relays it; and it saves the     *)
(* watermark, the one it ships later, only while nothing is being recovered.   *)
EXTENDS TextClient

CONSTANTS User,
          Writer,         \* members that write messages; they do not crash
          GtpSeenCap,     \* GTP_SEEN_CAP
          HistoryCap,     \* capacity of every member's MessageHistory
          MaxMid,         \* bound: messages of one writer
          MaxResend,      \* bound: repetitions by one writer
          MaxTextEpoch,   \* bound: largest epoch of each member
          MaxCrash,       \* bound: crashes of each member
          MaxShown        \* bound: messages shown by a member that still asks

VARIABLES gtp,         \* gtp[m]: the GtpClient
          history,     \* history[m]: the MessageHistory
          mark,        \* mark[m]: the Watermark in memory
          saved_mark,  \* saved_mark[m]: the Watermark on disk
          text_epoch,  \* text_epoch[m]: the epoch of m's node
          last_mid,    \* last_mid[s]: the message id s used last
          resent,      \* resent[s]: repetitions so far
          chan,        \* chan[m][p]: frames on their way from p to m, live and replayed
          up,          \* members that run
          asked,       \* asked[m]: peers that owe m an answer
          missed,      \* members whose node has refused a frame since they last asked
          shown,       \* shown[m]: the New messages of this life of m (history)
          ever,        \* ever[m]: the messages m has ever accepted (history)
          crashes      \* crashes[m]: how often m has crashed

chatvars == <<gtp, history, mark, saved_mark, text_epoch, last_mid, resent, chan, up,
              asked, missed, shown, ever, crashes>>

ASSUME ChatAssumption ==
    Writer \subseteq User /\ GtpSeenCap \in Nat /\ HistoryCap \in Nat \ {0}

ChatInit ==
    /\ gtp = [m \in User |-> NewGtpClient]
    /\ history = [m \in User |-> << >>]
    /\ mark = [m \in User |-> NewWatermark(Writer)]
    /\ saved_mark = mark
    /\ text_epoch = [m \in User |-> 1]
    /\ last_mid = [s \in Writer |-> 0]
    /\ resent = [s \in Writer |-> 0]
    /\ chan = [m \in User |-> [p \in User |-> << >>]]
    /\ up = User
    /\ asked = [m \in User |-> {}]
    /\ missed = {}
    /\ shown = [m \in User |-> << >>]
    /\ ever = [m \in User |-> {}]
    /\ crashes = [m \in User |-> 0]

------------------------------------------------------------------------------

\* What a node needs to know of a frame: its message, the epoch it was sent in
TextFrame(msg, epoch, replayed) == [msg |-> msg, epoch |-> epoch, replayed |-> replayed]

\* GtpClient::send to every peer, in the epoch of the sender's node
Broadcast(s, msg) ==
    /\ gtp' = [gtp EXCEPT ![s] = SyncGtpEpoch(@, text_epoch[s])]
    /\ chan' = [m \in User |->
                  IF m \in up \ {s}
                  THEN [chan[m] EXCEPT ![s] = Append(@, TextFrame(msg, text_epoch[s], FALSE))]
                  ELSE chan[m]]
    /\ UNCHANGED <<text_epoch, up, asked, missed, shown, ever, crashes>>

\* The sender retains its message for others, and never has to ask for it
SendText(s) ==
    LET msg == [sender |-> s, mid |-> last_mid[s] + 1]
    IN  /\ last_mid[s] < MaxMid
        /\ last_mid' = [last_mid EXCEPT ![s] = @ + 1]
        /\ history' = [history EXCEPT ![s] = Push(@, msg, HistoryCap)]
        /\ mark' = [mark EXCEPT ![s] = Observe(@, msg)]
        /\ saved_mark' = [saved_mark EXCEPT ![s] = Observe(@, msg)]
        /\ Broadcast(s, msg)
        /\ UNCHANGED resent

\* An application that retries keeps the message id
Resend(s, mid) ==
    /\ mid <= last_mid[s]
    /\ resent[s] < MaxResend
    /\ resent' = [resent EXCEPT ![s] = @ + 1]
    /\ Broadcast(s, [sender |-> s, mid |-> mid])
    /\ UNCHANGED <<history, mark, saved_mark, last_mid>>

\* GtpClient::accept, and what the application does with a New message
TakeIn(m, p, msg) ==
    /\ gtp' = [gtp EXCEPT ![m] = Accept(@, msg, text_epoch[m], GtpSeenCap)]
    /\ mark' = [mark EXCEPT ![m] = IF msg.sender = p THEN Observe(@, msg) ELSE @]
    /\ ever' = [ever EXCEPT ![m] = @ \cup {msg}]
    /\ IF IsNew(gtp[m], msg, text_epoch[m])
       THEN /\ history' = [history EXCEPT ![m] = Push(@, msg, HistoryCap)]
            /\ shown' = [shown EXCEPT ![m] =
                   Append(@, [msg |-> msg, epoch |-> text_epoch[m]])]
       ELSE UNCHANGED <<history, shown>>
    /\ UNCHANGED <<saved_mark, text_epoch, last_mid, resent, up, crashes>>

\* deliver_frame of a frame of the node's epoch
Receive(m, p) ==
    /\ m \in up
    /\ chan[m][p] # << >>
    /\ Head(chan[m][p]).epoch = text_epoch[m]
    /\ TakeIn(m, p, Head(chan[m][p]).msg)
    /\ chan' = [chan EXCEPT ![m][p] = Tail(@)]
    /\ UNCHANGED <<asked, missed>>

\* Mutant: the application does not learn of the refusal
RefuseSilently(m, p) ==
    /\ m \in up
    /\ chan[m][p] # << >>
    /\ Head(chan[m][p]).epoch # text_epoch[m]
    /\ chan' = [chan EXCEPT ![m][p] = Tail(@)]
    /\ UNCHANGED <<gtp, history, mark, saved_mark, text_epoch, last_mid, resent, up,
                   asked, missed, shown, ever, crashes>>

\* deliver_frame of a frame of another epoch: EPOCH_MISMATCH, the frame is gone
Refuse(m, p) ==
    /\ m \in up
    /\ chan[m][p] # << >>
    /\ Head(chan[m][p]).epoch # text_epoch[m]
    /\ chan' = [chan EXCEPT ![m][p] = Tail(@)]
    /\ missed' = missed \cup {m}
    /\ UNCHANGED <<gtp, history, mark, saved_mark, text_epoch, last_mid, resent, up,
                   asked, shown, ever, crashes>>

------------------------------------------------------------------------------
(* Epochs, crashes and resynchronisation *)

AdvanceUser(m) ==
    /\ m \in up
    /\ text_epoch[m] < MaxTextEpoch[m]
    /\ text_epoch' = [text_epoch EXCEPT ![m] = @ + 1]
    /\ UNCHANGED <<gtp, history, mark, saved_mark, last_mid, resent, chan, up, asked,
                   missed, shown, ever, crashes>>

\* No answer is awaited and none is under way
Idle(m) ==
    /\ asked[m] = {}
    /\ \A p \in User : \A i \in DOMAIN chan[m][p] : ~ chan[m][p][i].replayed

Settled(m) == m \in up \ missed /\ Idle(m)

\* Mutant: the watermark is saved while messages are being recovered
SaveMarkAnyTime(m) ==
    /\ m \in up
    /\ saved_mark' = [saved_mark EXCEPT ![m] = mark[m]]
    /\ UNCHANGED <<gtp, history, mark, text_epoch, last_mid, resent, chan, up, asked,
                   missed, shown, ever, crashes>>

SaveMark(m) ==
    /\ Settled(m)
    /\ saved_mark' = [saved_mark EXCEPT ![m] = mark[m]]
    /\ UNCHANGED <<gtp, history, mark, text_epoch, last_mid, resent, chan, up, asked,
                   missed, shown, ever, crashes>>

\* A crash loses everything but the saved watermark
Crash(m) ==
    /\ m \in up \ Writer
    /\ crashes[m] < MaxCrash[m]
    /\ crashes' = [crashes EXCEPT ![m] = @ + 1]
    /\ up' = up \ {m}
    /\ gtp' = [gtp EXCEPT ![m] = NewGtpClient]
    /\ history' = [history EXCEPT ![m] = << >>]
    /\ chan' = [chan EXCEPT ![m] = [p \in User |-> << >>]]
    /\ asked' = [asked EXCEPT ![m] = {}]
    /\ missed' = missed \ {m}
    /\ shown' = [shown EXCEPT ![m] = << >>]
    /\ mark' = [mark EXCEPT ![m] = saved_mark[m]]
    /\ UNCHANGED <<saved_mark, text_epoch, last_mid, resent, ever>>

Rejoin(m) ==
    /\ m \in User \ up
    /\ up' = up \cup {m}
    /\ asked' = [asked EXCEPT ![m] = User \ {m}]
    /\ UNCHANGED <<gtp, history, mark, saved_mark, text_epoch, last_mid, resent,
                   chan, missed, shown, ever, crashes>>

\* Recovery from EPOCH_MISMATCH, one request at a time
Ask(m) ==
    /\ m \in up \cap missed
    /\ Idle(m)
    /\ Len(shown[m]) < MaxShown
    /\ asked' = [asked EXCEPT ![m] = User \ {m}]
    /\ missed' = missed \ {m}
    /\ UNCHANGED <<gtp, history, mark, saved_mark, text_epoch, last_mid, resent,
                   chan, up, shown, ever, crashes>>

\* MessageHistory::since with the watermark that was shipped
Answer(p, m) ==
    LET retained == Since(history[p], saved_mark[m])
    IN  /\ p \in up \cap asked[m]
        /\ asked' = [asked EXCEPT ![m] = @ \ {p}]
        /\ chan' = [chan EXCEPT ![m][p] =
               @ \o [i \in DOMAIN retained |-> TextFrame(retained[i], text_epoch[p], TRUE)]]
        /\ UNCHANGED <<gtp, history, mark, saved_mark, text_epoch, last_mid, resent,
                       up, missed, shown, ever, crashes>>

ChatNext ==
    \/ \E s \in Writer : SendText(s) \/ \E mid \in 1 .. MaxMid : Resend(s, mid)
    \/ \E m \in User :
          \/ AdvanceUser(m) \/ SaveMark(m) \/ Crash(m) \/ Rejoin(m) \/ Ask(m)
          \/ \E p \in User : Receive(m, p) \/ Refuse(m, p) \/ Answer(p, m)

ChatSpec == ChatInit /\ [][ChatNext]_chatvars

\* Frames under way are handled, answers are given, a crashed member comes back,
\* and every member gets to the last epoch (the Transition module asks when);
\* nobody is obliged to write.
ChatFairness ==
    \A m \in User :
        /\ WF_chatvars(AdvanceUser(m)) /\ WF_chatvars(Rejoin(m)) /\ WF_chatvars(Ask(m))
        /\ \A p \in User :
            /\ WF_chatvars(Receive(m, p)) /\ WF_chatvars(Refuse(m, p))
            /\ WF_chatvars(Answer(p, m))

------------------------------------------------------------------------------
(* Properties *)

\* A message that is repeated, by its sender or by a resynchronisation that
\* overlaps live traffic, is shown again in the same epoch only after GtpSeenCap
\* other messages were shown in between (GTP section 5; the cap of BoundedSeen
\* is exact).
ShownAgainOnlyAfterEviction ==
    \A m \in User : \A i, j \in DOMAIN shown[m] :
        i < j /\ shown[m][i] = shown[m][j] => j - i > GtpSeenCap

\* A member that is up, awaits no answer and has had no frame refused since it
\* last asked has accepted every message, or it is on its way from its sender,
\* however often it crashed and whatever epochs frames were sent in: the
\* watermark that is shipped, the peers' since and the live traffic in between
\* leave no gap but what the history of the message's own sender has dropped.
NothingLost ==
    \A m \in User : \A s \in Writer \ {m} : \A mid \in 1 .. last_mid[s] :
        LET msg == [sender |-> s, mid |-> mid]
        IN  Settled(m) /\ Contains(history[s], msg)
            => \/ msg \in ever[m]
               \/ \E i \in DOMAIN chan[m][s] : chan[m][s][i].msg = msg

\* The watermark that a member ships passes over no message that it has not had,
\* as long as the message's sender retains it: observe keeps only a maximum, so
\* this rests on the order of the live frames, on replays that are not observed
\* past a gap and on the moments at which the watermark is saved.
WatermarkIsHonest ==
    \A m \in User : \A s \in Writer \ {m} : \A mid \in 1 .. last_mid[s] :
        LET msg == [sender |-> s, mid |-> mid]
        IN  Contains(history[s], msg) /\ (\E hw \in saved_mark[m][s] : mid <= hw)
            => msg \in ever[m]

\* Every message reaches every other member in the end, crashes and refused
\* frames included (GTP section 7), once the members are in the same epoch.
EveryMessageArrives ==
    \A m \in User : \A s \in Writer \ {m} : \A mid \in 1 .. MaxMid :
        (last_mid[s] >= mid) ~> ([sender |-> s, mid |-> mid] \in ever[m])

==============================================================================
