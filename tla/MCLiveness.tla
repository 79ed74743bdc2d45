------------------------------ MODULE MCLiveness ------------------------------
(* What must happen in the end, and what must not be lost on the way.  As in   *)
(* MCTraffic a behaviour chooses one part and stays in it.  Voice and Framing  *)
(* have their own variables; the other parts share the slots v1 .. v14.  A     *)
(* fairness condition names its part, so it asks nothing of the other ones.    *)
EXTENDS Voice, Framing

VARIABLES part, v1, v2, v3, v4, v5, v6, v7, v8, v9, v10, v11, v12, v13, v14

slots == <<v1, v2, v3, v4, v5, v6, v7, v8, v9, v10, v11, v12, v13, v14>>
mcvars == <<part, slots, voicevars, streamvars>>

------------------------------------------------------------------------------
\* Two transitions of a group in which all applications answer, or none does
Changes == INSTANCE Transition WITH
    Member <- {1, 2, 3}, StreamType <- {"Control"}, Coordinator <- 1,
    SilentSets <- {{}, {2, 3}}, Polls <- TRUE, MaxTid <- 2,
    node <- v1, inbox <- v2, acks <- v3, answered <- v4, tried <- v5, task <- v6,
    silent <- v7

\* The coordinator, member 1, is gone; each survivor may learn of it at any time,
\* and may have joined too late to have heard it
Heirs == INSTANCE Succession WITH
    Member <- {1, 2, 3, 4}, StreamType <- {"Control"}, Gone <- {1},
    MaxClaims <- [m \in {1, 2, 3, 4} |-> 1],
    peer <- v1, claims <- v2, needed <- v3, view <- v4, knew <- v5, early <- v6

\* Member 2 crashes twice; member 1 writes, repeats itself and answers
Texts == INSTANCE Chat WITH
    User <- {1, 2}, Writer <- {1}, GtpSeenCap <- 1, HistoryCap <- 3, MaxMid <- 2,
    MaxResend <- 1, MaxTextEpoch <- <<2, 2>>, MaxCrash <- <<0, 2>>, MaxShown <- 9,
    gtp <- v1, history <- v2, mark <- v3, saved_mark <- v4, text_epoch <- v5,
    last_mid <- v6, resent <- v7, chan <- v8, up <- v9, asked <- v10, missed <- v11,
    shown <- v12, ever <- v13, crashes <- v14

\* All blobs of up to three bits, the longest over the limit
SmallBlobs == UNION {[1 .. n -> 0 .. 1] : n \in 0 .. 3}

\* One listener and three connectors
Programs == INSTANCE Handshake WITH
    Member <- {"bob", "alice", "carol", "dave"}, Listener <- "bob",
    mls <- v1, pc <- v2, peer <- v3, inbox <- v4, open <- v5, shown <- v6

\* Three threads, one export for each way of locking and a destroy between them
Threads == INSTANCE FfiCalls WITH
    Thread <- {1, 2, 3}, MaxCalls <- 1, MaxHandle <- 2,
    Used <- {"gtp_client_send", "gbp_node_on_wire", "gbp_node_drain_events",
             "gbp_mls_process_message", "gbp_node_destroy"},
    live <- v1, next <- v2, bundles <- v3, restored <- v4, owner <- v5, slot <- v6,
    calls <- v7, run <- v8, given <- v9, doomed <- v10

------------------------------------------------------------------------------
Free11 == v11 = 0 /\ v12 = 0 /\ v13 = 0 /\ v14 = 0
Free8 == v8 = 0 /\ v9 = 0 /\ v10 = 0 /\ Free11
Free6 == v6 = 0 /\ v7 = 0 /\ Free8
Free1 == v1 = 0 /\ v2 = 0 /\ v3 = 0 /\ v4 = 0 /\ v5 = 0 /\ Free6

MCInit ==
    /\ VoiceInit /\ StreamInit
    /\ \/ part = "changes" /\ Changes!Init /\ Free8
       \/ part = "heirs" /\ Heirs!InitSuccession /\ v7 = 0 /\ Free8
       \/ part = "texts" /\ Texts!ChatInit
       \/ part = "programs" /\ Programs!Init /\ v7 = 0 /\ Free8
       \/ part = "threads" /\ Threads!Init /\ Free11
       \/ part \in {"audio", "stream"} /\ Free1

\* A step of one part
InChanges(A) ==
    part = "changes" /\ A
    /\ UNCHANGED <<part, v8, v9, v10, v11, v12, v13, v14, voicevars, streamvars>>
InHeirs(A) ==
    part = "heirs" /\ A
    /\ UNCHANGED <<part, v7, v8, v9, v10, v11, v12, v13, v14, voicevars, streamvars>>
InTexts(A) == part = "texts" /\ A /\ UNCHANGED <<part, voicevars, streamvars>>
InStream(A) == part = "stream" /\ A /\ UNCHANGED <<part, slots, voicevars>>
InPrograms(A) ==
    part = "programs" /\ A
    /\ UNCHANGED <<part, v7, v8, v9, v10, v11, v12, v13, v14, voicevars, streamvars>>
InThreads(A) ==
    part = "threads" /\ A /\ UNCHANGED <<part, v11, v12, v13, v14, voicevars, streamvars>>

ChangesNext == InChanges(Changes!Next)
HeirsNext == InHeirs(Heirs!NextSuccession)
TextsNext == InTexts(Texts!ChatNext)
StreamStep == InStream(StreamNext)
ProgramsNext == InPrograms(Programs!Next)
ThreadsNext == InThreads(Threads!Next)
AudioNext == part = "audio" /\ VoiceNext /\ UNCHANGED <<part, slots, streamvars>>

MCNext ==
    \/ ChangesNext \/ HeirsNext \/ TextsNext \/ StreamStep \/ ProgramsNext
    \/ ThreadsNext \/ AudioNext

\* The fairness of each module, condition by condition
MCFairness ==
    /\ WF_mcvars(InChanges(Changes!Execute)) /\ WF_mcvars(InChanges(Changes!ApplyDecided))
    /\ WF_mcvars(InChanges(Changes!Abort))
    /\ \A m \in {1, 2, 3} :
        /\ WF_mcvars(InChanges(Changes!Ready(m))) /\ WF_mcvars(InChanges(Changes!Deliver(m)))
        /\ WF_mcvars(InChanges(Changes!Poll(m)))
    /\ \A m \in {2, 3, 4} :
        /\ WF_mcvars(InHeirs(Heirs!Poll(m))) /\ WF_mcvars(InHeirs(Heirs!Handle(m)))
        /\ WF_mcvars(InHeirs(Heirs!Deliver(m)))
    /\ \A m \in {1, 2} :
        /\ WF_mcvars(InTexts(Texts!AdvanceUser(m))) /\ WF_mcvars(InTexts(Texts!Rejoin(m)))
        /\ WF_mcvars(InTexts(Texts!Ask(m)))
        /\ \A p \in {1, 2} :
            /\ WF_mcvars(InTexts(Texts!Receive(m, p))) /\ WF_mcvars(InTexts(Texts!Refuse(m, p)))
            /\ WF_mcvars(InTexts(Texts!Answer(p, m)))
    /\ WF_mcvars(InStream(ByteArrives)) /\ WF_mcvars(InStream(GotLength))
    /\ WF_mcvars(InStream(GotBody)) /\ WF_mcvars(InStream(EndOfStream))
    /\ \A m \in {"bob", "alice", "carol", "dave"} :
        WF_mcvars(InPrograms(Programs!Step(m)))
    /\ \A t \in {1, 2, 3} : WF_mcvars(InThreads(Threads!Step(t)))

MCSpec == MCInit /\ [][MCNext]_mcvars /\ MCFairness

------------------------------------------------------------------------------
(* Properties of the parts; those of Voice and Framing are checked as they stand *)

\* A transition that is pending at a member is executed or given up there: no
\* node waits for ever (send_control, handle_control, check_timeouts and the
\* deadlines they arm, with an application that follows the documents).
TransitionEnds ==
    \A m \in {1, 2, 3} :
        part = "changes" /\ v1[m].pending_transition_id # 0
            ~> part = "changes" /\ v1[m].pending_transition_id = 0

\* Whatever mixture of executions, timeouts and aborts takes place, the members
\* end up in one epoch with one last transition (apply_transition at the
\* coordinator against handle_control at the others).
GroupConverges ==
    <>[](part = "changes" =>
            \A a, b \in {1, 2, 3} :
                /\ v1[a].current_epoch = v1[b].current_epoch
                /\ v1[a].last_transition_id = v1[b].last_transition_id)

\* A survivor takes over from the coordinator that went silent, provided the
\* lowest one had heard it and knows who is gone whenever it handles the event
\* (check_timeouts reports the silence once; claim_coordinator is left to the
\* caller).
SuccessorEmerges ==
    (part = "heirs" => v1[2].coordinator_last_seen) /\ [](part = "heirs" => 2 \notin v6)
        => <>(part = "heirs" => \E m \in {2, 3, 4} : v1[m].is_coordinator)

\* A text that was written reaches a member that keeps coming back, crashes and
\* frames that its node refused for their epoch notwithstanding (deliver_frame,
\* GtpClient, MessageHistory, Watermark).
EveryMessageArrives ==
    \A n \in 1 .. 2 :
        part = "texts" /\ v6[1] >= n
            ~> part = "texts" /\ [sender |-> 1, mid |-> n] \in v13[2]

\* Once the listener has accepted a peer, every program ends, and a frame that
\* reaches the listener opens and is its peer's (run_listener, run_connector).
EveryoneEnds ==
    /\ part = "programs" /\ v3 # {}
        ~> part = "programs" /\ \A m \in DOMAIN v2 : v2[m] \in {"done", "failed"}
    /\ [](part = "programs" => Programs!FrameOpens)

\* Every call of the C ABI returns (the order in which exports lock).
CallsReturn ==
    \A t \in 1 .. 3 :
        part = "threads" /\ v8[t].pc # "idle" ~> part = "threads" /\ v8[t].pc = "idle"

==============================================================================
