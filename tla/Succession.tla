------------------------------ MODULE Succession ------------------------------
(* Does an election end?  The members of Election whose transport is closed    *)
(* (Gone) take no steps; the survivors' applications poll check_timeouts,      *)
(* handle CoordinatorElectionNeeded when it is reported, as the comment of     *)
(* claim_coordinator asks, and learn from the transport who has gone: before   *)
(* the event, after it, or never.                                              *)
EXTENDS Election

CONSTANT Gone   \* members that left with the old coordinator

VARIABLE early  \* survivors that handled an event of theirs while they still
                \* believed one of Gone active (history)

successionvars == <<electionvars, early>>

Survivor == Member \ Gone

\* As ElectionInit, but some members joined by a Welcome after the EXECUTE and
\* have had nothing of the coordinator: no timer is armed at them
InitSuccession ==
    /\ \E late \in SUBSET Member :
          peer = [m \in Member |->
                    IF m \in late THEN ApplyTransition(BootstrapAsJoiner(New, 0, 0), 1)
                    ELSE OnExecute(BootstrapAsJoiner(New, 0, 1), 1)]
    /\ claims = {} /\ needed = {} /\ early = {}
    /\ view = [m \in Member |-> Member]
    /\ knew = [m \in Member |-> [a \in Member |-> 0]]

\* The event is reported once: an application that does not claim has used it up
Handle(m) ==
    /\ HandleNeeded(m) \/ IgnoreNeeded(m)
    /\ early' = IF view[m] \cap Gone # {} THEN early \cup {m} ELSE early

Poll(m) == Silence(m) /\ UNCHANGED early

Deliver(m) == (\E f \in claims : DeliverClaim(m, f)) /\ UNCHANGED early

Learn(m) == (\E x \in Gone : SeeLeft(m, x)) /\ UNCHANGED early

NextSuccession == \E m \in Survivor : Poll(m) \/ Handle(m) \/ Deliver(m) \/ Learn(m)

\* Applications poll and handle what is reported, and claims arrive.
SuccessionFairness ==
    \A m \in Survivor :
        /\ WF_successionvars(Poll(m))
        /\ WF_successionvars(Handle(m))
        /\ WF_successionvars(Deliver(m))

Heir == CHOOSE m \in Survivor : \A x \in Survivor : m <= x

\* A survivor takes over from the coordinator that went silent, provided the
\* lowest survivor had heard the coordinator, for otherwise its timer never runs,
\* and knows who is gone whenever it handles the event: check_timeouts disarms
\* the timer as it reports the silence, so the event does not come again.
SuccessorEmerges ==
    peer[Heir].coordinator_last_seen /\ [](Heir \notin early)
        => <>(\E m \in Survivor : peer[m].is_coordinator)

\* Stated by gbp-control-plane.md section 5.1 without such provisos: the lowest
\* active member takes over.  It does not if it learns too late, or is late itself.
SuccessorAlwaysEmerges == <>(\E m \in Survivor : peer[m].is_coordinator)

==============================================================================
