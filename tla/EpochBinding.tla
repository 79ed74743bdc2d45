----------------------------- MODULE EpochBinding -----------------------------
(* GBP nodes together with their MLS contexts, driven by the applications the  *)
(* way the stack's lifecycle tests drive them: the originator commits and      *)
(* sends PREPARE with the commit, a receiver stages the commit, EXECUTE is     *)
(* sealed under the old group and merges the commit on both sides, ABORT       *)
(* rolls it back.  Frames are lost, repeated and reordered.  After a handover  *)
(* race more than one member originates.                                       *)
EXTENDS GroupNode, Sequences

CONSTANTS Originator,   \* members whose applications originate transitions
          Founder,      \* members of the group after its first transition
          Rebuilt,      \* members that may be rebuilt after a restart
          MaxTid,       \* bound: largest TransitionID used
          MaxCommit,    \* bound: commits per originator
          MaxSeq        \* bound: MaxSeq[m] control frames from m in one epoch

INSTANCE MlsContext

ASSUME OriginatorAssumption == Originator \subseteq Founder /\ Founder \subseteq Member
ASSUME RestartAssumption == Rebuilt \subseteq Member \ Originator
ASSUME BindingBoundAssumption ==
    MaxTid \in Nat /\ MaxCommit \in Nat /\ MaxSeq \in [Member -> Nat]

VARIABLES node,     \* node[m]: the GroupNode of member m
          mls,      \* mls[m]: the MlsContext of member m
          net,      \* every control frame sent
          tried,    \* tried[m]: the last tid m has prepared; tids are not reused
          commits,  \* commits[m]: how many commits m has created
          heard     \* heard[m]: whose PREPAREs of its pending tid m has sent or
                    \* handled (history)

vars == <<node, mls, net, tried, commits, heard>>

Joined(m) == node[m].state # "Idle"

\* Transition 1 has admitted the founders.
FirstCommit == [by |-> CHOOSE m \in Originator : \A o \in Originator : m <= o, no |-> 0]

Init ==
    /\ node = [m \in Member |->
                 IF m \in Founder THEN ApplyTransition(BootstrapAsCreator(New, 0), 1) ELSE New]
    /\ mls = [m \in Member |->
                IF m \in Founder THEN AcceptWelcome(NewMember, <<FirstCommit>>) ELSE NewMember]
    /\ net = {}
    /\ tried = [m \in Member |-> 1]
    /\ commits = [m \in Member |-> 0]
    /\ heard = [m \in Member |-> {}]

------------------------------------------------------------------------------
(* Originating a transition *)

\* The frame m's node nd puts on the wire for op, sealed under m's group
Sealed(m, nd, op, tid, commit) ==
    [from |-> m, epoch |-> nd.current_epoch, seq |-> nd.out_seq["Control"] + 1,
     op |-> op, tid |-> tid, commit |-> commit, sealed |-> mls[m].group]

MaySend(m) ==
    /\ Joined(m)
    /\ CanSend(node[m])
    /\ node[m].out_seq["Control"] < MaxSeq[m]

\* invite_full or remove_members, then PREPARE with the commit
Prepare(m, tid) ==
    LET c == [by |-> m, no |-> commits[m] + 1]
    IN  /\ m \in Originator /\ MaySend(m)
        /\ node[m].pending_transition_id = 0
        /\ tid > node[m].last_transition_id /\ tid > tried[m]
        /\ CanCommit(mls[m]) /\ commits[m] < MaxCommit
        /\ mls' = [mls EXCEPT ![m] = InviteFull(@, c)]
        /\ node' = [node EXCEPT ![m] = SendControl(@, "Prepare", tid)]
        /\ net' = net \cup {Sealed(m, node[m], "Prepare", tid, {c})}
        /\ commits' = [commits EXCEPT ![m] = @ + 1]
        /\ tried' = [tried EXCEPT ![m] = tid]
        /\ heard' = [heard EXCEPT ![m] = {m}]

Ready(m) ==
    /\ m \notin Originator /\ MaySend(m)
    /\ node[m].pending_transition_id # 0 /\ mls[m].staged # {}
    /\ node' = [node EXCEPT ![m] = SendControl(@, "Ready", @.pending_transition_id)]
    /\ net' = net \cup {Sealed(m, node[m], "Ready", node[m].pending_transition_id, {})}
    /\ UNCHANGED <<mls, tried, commits, heard>>

\* EXECUTE, apply_transition and finalize_pending_commit, by an originator that
\* knows of no lower one's PREPARE
Execute(m) ==
    LET tid == node[m].pending_transition_id
    IN  /\ m \in heard[m] /\ MaySend(m)
        /\ tid # 0
        /\ \A h \in heard[m] : m <= h
        /\ node' = [node EXCEPT ![m] = ApplyTransition(SendControl(@, "Execute", tid), tid)]
        /\ net' = net \cup {Sealed(m, node[m], "Execute", tid, {})}
        /\ mls' = [mls EXCEPT ![m] = FinalizePendingCommit(@)]
        /\ heard' = [heard EXCEPT ![m] = {}]
        /\ UNCHANGED <<tried, commits>>

\* ABORT and roll-back, by choice or because check_timeouts, with nd the node
\* it leaves, reported PREPARE_TIMEOUT
GiveUp(m, nd) ==
    LET tid == node[m].pending_transition_id
    IN  /\ m \in heard[m] /\ MaySend(m)
        /\ tid # 0
        /\ node' = [node EXCEPT ![m] = SendControl(nd, "Abort", tid)]
        /\ net' = net \cup {Sealed(m, nd, "Abort", tid, {})}
        /\ mls' = [mls EXCEPT ![m] = ClearPendingCommit(@)]
        /\ heard' = [heard EXCEPT ![m] = {}]
        /\ UNCHANGED <<tried, commits>>

Abort(m) == GiveUp(m, node[m])

PrepareTimeout(m) ==
    /\ node[m].prepare_deadline
    /\ GiveUp(m, CheckTimeouts(node[m], TRUE, TRUE, FALSE))

------------------------------------------------------------------------------
(* Receiving: on_wire, then the application's reaction to the event *)

RejectEpoch(m, f) ==
    /\ Joined(m) /\ f.from # m
    /\ f.epoch # node[m].current_epoch
    /\ node' = [node EXCEPT ![m] = TriggerResync(@)]
    /\ UNCHANGED <<mls, net, tried, commits, heard>>

Accepts(m, f) ==
    /\ Joined(m) /\ f.from # m
    /\ f.epoch = node[m].current_epoch
    /\ Fresh(node[m], "Control", f.from, f.seq)

DecryptFailed(m, f) ==
    /\ Accepts(m, f)
    /\ ~ Opens(mls[m], f.sealed)
    /\ node' = [node EXCEPT ![m] = Record(@, "Control", f.from, f.seq)]
    /\ UNCHANGED <<mls, net, tried, commits, heard>>

\* The application hands the commit of every PREPARE it is shown to MLS, merges
\* on EXECUTE and rolls back on ABORT.
React(ctx, f) ==
    CASE f.op = "Prepare" -> ProcessMessage(ctx, CHOOSE c \in f.commit : TRUE)
      [] f.op = "Execute" -> FinalizePendingCommit(ctx)
      [] f.op = "Abort" -> ClearPendingCommit(ctx)
      [] OTHER -> ctx

NowHeard(m, f) ==
    CASE f.op = "Prepare" -> heard[m] \cup {f.from}
      [] f.op \in {"Execute", "Abort"} -> {}
      [] OTHER -> heard[m]

Deliver(m, f) ==
    /\ Accepts(m, f)
    /\ Opens(mls[m], f.sealed)
    /\ node' = [node EXCEPT ![m] =
                  HandleControl(Record(@, "Control", f.from, f.seq), m, f.from, f.op, f.tid)]
    /\ LET shown == TidOk(node[m], f.op, f.tid)
       IN  /\ mls' = [mls EXCEPT ![m] = IF shown THEN React(@, f) ELSE @]
           /\ heard' = [heard EXCEPT ![m] = IF shown THEN NowHeard(m, f) ELSE @]
    /\ UNCHANGED <<net, tried, commits>>

------------------------------------------------------------------------------
(* Joining and restarting *)

\* A Welcome of originator c's last transition, accepted after its EXECUTE
Join(m, c) ==
    /\ ~ Joined(m)
    /\ node[c].last_transition_id # 0
    /\ mls' = [mls EXCEPT ![m] = AcceptWelcome(@, mls[c].group)]
    /\ node' = [node EXCEPT ![m] =
                  ApplyTransition(BootstrapAsJoiner(New, Epoch(mls[c]) - 1, 0),
                                  node[c].last_transition_id)]
    /\ UNCHANGED <<net, tried, commits, heard>>

\* Node and context are rebuilt from what was exported.
Restart(m) ==
    /\ m \in Rebuilt
    /\ Joined(m)
    /\ mls' = [mls EXCEPT ![m] = RestoreState(@)]
    /\ node' = [node EXCEPT ![m] = Rebuild(@, Epoch(mls[m]))]
    /\ heard' = [heard EXCEPT ![m] = {}]
    /\ UNCHANGED <<net, tried, commits>>

------------------------------------------------------------------------------
Next ==
    \E m \in Member :
        \/ \E tid \in 2 .. MaxTid : Prepare(m, tid)
        \/ Ready(m)
        \/ Execute(m)
        \/ Abort(m)
        \/ PrepareTimeout(m)
        \/ \E c \in Originator : Join(m, c)
        \/ Restart(m)
        \/ \E f \in net : RejectEpoch(m, f) \/ DecryptFailed(m, f) \/ Deliver(m, f)

Spec == Init /\ [][Next]_vars

------------------------------------------------------------------------------
(* Properties *)

\* A member's GBP epoch is its MLS epoch (gbp-mls-binding.md section 4;
\* apply_transition and finalize_pending_commit move on together).
EpochIsMlsEpoch ==
    \A m \in Member : Joined(m) => node[m].current_epoch = Epoch(mls[m])

\* Members in the same epoch merged the same commits, so they hold the same
\* secrets and can read each other (send_control's PREPARE and EXECUTE,
\* process_message and finalize_pending_commit together).
SameEpochSameGroup ==
    \A a, b \in Member :
        Joined(a) /\ Joined(b) /\ node[a].current_epoch = node[b].current_epoch
        => mls[a].group = mls[b].group

\* A staged commit is the one announced by the PREPARE behind the member's
\* pending transition: EXECUTE merges what was prepared (handle_control,
\* process_message, clear_pending_commit).
StagedWasPrepared ==
    \A m \in Member : \A c \in mls[m].staged :
        \E f \in net :
            /\ f.op = "Prepare" /\ f.commit = {c}
            /\ f.tid = node[m].pending_transition_id
            /\ {f.from} = node[m].pending_commit_sender

\* Of competing PREPAREs for its pending tid, a member that only receives keeps
\* the lowest sender's as the winner, in whatever order they arrive
\* (handle_control's tie-break).
LowestPrepareWins ==
    \A m \in Member \ Originator :
        heard[m] # {} => \A h \in heard[m] : \A w \in node[m].pending_commit_sender : w <= h

\* The same of every member, an originator's own PREPARE counted
\* (gbp_rfc.md section 8: "Break ties by lowest committer MemberID").
LowestCommitterWins ==
    \A m \in Member :
        heard[m] # {} => \A h \in heard[m] : \A w \in node[m].pending_commit_sender : w <= h

\* The prepare deadline runs only while a transition is pending, so its expiry
\* drops the transition it was armed for and no other (GroupNode's comment on
\* prepare_deadline; EXECUTE of another originator leaves it armed).
PrepareDeadlineGuards ==
    \A m \in Member : node[m].prepare_deadline => node[m].pending_transition_id # 0

==============================================================================
