------------------------------ MODULE GroupNode ------------------------------
(* The GBP node of crates/gbp/node/src/node.rs as a data type: the GroupNode   *)
(* struct is a record and each method is an operator from a node to a node.    *)
(* The modules that put nodes on a network use these operators as the effect  *)
(* of their actions.                                                           *)
(*                                                                             *)
(* Abstractions.  A stream id is the member that owns the stream, because      *)
(* member_stream_id is injective for a fixed stream type.  An Option<MemberId> *)
(* is a set with at most one element.  A deadline (Option<Instant>) is the     *)
(* Boolean "armed"; CheckTimeouts is told which armed deadlines have expired.  *)
(* Errors and other events are not queued: the events an application reacts to *)
(* are the actions of the modules that use this one.                           *)
EXTENDS Naturals

CONSTANTS Member,      \* MemberId values of the group
          StreamType   \* stream types in use, "Control" among them

ASSUME MemberAssumption == Member \subseteq Nat \ {0}
ASSUME StreamTypeAssumption == "Control" \in StreamType

------------------------------------------------------------------------------
(* gbp-core: state.rs and control.rs *)

NodeState ==
    {"Idle", "Connecting", "EstablishingGroup", "Active", "Resyncing", "Failed", "Closed"}

TransitionState ==
    {"TIdle", "TPrepared", "TCommitProcessed", "TReady", "TExecuted", "TAborted"}

ControlOpcode ==
    {"Prepare", "Ready", "Execute", "Abort", "DigestRequest", "DigestResponse",
     "ReportInvalidCommit", "Advertise", "Claim", "Ack", "Nack"}

\* NodeState::can_transition_to
NodeCanTransitionTo(from, to) ==
    \/ to = "Closed"
    \/ <<from, to>> \in
          {<<"Idle", "Connecting">>, <<"Connecting", "EstablishingGroup">>,
           <<"EstablishingGroup", "Active">>, <<"Active", "Resyncing">>,
           <<"Resyncing", "Active">>}
    \/ to = "Failed" /\ from \in NodeState \ {"Failed", "Closed"}

\* TransitionState::can_transition_to
TransitionCanTransitionTo(from, to) ==
    \/ <<from, to>> \in
          {<<"TIdle", "TPrepared">>, <<"TPrepared", "TCommitProcessed">>,
           <<"TCommitProcessed", "TReady">>, <<"TReady", "TExecuted">>,
           <<"TExecuted", "TIdle">>, <<"TAborted", "TIdle">>}
    \/ to = "TAborted" /\ from \in {"TPrepared", "TCommitProcessed", "TReady"}

------------------------------------------------------------------------------
(* The struct *)

GroupNodeType ==
    [current_epoch         : Nat,
     last_transition_id    : Nat,
     pending_transition_id : Nat,
     state                 : NodeState,
     transition_state      : TransitionState,
     is_coordinator        : BOOLEAN,
     pending_commit_sender : SUBSET Member,
     prepare_deadline      : BOOLEAN,
     execute_deadline      : BOOLEAN,
     coordinator_last_seen : BOOLEAN,
     out_seq               : [StreamType -> Nat],
     in_hw                 : [StreamType -> [Member -> Nat]]]

NoOutSeq == [st \in StreamType |-> 0]
NoInHw == [st \in StreamType |-> [m \in Member |-> 0]]

New ==
    [current_epoch         |-> 0,
     last_transition_id    |-> 0,
     pending_transition_id |-> 0,
     state                 |-> "Idle",
     transition_state      |-> "TIdle",
     is_coordinator        |-> FALSE,
     pending_commit_sender |-> {},
     prepare_deadline      |-> FALSE,
     execute_deadline      |-> FALSE,
     coordinator_last_seen |-> FALSE,
     out_seq               |-> NoOutSeq,
     in_hw                 |-> NoInHw]

------------------------------------------------------------------------------
(* Node FSM *)

\* Mutant: a node that is already in the state is not excepted
TransitionAlwaysAsks(nd, next) ==
    [nd EXCEPT !.state = IF NodeCanTransitionTo(@, next) THEN next ELSE "Failed"]

\* transition: an edge the matrix does not have puts the node in Failed
Transition(nd, next) ==
    [nd EXCEPT !.state =
        IF @ = next \/ NodeCanTransitionTo(@, next) THEN next ELSE "Failed"]

TriggerResync(nd) == Transition(nd, "Resyncing")

\* emit_err_named with a fatal code
FatalError(nd) == [nd EXCEPT !.state = "Failed"]

BootstrapAsCreator(nd, epoch) ==
    LET joined == Transition(Transition(nd, "Connecting"), "EstablishingGroup")
    IN  Transition([joined EXCEPT !.current_epoch = epoch], "Active")

BootstrapAsJoiner(nd, epoch, first) ==
    LET bare  == BootstrapAsCreator(nd, epoch)
    IN  IF first = 0 THEN bare
        ELSE [bare EXCEPT !.pending_transition_id = first,
                          !.transition_state = "TPrepared"]

\* Mutant: rebuilt one epoch low, as if a joiner
RebuildOneLow(nd, epoch) ==
    [BootstrapAsCreator(New, epoch - 1) EXCEPT !.out_seq = nd.out_seq]

\* What a rebuilt node keeps: only the outbound counters are exported
Rebuild(nd, epoch) ==
    [BootstrapAsCreator(New, epoch) EXCEPT !.out_seq = nd.out_seq]

------------------------------------------------------------------------------
(* Sending *)

CanSend(nd) == nd.state \in {"Active", "Resyncing", "EstablishingGroup"}

NextSeq(nd, st) == [nd EXCEPT !.out_seq[st] = @ + 1]

\* send_payload: an application frame; nothing happens when it cannot be sent
SendPayload(nd, st) == IF CanSend(nd) THEN NextSeq(nd, st) ELSE nd

\* Mutant: EXECUTE leaves the sender's prepare deadline armed
MirrorKeepsPrepare(nd, op, tid) ==
    CASE op = "Prepare" ->
           [nd EXCEPT !.pending_transition_id = tid,
                      !.transition_state = "TPrepared",
                      !.prepare_deadline = TRUE,
                      !.execute_deadline = FALSE]
      [] op = "Ready" -> [nd EXCEPT !.execute_deadline = TRUE]
      [] op = "Execute" -> [nd EXCEPT !.execute_deadline = FALSE]
      [] op = "Abort" ->
           [nd EXCEPT !.prepare_deadline = FALSE,
                      !.execute_deadline = FALSE,
                      !.pending_transition_id = 0,
                      !.transition_state = "TAborted"]
      [] OTHER -> nd

\* The sender's own bookkeeping in send_control, done before the state check
Mirror(nd, op, tid) ==
    CASE op = "Prepare" ->
           [nd EXCEPT !.pending_transition_id = tid,
                      !.transition_state = "TPrepared",
                      !.prepare_deadline = TRUE,
                      !.execute_deadline = FALSE]
      [] op = "Ready" ->
           [nd EXCEPT !.execute_deadline = TRUE]
      [] op = "Execute" ->
           [nd EXCEPT !.prepare_deadline = FALSE,
                      !.execute_deadline = FALSE]
      [] op = "Abort" ->
           [nd EXCEPT !.prepare_deadline = FALSE,
                      !.execute_deadline = FALSE,
                      !.pending_transition_id = 0,
                      !.transition_state = "TAborted"]
      [] OTHER -> nd

SendControl(nd, op, tid) == SendPayload(Mirror(nd, op, tid), "Control")

ClaimCoordinator(nd) ==
    SendControl([nd EXCEPT !.is_coordinator = TRUE, !.coordinator_last_seen = TRUE],
                "Claim", nd.last_transition_id)

------------------------------------------------------------------------------
(* Receiving *)

\* deliver_frame: the replay check and the window update, which precedes
\* the AEAD open
Fresh(nd, st, from, seq) == seq > nd.in_hw[st][from]

Record(nd, st, from, seq) == [nd EXCEPT !.in_hw[st][from] = seq]

\* Mutants: the pending transition survives its execution; the epoch counter
\* is not advanced
ApplyTransitionKeepsPending(nd, tid) ==
    [nd EXCEPT !.current_epoch = @ + 1,
               !.last_transition_id = tid,
               !.transition_state = "TExecuted",
               !.out_seq = NoOutSeq,
               !.in_hw = NoInHw]

ApplyTransitionSameEpoch(nd, tid) ==
    [nd EXCEPT !.last_transition_id = tid,
               !.pending_transition_id = 0,
               !.pending_commit_sender = {},
               !.transition_state = "TExecuted",
               !.out_seq = NoOutSeq,
               !.in_hw = NoInHw]

ApplyTransition(nd, tid) ==
    [nd EXCEPT !.current_epoch = @ + 1,
               !.last_transition_id = tid,
               !.pending_transition_id = 0,
               !.pending_commit_sender = {},
               !.transition_state = "TExecuted",
               !.out_seq = NoOutSeq,
               !.in_hw = NoInHw]

\* Per-opcode validation of the transition id
TidOk(nd, op, tid) ==
    CASE op = "Prepare" ->
           /\ tid > nd.last_transition_id
           /\ nd.pending_transition_id \in {0, tid}
      [] op \in {"Ready", "Execute", "Abort"} ->
           /\ nd.pending_transition_id # 0
           /\ tid = nd.pending_transition_id
      [] OTHER -> TRUE

\* Mutant: the higher member wins
HoldsAgainstLower(nd, from, tid) ==
    /\ nd.pending_transition_id = tid
    /\ \E w \in nd.pending_commit_sender : from <= w

\* A PREPARE for the pending tid replaces the recorded winner only if it
\* comes from a lower member
HoldsAgainst(nd, from, tid) ==
    /\ nd.pending_transition_id = tid
    /\ \E w \in nd.pending_commit_sender : from >= w

OnPrepare(nd, from, tid) ==
    IF HoldsAgainst(nd, from, tid) THEN nd
    ELSE [nd EXCEPT !.pending_transition_id = tid,
                    !.pending_commit_sender = {from},
                    !.transition_state = "TPrepared",
                    !.coordinator_last_seen = TRUE,
                    !.execute_deadline = TRUE]

OnReady(nd) ==
    [nd EXCEPT !.transition_state = "TReady", !.prepare_deadline = FALSE]

OnExecute(nd, tid) ==
    [ApplyTransition(nd, tid) EXCEPT !.execute_deadline = FALSE,
                                     !.coordinator_last_seen = TRUE]

\* Mutants: ABORT leaves the transition pending; ABORT leaves the execute
\* deadline armed
OnAbortKeepsPending(nd) ==
    [nd EXCEPT !.prepare_deadline = FALSE,
               !.execute_deadline = FALSE,
               !.transition_state = "TAborted"]

OnAbortKeepsExecute(nd) ==
    [nd EXCEPT !.prepare_deadline = FALSE,
               !.pending_commit_sender = {},
               !.transition_state = "TAborted",
               !.pending_transition_id = 0]

OnAbort(nd) ==
    [nd EXCEPT !.prepare_deadline = FALSE,
               !.execute_deadline = FALSE,
               !.pending_commit_sender = {},
               !.transition_state = "TAborted",
               !.pending_transition_id = 0]

OnDigestResponse(nd) ==
    IF nd.state = "Resyncing" THEN Transition(nd, "Active") ELSE nd

\* Mutant: the role is yielded to a higher claimant
OnClaimYieldsToHigher(nd, self, from) ==
    [nd EXCEPT !.coordinator_last_seen = TRUE,
               !.is_coordinator = @ /\ ~ (from > self)]

OnClaim(nd, self, from) ==
    [nd EXCEPT !.coordinator_last_seen = TRUE,
               !.is_coordinator = @ /\ ~ (from < self)]

\* handle_control at member self
HandleControl(nd, self, from, op, tid) ==
    CASE ~ TidOk(nd, op, tid) -> nd
      [] TidOk(nd, op, tid) /\ op = "Prepare" -> OnPrepare(nd, from, tid)
      [] TidOk(nd, op, tid) /\ op = "Ready" -> OnReady(nd)
      [] TidOk(nd, op, tid) /\ op = "Execute" -> OnExecute(nd, tid)
      [] TidOk(nd, op, tid) /\ op = "Abort" -> OnAbort(nd)
      [] op = "DigestResponse" -> OnDigestResponse(nd)
      [] op = "Claim" -> OnClaim(nd, self, from)
      [] OTHER -> nd

------------------------------------------------------------------------------
(* Timers *)

\* check_timeouts, in its three parts.  prep, exec and gone say which deadlines
\* have expired; a firing prepare deadline disarms the execute deadline, so the
\* second part only runs on what the first one left.
FirePrepare(nd) ==
    [nd EXCEPT !.prepare_deadline = FALSE,
               !.execute_deadline = FALSE,
               !.pending_transition_id = 0,
               !.transition_state = "TAborted"]

FireExecute(nd) == [nd EXCEPT !.execute_deadline = FALSE]

FireCoordinatorGone(nd) ==
    [nd EXCEPT !.coordinator_last_seen = FALSE, !.is_coordinator = FALSE]

CheckTimeouts(nd, prep, exec, gone) ==
    LET p == IF prep /\ nd.prepare_deadline THEN FirePrepare(nd) ELSE nd
        e == IF exec /\ p.execute_deadline THEN FireExecute(p) ELSE p
    IN  IF gone /\ e.coordinator_last_seen THEN FireCoordinatorGone(e) ELSE e

==============================================================================
