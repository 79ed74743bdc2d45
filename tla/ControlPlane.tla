----------------------------- MODULE ControlPlane -----------------------------
(* The epoch-transition handshake of a group: GBP nodes, the applications that *)
(* drive them, and a network that loses, repeats and reorders frames.          *)
(*                                                                             *)
(* One member, the coordinator, originates transitions (gbp-control-plane      *)
(* section 5.1).  Its application sends PREPARE, collects READY, sends EXECUTE *)
(* and then calls apply_transition, as the stack's lifecycle tests do.  The    *)
(* other members answer through on_wire.  The number of READY frames that make *)
(* a quorum is left to the application by the code, so EXECUTE may be sent at  *)
(* any time.  MLS is abstracted to "open may fail".                            *)
EXTENDS GroupNode, Sequences

CONSTANTS Coordinator,   \* the member whose application originates transitions
          Rebuilt,       \* members that may be rebuilt after a restart
          Responder,     \* members that answer digest requests
          Misrouted,     \* members that may get a frame of another group
          MaxTid,        \* bound: largest TransitionID used
          MaxSeq         \* bound: MaxSeq[m] control frames from m in one epoch

ASSUME CoordinatorAssumption == Coordinator \in Member
ASSUME EnvironmentAssumption ==
    /\ Rebuilt \subseteq Member \ {Coordinator}
    /\ Responder \subseteq Member
    /\ Misrouted \subseteq Member
ASSUME BoundAssumption == MaxTid \in Nat /\ MaxSeq \in [Member -> Nat]

VARIABLES node,       \* node[m]: the GroupNode of member m
          net,        \* every control frame ever sent
          deciding,   \* tid of the EXECUTE sent and not yet applied locally, or 0
          log         \* log[m]: the tids of m's EpochAdvanced events (history)

vars == <<node, net, deciding, log>>

Frame == [from : Member, epoch : Nat, seq : Nat, op : ControlOpcode, tid : Nat]

TypeOK ==
    /\ node \in [Member -> GroupNodeType]
    /\ net \in SUBSET Frame
    /\ deciding \in Nat
    /\ log \in [Member -> Seq(Nat)]

Joined(m) == node[m].state # "Idle"

LastTid(s) == IF s = << >> THEN 0 ELSE s[Len(s)]

Init ==
    /\ node = [m \in Member |->
                 IF m = Coordinator THEN BootstrapAsCreator(New, 0) ELSE New]
    /\ net = {}
    /\ deciding = 0
    /\ log = [m \in Member |-> << >>]

------------------------------------------------------------------------------
(* Sending.  The frame carries the sender's epoch and next sequence number.    *)

ControlFrame(m, op, tid) ==
    [from |-> m, epoch |-> node[m].current_epoch,
     seq |-> node[m].out_seq["Control"] + 1, op |-> op, tid |-> tid]

Send(m, op, tid) ==
    /\ node[m].out_seq["Control"] < MaxSeq[m]
    /\ node' = [node EXCEPT ![m] = SendControl(@, op, tid)]
    /\ net' = net \cup (IF CanSend(node[m]) THEN {ControlFrame(m, op, tid)} ELSE {})

\* A new transition, or the same one again while it is pending
Prepare(tid) ==
    /\ deciding = 0
    /\ tid > node[Coordinator].last_transition_id
    /\ node[Coordinator].pending_transition_id \in {0, tid}
    /\ Send(Coordinator, "Prepare", tid)
    /\ UNCHANGED <<deciding, log>>

Ready(m) ==
    /\ m # Coordinator
    /\ Joined(m)
    /\ node[m].pending_transition_id # 0
    /\ Send(m, "Ready", node[m].pending_transition_id)
    /\ UNCHANGED <<deciding, log>>

\* EXECUTE for the pending transition, or without a PREPARE when the only
\* other member is a joiner; the application goes on only if it was sent
Execute(tid) ==
    /\ deciding = 0
    /\ tid > node[Coordinator].last_transition_id
    /\ node[Coordinator].pending_transition_id \in {0, tid}
    /\ Send(Coordinator, "Execute", tid)
    /\ deciding' = IF CanSend(node[Coordinator]) THEN tid ELSE 0
    /\ UNCHANGED log

\* The coordinator's own apply_transition, after its EXECUTE
ApplyDecided ==
    /\ deciding # 0
    /\ node' = [node EXCEPT ![Coordinator] = ApplyTransition(@, deciding)]
    /\ log' = [log EXCEPT ![Coordinator] = Append(@, deciding)]
    /\ deciding' = 0
    /\ UNCHANGED net

Abort ==
    /\ deciding = 0
    /\ node[Coordinator].pending_transition_id # 0
    /\ Send(Coordinator, "Abort", node[Coordinator].pending_transition_id)
    /\ UNCHANGED <<deciding, log>>

DigestResponse(m) ==
    /\ m \in Responder
    /\ Joined(m)
    /\ Send(m, "DigestResponse", node[m].last_transition_id)
    /\ UNCHANGED <<deciding, log>>

------------------------------------------------------------------------------
(* Joining and restarting *)

\* Welcome before EXECUTE: the joiner is armed with the tid of the admission
\* transition.  The Welcome may arrive late, when the group has moved on.
JoinArmed(m, e, tid) ==
    /\ ~ Joined(m)
    /\ tid > LastTid(SubSeq(log[Coordinator], 1, e))
    /\ node' = [node EXCEPT ![m] = BootstrapAsJoiner(New, e, tid)]
    /\ log' = [log EXCEPT ![m] = SubSeq(log[Coordinator], 1, e)]
    /\ UNCHANGED <<net, deciding>>

\* Welcome after EXECUTE, possibly late: the joiner bootstraps one epoch below
\* the Welcome's and applies the admission transition itself.
JoinApplied(m, e) ==
    /\ ~ Joined(m)
    /\ node' = [node EXCEPT ![m] =
                  ApplyTransition(BootstrapAsJoiner(New, e - 1, 0), log[Coordinator][e])]
    /\ log' = [log EXCEPT ![m] = SubSeq(log[Coordinator], 1, e)]
    /\ UNCHANGED <<net, deciding>>

\* A member is rebuilt from its MLS state and its exported outbound counters.
Restart(m) ==
    /\ m \in Rebuilt
    /\ Joined(m)
    /\ node' = [node EXCEPT ![m] = Rebuild(@, @.current_epoch)]
    /\ UNCHANGED <<net, deciding, log>>

------------------------------------------------------------------------------
(* Receiving (on_wire / deliver_frame).  A frame that fails the replay check   *)
(* leaves the node as it is.                                                   *)

\* Another epoch's frame is rejected and the node resynchronises.
RejectEpoch(m, f) ==
    /\ Joined(m) /\ f.from # m
    /\ f.epoch # node[m].current_epoch
    /\ node' = [node EXCEPT ![m] = TriggerResync(@)]
    /\ UNCHANGED <<net, deciding, log>>

\* Mutant: the epoch is not checked
AcceptsAnyEpoch(m, f) ==
    /\ Joined(m) /\ f.from # m
    /\ Fresh(node[m], "Control", f.from, f.seq)

\* The frame passes every check up to the replay window.
Accepts(m, f) ==
    /\ Joined(m) /\ f.from # m
    /\ f.epoch = node[m].current_epoch
    /\ Fresh(node[m], "Control", f.from, f.seq)

\* Decryption fails: the window has moved, nothing else has.
DecryptFailed(m, f) ==
    /\ Accepts(m, f)
    /\ node' = [node EXCEPT ![m] = Record(@, "Control", f.from, f.seq)]
    /\ UNCHANGED <<net, deciding, log>>

\* EXECUTE for the pending transition moves the member to the next epoch.
DeliverExecute(m, f) ==
    /\ Accepts(m, f)
    /\ f.op = "Execute" /\ TidOk(node[m], f.op, f.tid)
    /\ node' = [node EXCEPT ![m] =
                  HandleControl(Record(@, "Control", f.from, f.seq), m, f.from, f.op, f.tid)]
    /\ log' = [log EXCEPT ![m] = Append(@, f.tid)]
    /\ UNCHANGED <<net, deciding>>

\* Every other control frame, those with an invalid tid included.
DeliverControl(m, f) ==
    /\ Accepts(m, f)
    /\ ~ (f.op = "Execute" /\ TidOk(node[m], f.op, f.tid))
    /\ node' = [node EXCEPT ![m] =
                  HandleControl(Record(@, "Control", f.from, f.seq), m, f.from, f.op, f.tid)]
    /\ UNCHANGED <<net, deciding, log>>

\* A frame of another group or protocol version is fatal.
RejectForeign(m) ==
    /\ m \in Misrouted
    /\ Joined(m)
    /\ node' = [node EXCEPT ![m] = FatalError(@)]
    /\ UNCHANGED <<net, deciding, log>>

------------------------------------------------------------------------------
(* Timers.  While both deadlines are armed the prepare deadline is the earlier *)
(* one, so an expired execute deadline means the prepare deadline fires too.   *)
(* The coordinator-silence timer, which touches no variable of the handshake,  *)
(* is modelled in Election.                                                    *)

Timeouts(m, prep, exec) ==
    /\ Joined(m)
    /\ exec /\ node[m].prepare_deadline => prep
    /\ node' = [node EXCEPT ![m] = CheckTimeouts(@, prep, exec, FALSE)]
    /\ UNCHANGED <<net, deciding, log>>

------------------------------------------------------------------------------
Next ==
    \/ \E tid \in 1 .. MaxTid : Prepare(tid) \/ Execute(tid)
    \/ ApplyDecided
    \/ Abort
    \/ \E m \in Member :
          \/ Ready(m)
          \/ DigestResponse(m)
          \/ \E e \in 0 .. Len(log[Coordinator]), tid \in 1 .. MaxTid : JoinArmed(m, e, tid)
          \/ \E e \in 1 .. Len(log[Coordinator]) : JoinApplied(m, e)
          \/ Restart(m)
          \/ RejectForeign(m)
          \/ \E prep, exec \in BOOLEAN : Timeouts(m, prep, exec)
          \/ \E f \in net :
                \/ RejectEpoch(m, f)
                \/ DecryptFailed(m, f)
                \/ DeliverExecute(m, f)
                \/ DeliverControl(m, f)

Spec == Init /\ [][Next]_vars

------------------------------------------------------------------------------
(* Properties *)

\* The decided transitions: those the coordinator applied, and the one whose
\* EXECUTE is out.
Decided == IF deciding = 0 THEN log[Coordinator] ELSE Append(log[Coordinator], deciding)

EpochLog == INSTANCE EpochLog WITH Tid <- 1 .. MaxTid, decided <- Decided, applied <- log

\* Over a network that loses, repeats and reorders, with joiners, restarts and
\* timeouts, all members go through one sequence of transitions with increasing
\* tids, in order and without gaps (deliver_frame, handle_control,
\* apply_transition together).
OneTransitionLog == EpochLog!Spec

\* Two members in the same epoch got there by the same transition; a joiner
\* that waits for its first EXECUTE and a rebuilt node have no last tid yet
\* (handshake.rs: the group converges on a single (epoch, tid)).
SameEpochSameTid ==
    \A a, b \in Member :
        /\ node[a].current_epoch = node[b].current_epoch
        /\ node[a].last_transition_id # 0 /\ node[b].last_transition_id # 0
        => node[a].last_transition_id = node[b].last_transition_id

\* A member only has a transition pending that the coordinator prepared in the
\* member's current epoch, or that its joiner bootstrap armed: what EXECUTE
\* applies was announced (handle_control's tid matrix and pending tid).
PendingWasPrepared ==
    \A m \in Member \ {Coordinator} :
        node[m].pending_transition_id # 0 /\ node[m].pending_commit_sender # {}
        => \E f \in net :
              /\ f.op = "Prepare" /\ f.from \in node[m].pending_commit_sender
              /\ f.epoch = node[m].current_epoch
              /\ f.tid = node[m].pending_transition_id

\* A deadline is armed only while a transition is pending, so an expiry never
\* hits a transition that is already over (send_control, handle_control and
\* check_timeouts arm and disarm the deadlines in step with the pending tid).
DeadlineGuardsPending ==
    \A m \in Member :
        node[m].prepare_deadline \/ node[m].execute_deadline
        => node[m].pending_transition_id # 0

\* transition fails the node for a step that the state matrix does not have, but
\* no sequence of frames of other epochs, digests, joins, restarts and timeouts
\* gets there: a node fails only by a frame of another group or version, which
\* is fatal (trigger_resync, handle_control, emit_err_named).
OnlyForeignFails ==
    [][\A m \in Member :
          node[m].state # "Failed" /\ node'[m].state = "Failed" => RejectForeign(m)]_vars

------------------------------------------------------------------------------
(* What the documents and comments say and the code does not do *)

\* Every change of a running member's transition state is an edge of the
\* transition matrix (gbp-state-machine.md section 4, TransitionState::
\* can_transition_to; handle_control, send_control and apply_transition assign
\* the state without asking it).
MatrixEnforced ==
    [][\A m \in Member \ {Coordinator} :
          Joined(m) /\ node'[m].transition_state # node[m].transition_state
          => TransitionCanTransitionTo(node[m].transition_state,
                                       node'[m].transition_state)]_vars

\* The coordinator enters TReady only when every other member has acknowledged
\* its pending transition (TransitionState::TReady's comment; handle_control
\* moves on at the first READY).
ReadyIsQuorum ==
    [][LET before == node[Coordinator]
           after  == node'[Coordinator]
       IN  before.transition_state # "TReady" /\ after.transition_state = "TReady"
           => \A m \in Member \ {Coordinator} :
                 Joined(m) => \E f \in net :
                                 /\ f.op = "Ready" /\ f.from = m
                                 /\ f.epoch = before.current_epoch
                                 /\ f.tid = before.pending_transition_id]_vars

\* A member whose execute deadline runs out resynchronises
\* (gbp-state-machine.md section 6; check_timeouts only reports the timeout).
ExecuteTimeoutResyncs ==
    [][\A m \in Member :
          /\ node[m].state = "Active" /\ node[m].execute_deadline
          /\ Timeouts(m, FALSE, TRUE)
          => node'[m].state = "Resyncing"]_vars

------------------------------------------------------------------------------
(* The inductive invariant behind the properties, by named parts *)

\* A member's epoch is the number of transitions it went through, and its last
\* tid the last of them (0 while a joiner or rebuilt node has none); the
\* coordinator, which is never rebuilt, always has it.
EpochCountsLog ==
    /\ \A m \in Member :
          /\ node[m].current_epoch = Len(log[m])
          /\ node[m].last_transition_id \in {0, LastTid(log[m])}
          /\ ~ Joined(m) => log[m] = << >>
    /\ Joined(Coordinator)
    /\ node[Coordinator].last_transition_id = LastTid(log[Coordinator])

\* No member has gone through anything but decided transitions, in order.
LogIsDecidedPrefix ==
    \A m \in Member :
        /\ Len(log[m]) <= Len(Decided)
        /\ \A i \in 1 .. Len(log[m]) : log[m][i] = Decided[i]

\* An EXECUTE frame of epoch e carries the tid decided for the next epoch: the
\* coordinator sends at most one tid per epoch.
ExecuteCarriesDecision ==
    \A f \in net :
        f.op = "Execute" => /\ f.epoch < Len(Decided)
                            /\ f.tid = Decided[f.epoch + 1]

\* Only the coordinator's frames start, execute or abort a transition.
CoordinatorOriginates ==
    \A f \in net : f.op \in {"Prepare", "Execute", "Abort"} => f.from = Coordinator

\* The prepare deadline is the coordinator's alone, and from EXECUTE to its own
\* apply_transition it has no deadline armed.
DeadlinesFollowRole ==
    /\ \A m \in Member \ {Coordinator} : ~ node[m].prepare_deadline
    /\ deciding # 0 => /\ ~ node[Coordinator].prepare_deadline
                       /\ ~ node[Coordinator].execute_deadline
                       /\ deciding > LastTid(log[Coordinator])

\* What every step of the handshake preserves; the safety invariants follow.
HandshakeInv ==
    /\ TypeOK
    /\ EpochCountsLog
    /\ LogIsDecidedPrefix
    /\ ExecuteCarriesDecision
    /\ CoordinatorOriginates
    /\ DeadlinesFollowRole
    /\ PendingWasPrepared
    /\ DeadlineGuardsPending

==============================================================================
