-------------------------- MODULE ControlPlane_proofs --------------------------
(* Proofs about ControlPlane, for every group, coordinator, environment and    *)
(* bound: the inductive invariant of the handshake, the safety properties that *)
(* follow from it, and that the handshake implements EpochLog.                 *)
EXTENDS ControlPlane, GroupNode_proofs

\* The PREPARE frame behind a member's pending transition.
PrepareSeen(nd, frames) ==
    nd.pending_transition_id # 0 /\ nd.pending_commit_sender # {}
    => \E f \in frames :
          /\ f.op = "Prepare" /\ f.from \in nd.pending_commit_sender
          /\ f.epoch = nd.current_epoch
          /\ f.tid = nd.pending_transition_id

\* A step that changes one node but neither its epoch nor any log, and that
\* sends no EXECUTE, preserves the invariant if the new node respects the
\* deadlines and the pending transition was prepared.
LEMMA QuietStep ==
    ASSUME HandshakeInv,
           NEW m \in Member, NEW r \in GroupNodeType,
           node' = [node EXCEPT ![m] = r],
           UNCHANGED <<deciding, log>>,
           r.state # "Idle",
           r.current_epoch = node[m].current_epoch,
           r.last_transition_id = node[m].last_transition_id
              \/ (m # Coordinator /\ r.last_transition_id = 0),
           net \subseteq net', net' \in SUBSET Frame,
           \A f \in net' : f \in net \/ f.op \notin {"Prepare", "Execute", "Abort"}
                              \/ (f.op # "Execute" /\ f.from = Coordinator),
           m # Coordinator => PrepareSeen(r, net') /\ r.prepare_deadline = FALSE,
           m = Coordinator /\ deciding # 0
              => r.prepare_deadline = FALSE /\ r.execute_deadline = FALSE,
           r.pending_transition_id # 0
              \/ (r.prepare_deadline = FALSE /\ r.execute_deadline = FALSE)
    PROVE  HandshakeInv'
<1> USE DEF HandshakeInv
<1>0. /\ node \in [Member -> GroupNodeType]
      /\ node'[m] = r
      /\ \A k \in Member : k # m => node'[k] = node[k]
      /\ node' \in [Member -> GroupNodeType]
      /\ Decided' = Decided
  BY Zenon DEF TypeOK, Decided
<1>1. TypeOK'
  BY <1>0, Zenon DEF TypeOK
<1>2. EpochCountsLog'
  BY <1>0, CoordinatorAssumption, Zenon DEF EpochCountsLog, Joined
<1>3. LogIsDecidedPrefix'
  BY <1>0, Zenon DEF LogIsDecidedPrefix
<1>4. ExecuteCarriesDecision'
  BY <1>0, Zenon DEF ExecuteCarriesDecision
<1>5. CoordinatorOriginates'
  BY Zenon DEF CoordinatorOriginates
<1>6. DeadlinesFollowRole'
  BY <1>0 DEF DeadlinesFollowRole
<1>7. PendingWasPrepared'
  BY <1>0, Zenon DEF PendingWasPrepared, PrepareSeen
<1>8. DeadlineGuardsPending'
  BY <1>0, Zenon DEF DeadlineGuardsPending
<1>9. QED
  BY <1>1, <1>2, <1>3, <1>4, <1>5, <1>6, <1>7, <1>8, Zenon

\* The initial group: an Active coordinator in epoch 0 and nobody else.
LEMMA InitEstablishes == Init => HandshakeInv
<1> SUFFICES ASSUME Init PROVE HandshakeInv
  OBVIOUS
<1> DEFINE first == BootstrapAsCreator(New, 0)
<1>1. /\ New \in GroupNodeType /\ New.state = "Idle" /\ New.current_epoch = 0
      /\ New.last_transition_id = 0 /\ New.pending_transition_id = 0
      /\ New.prepare_deadline = FALSE /\ New.execute_deadline = FALSE
  BY NewType, Zenon DEF New
<1>2. /\ first \in GroupNodeType /\ first.state = "Active" /\ first.current_epoch = 0
      /\ first.last_transition_id = 0 /\ first.pending_transition_id = 0
      /\ first.prepare_deadline = FALSE /\ first.execute_deadline = FALSE
  BY BootstrapAsCreatorEffect, Zenon
<1> HIDE DEF first
<1>3. /\ node \in [Member -> GroupNodeType]
      /\ \A m \in Member : node[m] = IF m = Coordinator THEN first ELSE New
      /\ net = {} /\ deciding = 0
      /\ \A m \in Member : log[m] = << >>
      /\ log \in [Member -> Seq(Nat)]
  BY <1>1, <1>2 DEF Init, first
<1>4. TypeOK
  BY <1>3, Zenon DEF TypeOK
<1>5. EpochCountsLog
  BY <1>1, <1>2, <1>3, CoordinatorAssumption, Zenon DEF EpochCountsLog, Joined, LastTid
<1>6. LogIsDecidedPrefix
  <2>0. Len(<< >>) = 0
    OBVIOUS
  <2>1. \A m \in Member : Len(log[m]) = 0
    BY <1>3, <2>0, Zenon
  <2>2. Decided = << >>
    BY <1>3, CoordinatorAssumption, Zenon DEF Decided
  <2>3. Len(Decided) = 0 /\ 1 .. 0 = {}
    BY <2>0, <2>2
  <2>4. ASSUME NEW m \in Member
        PROVE  /\ Len(log[m]) <= Len(Decided)
               /\ \A i \in 1 .. Len(log[m]) : log[m][i] = Decided[i]
    <3>1. Len(log[m]) = 0
      BY <2>1, Zenon
    <3>2. 1 .. Len(log[m]) = {}
      BY <2>3, <3>1, Zenon
    <3>3. QED
      BY <2>3, <3>1, <3>2
  <2>5. QED
    BY <2>4, Zenon DEF LogIsDecidedPrefix
<1>7. ExecuteCarriesDecision /\ CoordinatorOriginates
  BY <1>3, Zenon DEF ExecuteCarriesDecision, CoordinatorOriginates
<1>8. DeadlinesFollowRole /\ PendingWasPrepared /\ DeadlineGuardsPending
  BY <1>1, <1>2, <1>3, Zenon
  DEF DeadlinesFollowRole, PendingWasPrepared, DeadlineGuardsPending
<1>9. QED
  BY <1>4, <1>5, <1>6, <1>7, <1>8, Zenon DEF HandshakeInv

\* What Send does to the network and to the sender.
LEMMA SendEffect ==
    ASSUME HandshakeInv, NEW m \in Member, NEW op \in ControlOpcode, NEW tid \in Nat,
           Send(m, op, tid)
    PROVE  /\ SendControl(node[m], op, tid) \in GroupNodeType
           /\ node' = [node EXCEPT ![m] = SendControl(node[m], op, tid)]
           /\ net \subseteq net' /\ net' \in SUBSET Frame
           /\ \A f \in net' : f \in net \/ f = ControlFrame(m, op, tid)
           /\ ControlFrame(m, op, tid).op = op
           /\ ControlFrame(m, op, tid).from = m
           /\ ControlFrame(m, op, tid).tid = tid
           /\ ControlFrame(m, op, tid).epoch = node[m].current_epoch
<1>1. node[m] \in GroupNodeType /\ net \in SUBSET Frame
  BY Zenon DEF HandshakeInv, TypeOK
<1>2. node[m].current_epoch \in Nat /\ node[m].out_seq["Control"] \in Nat
  BY <1>1, StreamTypeAssumption, Zenon DEF GroupNodeType
<1>3. ControlFrame(m, op, tid) \in Frame
  BY <1>2 DEF ControlFrame, Frame
<1>4. SendControl(node[m], op, tid) \in GroupNodeType
  BY <1>1, SendControlEffect, Zenon
<1>5. QED
  BY <1>1, <1>3, <1>4, Zenon DEF Send, ControlFrame

\* Sends other than EXECUTE are quiet steps.
LEMMA PreparePreserves ==
    ASSUME HandshakeInv, NEW tid \in Nat \ {0}, Prepare(tid)
    PROVE  HandshakeInv'
<1> DEFINE r == SendControl(node[Coordinator], "Prepare", tid)
<1>1. Send(Coordinator, "Prepare", tid) /\ deciding = 0 /\ UNCHANGED <<deciding, log>>
  BY Zenon DEF Prepare
<1>2. "Prepare" \in ControlOpcode /\ Coordinator \in Member /\ tid \in Nat
  BY CoordinatorAssumption, Zenon DEF ControlOpcode
<1>3. node[Coordinator] \in GroupNodeType /\ node[Coordinator].state # "Idle"
  BY <1>2, Zenon DEF HandshakeInv, TypeOK, EpochCountsLog, Joined
<1>4. /\ r.state = node[Coordinator].state
      /\ r.current_epoch = node[Coordinator].current_epoch
      /\ r.last_transition_id = node[Coordinator].last_transition_id
      /\ r.pending_transition_id = tid
  <2>1. ASSUME NEW nd \in GroupNodeType
        PROVE  /\ SendControl(nd, "Prepare", tid).state = nd.state
               /\ SendControl(nd, "Prepare", tid).current_epoch = nd.current_epoch
               /\ SendControl(nd, "Prepare", tid).last_transition_id = nd.last_transition_id
               /\ SendControl(nd, "Prepare", tid).pending_transition_id = tid
    BY <1>2, SendControlEffect, Zenon
  <2>2. QED
    BY <1>3, <2>1, Zenon
<1>5. /\ r \in GroupNodeType
      /\ node' = [node EXCEPT ![Coordinator] = r]
      /\ net \subseteq net' /\ net' \in SUBSET Frame
      /\ \A f \in net' : f \in net \/ (f.op # "Execute" /\ f.from = Coordinator)
  BY <1>1, <1>2, SendEffect
<1> HIDE DEF r
<1>6. QED
  BY <1>1, <1>2, <1>3, <1>4, <1>5, QuietStep, Zenon

LEMMA AbortPreserves ==
    ASSUME HandshakeInv, Abort
    PROVE  HandshakeInv'
<1> DEFINE tid == node[Coordinator].pending_transition_id
           r == SendControl(node[Coordinator], "Abort", tid)
<1>1. Send(Coordinator, "Abort", tid) /\ deciding = 0 /\ UNCHANGED <<deciding, log>>
  BY Zenon DEF Abort
<1>2. "Abort" \in ControlOpcode /\ Coordinator \in Member
  BY CoordinatorAssumption, Zenon DEF ControlOpcode
<1>3. node[Coordinator] \in GroupNodeType /\ node[Coordinator].state # "Idle"
  BY <1>2, Zenon DEF HandshakeInv, TypeOK, EpochCountsLog, Joined
<1>4. tid \in Nat
  BY <1>3, Zenon DEF GroupNodeType
<1> HIDE DEF tid
<1>5. /\ r.state = node[Coordinator].state
      /\ r.current_epoch = node[Coordinator].current_epoch
      /\ r.last_transition_id = node[Coordinator].last_transition_id
      /\ r.prepare_deadline = FALSE /\ r.execute_deadline = FALSE
  BY <1>2, <1>3, <1>4, SendControlEffect, ZenonT(30)
<1>6. /\ r \in GroupNodeType
      /\ node' = [node EXCEPT ![Coordinator] = r]
      /\ net \subseteq net' /\ net' \in SUBSET Frame
      /\ \A f \in net' : f \in net \/ (f.op # "Execute" /\ f.from = Coordinator)
  BY <1>1, <1>2, <1>4, SendEffect
<1> HIDE DEF r
<1>7. QED
  BY <1>1, <1>2, <1>3, <1>5, <1>6, QuietStep, Zenon

\* The invariant, read at one member.
LEMMA AtMember ==
    ASSUME HandshakeInv, NEW m \in Member
    PROVE  /\ node[m] \in GroupNodeType
           /\ m # Coordinator => /\ PrepareSeen(node[m], net)
                                 /\ node[m].prepare_deadline = FALSE
           /\ m = Coordinator /\ deciding # 0 => /\ node[m].prepare_deadline = FALSE
                                                 /\ node[m].execute_deadline = FALSE
           /\ \/ node[m].pending_transition_id # 0
              \/ node[m].prepare_deadline = FALSE /\ node[m].execute_deadline = FALSE
<1>1. node[m] \in GroupNodeType
  BY Zenon DEF HandshakeInv, TypeOK
<1>2. node[m].prepare_deadline \in BOOLEAN /\ node[m].execute_deadline \in BOOLEAN
  BY <1>1, Zenon DEF GroupNodeType
<1>3. m # Coordinator => PrepareSeen(node[m], net)
  BY Zenon DEF HandshakeInv, PendingWasPrepared, PrepareSeen
<1>4. QED
  BY <1>1, <1>2, <1>3, Zenon DEF HandshakeInv, DeadlinesFollowRole, DeadlineGuardsPending

\* A step that leaves the pending transition alone and arms no deadline,
\* except the execute deadline of a member with a transition pending.
LEMMA UntouchedStep ==
    ASSUME HandshakeInv,
           NEW m \in Member, NEW r \in GroupNodeType,
           node' = [node EXCEPT ![m] = r],
           UNCHANGED <<deciding, log>>,
           r.state # "Idle",
           r.current_epoch = node[m].current_epoch,
           r.last_transition_id = node[m].last_transition_id,
           r.pending_transition_id = node[m].pending_transition_id,
           r.pending_commit_sender = node[m].pending_commit_sender,
           r.prepare_deadline \in {FALSE, node[m].prepare_deadline},
           \/ r.execute_deadline \in {FALSE, node[m].execute_deadline}
           \/ m # Coordinator /\ r.pending_transition_id # 0,
           net \subseteq net', net' \in SUBSET Frame,
           \A f \in net' : f \in net \/ f.op \notin {"Prepare", "Execute", "Abort"}
    PROVE  HandshakeInv'
<1>1. m # Coordinator => PrepareSeen(r, net') /\ r.prepare_deadline = FALSE
  BY AtMember, Zenon DEF PrepareSeen
<1>2. m = Coordinator /\ deciding # 0
         => r.prepare_deadline = FALSE /\ r.execute_deadline = FALSE
  BY AtMember, Zenon
<1>3. \/ r.pending_transition_id # 0
      \/ r.prepare_deadline = FALSE /\ r.execute_deadline = FALSE
  BY AtMember, Zenon
<1>4. QED
  BY <1>1, <1>2, <1>3, QuietStep, Zenon

LEMMA ReadyPreserves ==
    ASSUME HandshakeInv, NEW m \in Member, Ready(m)
    PROVE  HandshakeInv'
<1> DEFINE tid == node[m].pending_transition_id
           r == SendControl(node[m], "Ready", tid)
<1>1. /\ Send(m, "Ready", tid) /\ UNCHANGED <<deciding, log>>
      /\ m # Coordinator /\ tid # 0 /\ node[m].state # "Idle"
  BY Zenon DEF Ready, Joined
<1>2. "Ready" \in ControlOpcode
  BY Zenon DEF ControlOpcode
<1>3. node[m] \in GroupNodeType /\ tid \in Nat
  BY AtMember, Zenon DEF GroupNodeType
<1>4. /\ r \in GroupNodeType /\ node' = [node EXCEPT ![m] = r]
      /\ net \subseteq net' /\ net' \in SUBSET Frame
      /\ \A f \in net' : f \in net \/ f.op \notin {"Prepare", "Execute", "Abort"}
  BY <1>1, <1>2, <1>3, SendEffect
<1>5. /\ r.state = node[m].state
      /\ r.current_epoch = node[m].current_epoch
      /\ r.last_transition_id = node[m].last_transition_id
      /\ r.pending_transition_id = node[m].pending_transition_id
      /\ r.pending_commit_sender = node[m].pending_commit_sender
      /\ r.prepare_deadline = node[m].prepare_deadline
  <2>1. ASSUME NEW nd \in GroupNodeType, NEW t \in Nat
        PROVE  /\ SendControl(nd, "Ready", t).state = nd.state
               /\ SendControl(nd, "Ready", t).current_epoch = nd.current_epoch
               /\ SendControl(nd, "Ready", t).last_transition_id = nd.last_transition_id
               /\ SendControl(nd, "Ready", t).pending_transition_id = nd.pending_transition_id
               /\ SendControl(nd, "Ready", t).pending_commit_sender = nd.pending_commit_sender
               /\ SendControl(nd, "Ready", t).prepare_deadline = nd.prepare_deadline
    BY <1>2, SendControlEffect, ZenonT(40)
  <2>2. QED
    BY <1>3, <2>1, Zenon
<1> HIDE DEF r
<1>6. QED
  BY <1>1, <1>4, <1>5, UntouchedStep, Zenon

LEMMA DigestResponsePreserves ==
    ASSUME HandshakeInv, NEW m \in Member, DigestResponse(m)
    PROVE  HandshakeInv'
<1> DEFINE tid == node[m].last_transition_id
           r == SendControl(node[m], "DigestResponse", tid)
<1>1. /\ Send(m, "DigestResponse", tid) /\ UNCHANGED <<deciding, log>>
      /\ node[m].state # "Idle"
  BY Zenon DEF DigestResponse, Joined
<1>2. "DigestResponse" \in ControlOpcode
  BY Zenon DEF ControlOpcode
<1>3. node[m] \in GroupNodeType /\ tid \in Nat
  BY AtMember, Zenon DEF GroupNodeType
<1>4. /\ r \in GroupNodeType /\ node' = [node EXCEPT ![m] = r]
      /\ net \subseteq net' /\ net' \in SUBSET Frame
      /\ \A f \in net' : f \in net \/ f.op \notin {"Prepare", "Execute", "Abort"}
  BY <1>1, <1>2, <1>3, SendEffect
<1>5. /\ r.state = node[m].state
      /\ r.current_epoch = node[m].current_epoch
      /\ r.last_transition_id = node[m].last_transition_id
      /\ r.pending_transition_id = node[m].pending_transition_id
      /\ r.pending_commit_sender = node[m].pending_commit_sender
      /\ r.prepare_deadline = node[m].prepare_deadline
      /\ r.execute_deadline = node[m].execute_deadline
  <2>1. ASSUME NEW nd \in GroupNodeType, NEW t \in Nat
        PROVE  /\ SendControl(nd, "DigestResponse", t).state = nd.state
               /\ SendControl(nd, "DigestResponse", t).current_epoch = nd.current_epoch
               /\ SendControl(nd, "DigestResponse", t).last_transition_id = nd.last_transition_id
               /\ SendControl(nd, "DigestResponse", t).pending_transition_id = nd.pending_transition_id
               /\ SendControl(nd, "DigestResponse", t).pending_commit_sender = nd.pending_commit_sender
               /\ SendControl(nd, "DigestResponse", t).prepare_deadline = nd.prepare_deadline
               /\ SendControl(nd, "DigestResponse", t).execute_deadline = nd.execute_deadline
    BY <1>2, SendControlEffect, ZenonT(40)
  <2>2. QED
    BY <1>3, <2>1, Zenon
<1> HIDE DEF r
<1>6. QED
  BY <1>1, <1>4, <1>5, UntouchedStep, Zenon

LEMMA RestartPreserves ==
    ASSUME HandshakeInv, NEW m \in Member, Restart(m)
    PROVE  HandshakeInv'
<1> DEFINE r == Rebuild(node[m], node[m].current_epoch)
<1>1. node[m] \in GroupNodeType /\ node[m].current_epoch \in Nat
  BY AtMember, Zenon DEF GroupNodeType
<1>2. /\ node' = [node EXCEPT ![m] = r] /\ UNCHANGED <<net, deciding, log>>
      /\ m # Coordinator
  BY EnvironmentAssumption, Zenon DEF Restart
<1>3. /\ r \in GroupNodeType /\ r.state = "Active"
      /\ r.current_epoch = node[m].current_epoch /\ r.last_transition_id = 0
      /\ r.pending_transition_id = 0
      /\ r.prepare_deadline = FALSE /\ r.execute_deadline = FALSE
  <2>1. ASSUME NEW nd \in GroupNodeType, NEW e \in Nat
        PROVE  /\ Rebuild(nd, e) \in GroupNodeType /\ Rebuild(nd, e).state = "Active"
               /\ Rebuild(nd, e).current_epoch = e /\ Rebuild(nd, e).last_transition_id = 0
               /\ Rebuild(nd, e).pending_transition_id = 0
               /\ Rebuild(nd, e).prepare_deadline = FALSE
               /\ Rebuild(nd, e).execute_deadline = FALSE
    BY RebuildEffect, ZenonT(40)
  <2>2. QED
    BY <1>1, <2>1, Zenon
<1> HIDE DEF r
<1>4. net' \in SUBSET Frame /\ PrepareSeen(r, net')
  BY <1>2, <1>3, Zenon DEF HandshakeInv, TypeOK, PrepareSeen
<1>5. QED
  BY <1>2, <1>3, <1>4, QuietStep, Zenon

LEMMA RejectEpochPreserves ==
    ASSUME HandshakeInv, NEW m \in Member, NEW f \in net, RejectEpoch(m, f)
    PROVE  HandshakeInv'
<1> DEFINE r == TriggerResync(node[m])
<1>1. node[m] \in GroupNodeType
  BY AtMember, Zenon
<1>2. /\ r \in GroupNodeType /\ r.state \in {"Resyncing", "Failed"}
      /\ r.current_epoch = node[m].current_epoch
      /\ r.last_transition_id = node[m].last_transition_id
      /\ r.pending_transition_id = node[m].pending_transition_id
      /\ r.pending_commit_sender = node[m].pending_commit_sender
      /\ r.prepare_deadline = node[m].prepare_deadline
      /\ r.execute_deadline = node[m].execute_deadline
  <2>1. "Resyncing" \in NodeState
    BY Zenon DEF NodeState
  <2>2. QED
    BY <1>1, <2>1, TransitionEffect, Zenon DEF TriggerResync
<1>3. node' = [node EXCEPT ![m] = r] /\ UNCHANGED <<net, deciding, log>>
  BY Zenon DEF RejectEpoch
<1>4. net' \in SUBSET Frame
  BY <1>3, Zenon DEF HandshakeInv, TypeOK
<1> HIDE DEF r
<1>5. QED
  BY <1>2, <1>3, <1>4, UntouchedStep, Zenon

LEMMA RejectForeignPreserves ==
    ASSUME HandshakeInv, NEW m \in Member, RejectForeign(m)
    PROVE  HandshakeInv'
<1> DEFINE r == FatalError(node[m])
<1>1. node[m] \in GroupNodeType
  BY AtMember, Zenon
<1>2. /\ r \in GroupNodeType /\ r.state = "Failed"
      /\ r.current_epoch = node[m].current_epoch
      /\ r.last_transition_id = node[m].last_transition_id
      /\ r.pending_transition_id = node[m].pending_transition_id
      /\ r.pending_commit_sender = node[m].pending_commit_sender
      /\ r.prepare_deadline = node[m].prepare_deadline
      /\ r.execute_deadline = node[m].execute_deadline
  <2>1. "Failed" \in NodeState
    BY Zenon DEF NodeState
  <2>2. QED
    BY <1>1, <2>1, Zenon DEF FatalError, GroupNodeType
<1>3. node' = [node EXCEPT ![m] = r] /\ UNCHANGED <<net, deciding, log>>
  BY Zenon DEF RejectForeign
<1>4. net' \in SUBSET Frame
  BY <1>3, Zenon DEF HandshakeInv, TypeOK
<1> HIDE DEF r
<1>5. QED
  BY <1>2, <1>3, <1>4, UntouchedStep, Zenon

\* Recording an accepted frame in the replay window.
LEMMA RecordAccepted ==
    ASSUME HandshakeInv, NEW m \in Member, NEW f \in net
    PROVE  LET r == Record(node[m], "Control", f.from, f.seq)
           IN  /\ f \in Frame
               /\ r \in GroupNodeType /\ r.state = node[m].state
               /\ r.current_epoch = node[m].current_epoch
               /\ r.last_transition_id = node[m].last_transition_id
               /\ r.pending_transition_id = node[m].pending_transition_id
               /\ r.pending_commit_sender = node[m].pending_commit_sender
               /\ r.prepare_deadline = node[m].prepare_deadline
               /\ r.execute_deadline = node[m].execute_deadline
<1>1. f \in Frame
  BY Zenon DEF HandshakeInv, TypeOK
<1>2. f.from \in Member /\ f.seq \in Nat
  BY <1>1, Zenon DEF Frame
<1>3. ASSUME NEW nd \in GroupNodeType, NEW from \in Member, NEW seq \in Nat
      PROVE  LET r == Record(nd, "Control", from, seq)
             IN  /\ r \in GroupNodeType /\ r.state = nd.state
                 /\ r.current_epoch = nd.current_epoch
                 /\ r.last_transition_id = nd.last_transition_id
                 /\ r.pending_transition_id = nd.pending_transition_id
                 /\ r.pending_commit_sender = nd.pending_commit_sender
                 /\ r.prepare_deadline = nd.prepare_deadline
                 /\ r.execute_deadline = nd.execute_deadline
  BY RecordEffect, StreamTypeAssumption
<1>4. node[m] \in GroupNodeType
  BY AtMember, Zenon
<1>5. QED
  BY <1>1, <1>2, <1>3, <1>4

LEMMA DecryptFailedPreserves ==
    ASSUME HandshakeInv, NEW m \in Member, NEW f \in net, DecryptFailed(m, f)
    PROVE  HandshakeInv'
<1> DEFINE r == Record(node[m], "Control", f.from, f.seq)
<1>1. /\ r \in GroupNodeType /\ r.state = node[m].state
      /\ r.current_epoch = node[m].current_epoch
      /\ r.last_transition_id = node[m].last_transition_id
      /\ r.pending_transition_id = node[m].pending_transition_id
      /\ r.pending_commit_sender = node[m].pending_commit_sender
      /\ r.prepare_deadline = node[m].prepare_deadline
      /\ r.execute_deadline = node[m].execute_deadline
  BY RecordAccepted, Zenon
<1>2. /\ node' = [node EXCEPT ![m] = r] /\ UNCHANGED <<net, deciding, log>>
      /\ node[m].state # "Idle"
  BY Zenon DEF DecryptFailed, Accepts, Joined
<1>3. net' \in SUBSET Frame
  BY <1>2, Zenon DEF HandshakeInv, TypeOK
<1> HIDE DEF r
<1>4. QED
  BY <1>1, <1>2, <1>3, UntouchedStep, Zenon

LEMMA TimeoutsPreserves ==
    ASSUME HandshakeInv, NEW m \in Member, NEW prep \in BOOLEAN, NEW exec \in BOOLEAN,
           Timeouts(m, prep, exec)
    PROVE  HandshakeInv'
<1> DEFINE r == CheckTimeouts(node[m], prep, exec, FALSE)
<1>1. node[m] \in GroupNodeType /\ FALSE \in BOOLEAN
  BY AtMember, Zenon
<1>2. TimeoutEffect(node[m], r)
  BY <1>1, CheckTimeoutsEffect, Zenon
<1>3. /\ node' = [node EXCEPT ![m] = r] /\ UNCHANGED <<net, deciding, log>>
      /\ node[m].state # "Idle"
  BY Zenon DEF Timeouts, Joined
<1>4. net' \in SUBSET Frame
  BY <1>3, Zenon DEF HandshakeInv, TypeOK
<1> HIDE DEF r
<1>5. m # Coordinator => PrepareSeen(r, net') /\ r.prepare_deadline = FALSE
  BY <1>2, <1>3, AtMember, Zenon DEF PrepareSeen, TimeoutEffect
<1>6. /\ m = Coordinator /\ deciding # 0
           => r.prepare_deadline = FALSE /\ r.execute_deadline = FALSE
      /\ \/ r.pending_transition_id # 0
         \/ r.prepare_deadline = FALSE /\ r.execute_deadline = FALSE
  BY <1>2, AtMember, Zenon DEF TimeoutEffect
<1>7. QED
  BY <1>2, <1>3, <1>4, <1>5, <1>6, QuietStep, Zenon DEF TimeoutEffect

\* A control frame other than a valid EXECUTE.  The coordinator receives no
\* PREPARE, since only it sends one.
LEMMA DeliverControlPreserves ==
    ASSUME HandshakeInv, NEW m \in Member, NEW f \in net, DeliverControl(m, f)
    PROVE  HandshakeInv'
<1> DEFINE got == Record(node[m], "Control", f.from, f.seq)
           r == HandleControl(got, m, f.from, f.op, f.tid)
<1>1. /\ f \in Frame /\ got \in GroupNodeType /\ got.state = node[m].state
      /\ got.current_epoch = node[m].current_epoch
      /\ got.last_transition_id = node[m].last_transition_id
      /\ got.pending_transition_id = node[m].pending_transition_id
      /\ got.pending_commit_sender = node[m].pending_commit_sender
      /\ got.prepare_deadline = node[m].prepare_deadline
      /\ got.execute_deadline = node[m].execute_deadline
  BY RecordAccepted, Zenon
<1>2. f.from \in Member /\ f.op \in ControlOpcode /\ f.tid \in Nat
  BY <1>1, Zenon DEF Frame
<1>3. /\ node' = [node EXCEPT ![m] = r] /\ UNCHANGED <<net, deciding, log>>
      /\ node[m].state # "Idle" /\ f.from # m /\ f.epoch = node[m].current_epoch
      /\ ~ (f.op = "Execute" /\ TidOk(node[m], f.op, f.tid))
  BY Zenon DEF DeliverControl, Accepts, Joined
<1> HIDE DEF got
<1>4. ~ (f.op = "Execute" /\ TidOk(got, f.op, f.tid))
  BY <1>1, <1>3, Zenon DEF TidOk
<1>5. ControlEffect(got, r, f.from, f.op, f.tid)
  BY <1>1, <1>2, <1>4, HandleControlEffect, Zenon
<1> HIDE DEF r
<1>6. f.op = "Prepare" => m # Coordinator
  BY <1>3, Zenon DEF HandshakeInv, CoordinatorOriginates
<1>7. net' \in SUBSET Frame
  BY <1>3, Zenon DEF HandshakeInv, TypeOK
<1>8. m # Coordinator => PrepareSeen(r, net') /\ r.prepare_deadline = FALSE
  BY <1>1, <1>3, <1>5, AtMember, Zenon DEF PrepareSeen, ControlEffect
<1>9. /\ m = Coordinator /\ deciding # 0
           => r.prepare_deadline = FALSE /\ r.execute_deadline = FALSE
      /\ \/ r.pending_transition_id # 0
         \/ r.prepare_deadline = FALSE /\ r.execute_deadline = FALSE
  BY <1>1, <1>5, <1>6, AtMember, Zenon DEF ControlEffect
<1>10. r.state # "Idle" /\ r.current_epoch = node[m].current_epoch
       /\ r.last_transition_id = node[m].last_transition_id
  BY <1>1, <1>3, <1>5, Zenon DEF ControlEffect
<1>11. QED
  BY <1>3, <1>5, <1>7, <1>8, <1>9, <1>10, QuietStep, Zenon DEF ControlEffect

\* A step that takes one member to the end of a prefix of the decided
\* transitions, and changes neither the decisions nor the network.
LEMMA AdvanceStep ==
    ASSUME HandshakeInv,
           NEW m \in Member, NEW r \in GroupNodeType, NEW s \in Seq(Nat),
           node' = [node EXCEPT ![m] = r],
           log' = [log EXCEPT ![m] = s],
           net' = net, Decided' = Decided, deciding' \in Nat,
           deciding' = 0 \/ (m # Coordinator /\ deciding' = deciding),
           r.state # "Idle",
           r.current_epoch = Len(s),
           r.last_transition_id \in {0, LastTid(s)},
           m = Coordinator => r.last_transition_id = LastTid(s),
           r.pending_transition_id = 0 \/ r.pending_commit_sender = {},
           r.prepare_deadline = FALSE, r.execute_deadline = FALSE,
           Len(s) <= Len(Decided),
           \A i \in 1 .. Len(s) : s[i] = Decided[i]
    PROVE  HandshakeInv'
<1> USE DEF HandshakeInv
<1>0. /\ node \in [Member -> GroupNodeType] /\ log \in [Member -> Seq(Nat)]
      /\ node'[m] = r /\ log'[m] = s
      /\ \A k \in Member : k # m => node'[k] = node[k] /\ log'[k] = log[k]
      /\ node' \in [Member -> GroupNodeType] /\ log' \in [Member -> Seq(Nat)]
  BY Zenon DEF TypeOK
<1>1. TypeOK'
  BY <1>0, Zenon DEF TypeOK
<1>2. EpochCountsLog'
  BY <1>0, CoordinatorAssumption, Zenon DEF EpochCountsLog, Joined
<1>3. LogIsDecidedPrefix'
  <2>1. ASSUME NEW k \in Member
        PROVE  /\ Len(log'[k]) <= Len(Decided)
               /\ \A i \in 1 .. Len(log'[k]) : log'[k][i] = Decided[i]
    <3>1. CASE k = m
      BY <1>0, <3>1, Zenon
    <3>2. CASE k # m
      BY <1>0, <3>2, Zenon DEF LogIsDecidedPrefix
    <3>3. QED
      BY <3>1, <3>2, Zenon
  <2>2. QED
    BY <2>1 DEF LogIsDecidedPrefix
<1>4. ExecuteCarriesDecision'
  BY Zenon DEF ExecuteCarriesDecision
<1>5. CoordinatorOriginates'
  BY Zenon DEF CoordinatorOriginates
<1>6. DeadlinesFollowRole'
  BY <1>0, CoordinatorAssumption, Zenon DEF DeadlinesFollowRole
<1>7. PendingWasPrepared'
  BY <1>0, ZenonT(40) DEF PendingWasPrepared
<1>8. DeadlineGuardsPending'
  BY <1>0, Zenon DEF DeadlineGuardsPending
<1>9. QED
  BY <1>1, <1>2, <1>3, <1>4, <1>5, <1>6, <1>7, <1>8, Zenon

\* The decided transitions are a sequence that the coordinator has gone
\* through up to the one whose EXECUTE is out.
LEMMA DecidedFacts ==
    ASSUME HandshakeInv
    PROVE  /\ Decided \in Seq(Nat)
           /\ log[Coordinator] \in Seq(Nat)
           /\ deciding = 0 => Decided = log[Coordinator]
           /\ deciding # 0 => /\ Len(Decided) = Len(log[Coordinator]) + 1
                              /\ Decided[Len(log[Coordinator]) + 1] = deciding
           /\ Len(log[Coordinator]) <= Len(Decided)
           /\ \A i \in 1 .. Len(log[Coordinator]) : Decided[i] = log[Coordinator][i]
<1>1. log[Coordinator] \in Seq(Nat) /\ deciding \in Nat
  BY CoordinatorAssumption, Zenon DEF HandshakeInv, TypeOK
<1>2. CASE deciding = 0
  BY <1>1, <1>2 DEF Decided
<1>3. CASE deciding # 0
  <2>1. Decided = Append(log[Coordinator], deciding)
    BY <1>3, Zenon DEF Decided
  <2>2. QED
    BY <1>1, <1>3, <2>1
<1>4. QED
  BY <1>2, <1>3, Zenon

\* The log after one more transition.
LEMMA AppendTid ==
    ASSUME NEW s \in Seq(Nat), NEW tid \in Nat
    PROVE  /\ Append(s, tid) \in Seq(Nat)
           /\ Len(Append(s, tid)) = Len(s) + 1
           /\ \A i \in 1 .. Len(s) : Append(s, tid)[i] = s[i]
           /\ Append(s, tid)[Len(s) + 1] = tid
           /\ LastTid(Append(s, tid)) = tid
<1>1. /\ Append(s, tid) \in Seq(Nat) /\ Len(Append(s, tid)) = Len(s) + 1
      /\ \A i \in 1 .. Len(s) : Append(s, tid)[i] = s[i]
      /\ Append(s, tid)[Len(s) + 1] = tid
  OBVIOUS
<1>2. Append(s, tid) # << >>
  <2>1. Len(Append(s, tid)) # 0
    BY <1>1
  <2>2. QED
    BY <2>1
<1>3. QED
  BY <1>1, <1>2, Zenon DEF LastTid

LEMMA ApplyDecidedPreserves ==
    ASSUME HandshakeInv, ApplyDecided
    PROVE  HandshakeInv'
<1> DEFINE r == ApplyTransition(node[Coordinator], deciding)
           s == Append(log[Coordinator], deciding)
<1>1. /\ Coordinator \in Member /\ deciding \in Nat /\ deciding # 0
      /\ node[Coordinator] \in GroupNodeType /\ node[Coordinator].state # "Idle"
      /\ log \in [Member -> Seq(Nat)] /\ log[Coordinator] \in Seq(Nat)
      /\ node[Coordinator].current_epoch = Len(log[Coordinator])
  BY CoordinatorAssumption, Zenon DEF HandshakeInv, TypeOK, EpochCountsLog, Joined, ApplyDecided
<1>2. /\ node' = [node EXCEPT ![Coordinator] = r]
      /\ log' = [log EXCEPT ![Coordinator] = s]
      /\ net' = net /\ deciding' = 0 /\ Decided = s
  BY <1>1, Zenon DEF ApplyDecided, Decided
<1>3. Decided' = s
  BY <1>1, <1>2, Zenon DEF Decided
<1>4. /\ s \in Seq(Nat) /\ Len(s) = Len(log[Coordinator]) + 1
      /\ LastTid(s) = deciding
  BY <1>1, AppendTid, Zenon
<1>5. node[Coordinator].prepare_deadline = FALSE /\ node[Coordinator].execute_deadline = FALSE
  BY <1>1, AtMember, Zenon
<1>6. /\ r \in GroupNodeType /\ r.state # "Idle" /\ r.current_epoch = Len(s)
      /\ r.last_transition_id = LastTid(s) /\ r.pending_transition_id = 0
      /\ r.prepare_deadline = FALSE /\ r.execute_deadline = FALSE
  <2>1. Advances(node[Coordinator], r, deciding)
    BY <1>1, ApplyTransitionAdvances, Zenon
  <2> HIDE DEF r, s
  <2>2. QED
    BY <1>1, <1>4, <1>5, <2>1, Zenon DEF Advances
<1> HIDE DEF r, s
<1>7. Len(s) <= Len(Decided) /\ \A i \in 1 .. Len(s) : s[i] = Decided[i]
  BY <1>2, <1>4
<1>8. Decided' = Decided /\ deciding' \in Nat
  BY <1>2, <1>3, Zenon
<1>9. QED
  BY <1>1, <1>2, <1>4, <1>6, <1>7, <1>8, AdvanceStep, Zenon

\* A valid EXECUTE comes from the coordinator and carries the transition that
\* was decided for the receiver's epoch.
LEMMA DeliverExecuteFacts ==
    ASSUME HandshakeInv, NEW m \in Member, NEW f \in net, DeliverExecute(m, f)
    PROVE  /\ m # Coordinator /\ f.tid \in Nat
           /\ node[m].state # "Idle"
           /\ log \in [Member -> Seq(Nat)] /\ log[m] \in Seq(Nat)
           /\ node[m].current_epoch = Len(log[m])
           /\ Len(log[m]) < Len(Decided)
           /\ f.tid = Decided[Len(log[m]) + 1]
           /\ log' = [log EXCEPT ![m] = Append(log[m], f.tid)]
           /\ Decided' = Decided /\ UNCHANGED <<net, deciding>>
<1>1. /\ f.op = "Execute" /\ f.from # m /\ f.epoch = node[m].current_epoch
      /\ log' = [log EXCEPT ![m] = Append(log[m], f.tid)]
      /\ UNCHANGED <<net, deciding>> /\ node[m].state # "Idle"
  BY Zenon DEF DeliverExecute, Accepts, Joined
<1>2. f.from = Coordinator
  BY <1>1, Zenon DEF HandshakeInv, CoordinatorOriginates
<1>3. log \in [Member -> Seq(Nat)] /\ node[m].current_epoch = Len(log[m]) /\ f \in Frame
  BY Zenon DEF HandshakeInv, TypeOK, EpochCountsLog
<1>4. f.epoch < Len(Decided) /\ f.tid = Decided[f.epoch + 1]
  BY <1>1, Zenon DEF HandshakeInv, ExecuteCarriesDecision
<1>5. Decided' = Decided
  BY <1>1, <1>2, <1>3, CoordinatorAssumption, Zenon DEF Decided
<1>6. f.tid \in Nat
  BY <1>3, Zenon DEF Frame
<1>7. QED
  BY <1>1, <1>2, <1>3, <1>4, <1>5, <1>6, Zenon

LEMMA DeliverExecutePreserves ==
    ASSUME HandshakeInv, NEW m \in Member, NEW f \in net, DeliverExecute(m, f)
    PROVE  HandshakeInv'
<1> DEFINE got == Record(node[m], "Control", f.from, f.seq)
           r == OnExecute(got, f.tid)
           s == Append(log[m], f.tid)
<1>1. /\ m # Coordinator /\ f.tid \in Nat /\ node[m].state # "Idle"
      /\ log[m] \in Seq(Nat) /\ node[m].current_epoch = Len(log[m])
      /\ Len(log[m]) < Len(Decided) /\ f.tid = Decided[Len(log[m]) + 1]
      /\ log' = [log EXCEPT ![m] = s]
      /\ Decided' = Decided /\ net' = net /\ deciding' = deciding
  BY DeliverExecuteFacts, Zenon
<1>2. /\ got \in GroupNodeType /\ got.state = node[m].state
      /\ got.current_epoch = node[m].current_epoch
      /\ got.last_transition_id = node[m].last_transition_id
      /\ got.pending_transition_id = node[m].pending_transition_id
      /\ got.prepare_deadline = node[m].prepare_deadline
  BY RecordAccepted, Zenon
<1>3. node' = [node EXCEPT ![m] = HandleControl(got, m, f.from, f.op, f.tid)]
      /\ f.op = "Execute" /\ TidOk(node[m], f.op, f.tid)
  BY Zenon DEF DeliverExecute
<1> HIDE DEF got
<1>4. TidOk(got, f.op, f.tid)
  BY <1>2, <1>3, Zenon DEF TidOk
<1>5. HandleControl(got, m, f.from, f.op, f.tid) = r
  BY <1>3, <1>4, Zenon DEF HandleControl
<1>6. /\ r \in GroupNodeType /\ r.state = got.state
      /\ r.current_epoch = got.current_epoch + 1
      /\ r.last_transition_id = f.tid /\ r.pending_transition_id = 0
      /\ r.prepare_deadline = got.prepare_deadline /\ r.execute_deadline = FALSE
  BY <1>1, <1>2, OnExecuteEffect, Zenon
<1>7. /\ s \in Seq(Nat) /\ Len(s) = Len(log[m]) + 1 /\ LastTid(s) = f.tid
      /\ \A i \in 1 .. Len(log[m]) : s[i] = log[m][i]
      /\ s[Len(log[m]) + 1] = f.tid
  BY <1>1, AppendTid, Zenon
<1>8. node[m].prepare_deadline = FALSE
  BY <1>1, AtMember, Zenon
<1> HIDE DEF r, s
<1>9. Len(s) <= Len(Decided) /\ \A i \in 1 .. Len(s) : s[i] = Decided[i]
  <2>1. \A i \in 1 .. Len(log[m]) : log[m][i] = Decided[i]
    BY Zenon DEF HandshakeInv, LogIsDecidedPrefix
  <2>2. Decided \in Seq(Nat)
    BY DecidedFacts, Zenon
  <2>3. Len(s) \in Nat /\ Len(log[m]) \in Nat /\ Len(Decided) \in Nat
    BY <1>1, <1>7, <2>2
  <2>4. ASSUME NEW i \in 1 .. Len(s) PROVE s[i] = Decided[i]
    <3>1. CASE i = Len(log[m]) + 1
      BY <1>1, <1>7, <3>1, Zenon
    <3>2. CASE i # Len(log[m]) + 1
      <4>1. i \in 1 .. Len(log[m])
        BY <1>7, <2>3, <3>2
      <4>2. QED
        BY <1>7, <2>1, <4>1, Zenon
    <3>3. QED
      BY <3>1, <3>2, Zenon
  <2>5. Len(s) <= Len(Decided)
    BY <1>1, <1>7, <2>3
  <2>6. QED
    BY <2>4, <2>5, Zenon
<1>10. deciding' \in Nat
  BY <1>1, Zenon DEF HandshakeInv, TypeOK
<1>11. r.state # "Idle" /\ r.current_epoch = Len(s) /\ r.prepare_deadline = FALSE
  BY <1>1, <1>2, <1>6, <1>7, <1>8, Zenon
<1>12. QED
  BY <1>1, <1>3, <1>5, <1>6, <1>7, <1>9, <1>10, <1>11, AdvanceStep, ZenonT(30)

\* A joiner starts from a prefix of what the coordinator has gone through.
LEMMA JoinerPrefix ==
    ASSUME HandshakeInv, NEW e \in 0 .. Len(log[Coordinator])
    PROVE  LET s == SubSeq(log[Coordinator], 1, e)
           IN  /\ s \in Seq(Nat) /\ Len(s) = e
               /\ e <= Len(Decided)
               /\ \A i \in 1 .. e : s[i] = log[Coordinator][i]
               /\ \A i \in 1 .. e : s[i] = Decided[i]
               /\ e # 0 => LastTid(s) = log[Coordinator][e]
<1> DEFINE s == SubSeq(log[Coordinator], 1, e)
<1>1. /\ log[Coordinator] \in Seq(Nat) /\ Decided \in Seq(Nat)
      /\ Len(log[Coordinator]) \in Nat /\ Len(Decided) \in Nat
      /\ Len(log[Coordinator]) <= Len(Decided)
      /\ \A i \in 1 .. Len(log[Coordinator]) : Decided[i] = log[Coordinator][i]
  BY DecidedFacts
<1>2. s \in Seq(Nat) /\ Len(s) = e /\ \A i \in 1 .. e : s[i] = log[Coordinator][i]
  <2>1. ASSUME NEW t \in Seq(Nat), NEW n \in 0 .. Len(t)
        PROVE  /\ SubSeq(t, 1, n) \in Seq(Nat) /\ Len(SubSeq(t, 1, n)) = n
               /\ \A i \in 1 .. n : SubSeq(t, 1, n)[i] = t[i]
    OBVIOUS
  <2>2. QED
    BY <1>1, <2>1, Zenon
<1>3. \A i \in 1 .. e : s[i] = Decided[i]
  BY <1>1, <1>2
<1>4. e # 0 => LastTid(s) = log[Coordinator][e]
  <2>1. e # 0 => s # << >>
    BY <1>2, Zenon
  <2>2. QED
    BY <1>1, <1>2, <2>1 DEF LastTid
<1>5. QED
  BY <1>1, <1>2, <1>3, <1>4

\* The coordinator is never a joiner, so a join changes no decision.
LEMMA JoinFacts ==
    ASSUME HandshakeInv, NEW m \in Member, ~ Joined(m), NEW s,
           log' = [log EXCEPT ![m] = s], deciding' = deciding
    PROVE  m # Coordinator /\ Decided' = Decided /\ deciding' \in Nat
<1>1. m # Coordinator /\ deciding' \in Nat /\ log \in [Member -> Seq(Nat)]
  BY Zenon DEF HandshakeInv, TypeOK, EpochCountsLog
<1>2. QED
  BY <1>1, CoordinatorAssumption, Zenon DEF Decided

LEMMA JoinArmedPreserves ==
    ASSUME HandshakeInv, NEW m \in Member, NEW e \in 0 .. Len(log[Coordinator]),
           NEW tid \in Nat, JoinArmed(m, e, tid)
    PROVE  HandshakeInv'
<1> DEFINE r == BootstrapAsJoiner(New, e, tid)
           s == SubSeq(log[Coordinator], 1, e)
<1>1. /\ node' = [node EXCEPT ![m] = r] /\ log' = [log EXCEPT ![m] = s]
      /\ net' = net /\ deciding' = deciding /\ ~ Joined(m)
  BY Zenon DEF JoinArmed
<1>2. JoinedAt(r, e)
  <2>1. e \in Nat
    BY DecidedFacts
  <2>2. QED
    BY <2>1, BootstrapAsJoinerEffect, Zenon
<1>3. /\ s \in Seq(Nat) /\ Len(s) = e /\ e <= Len(Decided)
      /\ \A i \in 1 .. e : s[i] = Decided[i]
  BY JoinerPrefix, Zenon
<1> HIDE DEF r, s
<1>4. m # Coordinator /\ Decided' = Decided /\ deciding' \in Nat
  BY <1>1, JoinFacts, Zenon
<1>5. QED
  BY <1>1, <1>2, <1>3, <1>4, AdvanceStep, Zenon DEF JoinedAt

LEMMA JoinAppliedPreserves ==
    ASSUME HandshakeInv, NEW m \in Member, NEW e \in 1 .. Len(log[Coordinator]),
           JoinApplied(m, e)
    PROVE  HandshakeInv'
<1> DEFINE bare == BootstrapAsJoiner(New, e - 1, 0)
           r == ApplyTransition(bare, log[Coordinator][e])
           s == SubSeq(log[Coordinator], 1, e)
<1>1. /\ node' = [node EXCEPT ![m] = r] /\ log' = [log EXCEPT ![m] = s]
      /\ net' = net /\ deciding' = deciding /\ ~ Joined(m)
  BY Zenon DEF JoinApplied
<1>2. /\ e - 1 \in Nat /\ e # 0 /\ (e - 1) + 1 = e /\ log[Coordinator][e] \in Nat
      /\ e \in 0 .. Len(log[Coordinator])
  <2>1. log[Coordinator] \in Seq(Nat) /\ Len(log[Coordinator]) \in Nat
    BY DecidedFacts
  <2>2. ASSUME NEW t \in Seq(Nat), NEW n \in 1 .. Len(t)
        PROVE  /\ n - 1 \in Nat /\ n # 0 /\ (n - 1) + 1 = n /\ t[n] \in Nat
               /\ n \in 0 .. Len(t)
    OBVIOUS
  <2>3. QED
    BY <2>1, <2>2, Zenon
<1>3. JoinedAt(bare, e - 1)
  BY <1>2, BootstrapAsJoinerEffect, Zenon
<1> HIDE DEF bare
<1>4. /\ r \in GroupNodeType /\ r.state = "Active" /\ r.current_epoch = e
      /\ r.last_transition_id = log[Coordinator][e] /\ r.pending_commit_sender = {}
      /\ r.prepare_deadline = FALSE /\ r.execute_deadline = FALSE
  <2>1. bare \in GroupNodeType /\ log[Coordinator][e] \in Nat
    BY <1>2, <1>3, Zenon DEF JoinedAt
  <2>2. Advances(bare, r, log[Coordinator][e])
    BY <2>1, ApplyTransitionAdvances, Zenon
  <2> HIDE DEF r
  <2>3. QED
    BY <1>2, <1>3, <2>2, Zenon DEF JoinedAt, Advances
<1>5. /\ s \in Seq(Nat) /\ Len(s) = e /\ e <= Len(Decided)
      /\ \A i \in 1 .. e : s[i] = Decided[i]
      /\ LastTid(s) = log[Coordinator][e]
  BY <1>2, JoinerPrefix, Zenon
<1> HIDE DEF r, s
<1>6. m # Coordinator /\ Decided' = Decided /\ deciding' \in Nat
  BY <1>1, JoinFacts, Zenon
<1>7. QED
  BY <1>1, <1>4, <1>5, <1>6, AdvanceStep, Zenon

\* EXECUTE decides the next transition.
LEMMA ExecutePreserves ==
    ASSUME HandshakeInv, NEW tid \in Nat \ {0}, Execute(tid)
    PROVE  HandshakeInv'
<1> DEFINE C == Coordinator
           r == SendControl(node[C], "Execute", tid)
<1>1. /\ C \in Member /\ "Execute" \in ControlOpcode /\ tid \in Nat
      /\ node \in [Member -> GroupNodeType] /\ node[C] \in GroupNodeType
      /\ node[C].state # "Idle" /\ node[C].current_epoch = Len(log[C])
      /\ node[C].last_transition_id = LastTid(log[C])
      /\ log \in [Member -> Seq(Nat)] /\ net \in SUBSET Frame
  BY CoordinatorAssumption, Zenon
  DEF HandshakeInv, TypeOK, EpochCountsLog, Joined, ControlOpcode
<1>2. /\ deciding = 0 /\ tid > node[C].last_transition_id
      /\ Send(C, "Execute", tid) /\ log' = log
      /\ deciding' = IF CanSend(node[C]) THEN tid ELSE 0
  BY Zenon DEF Execute
<1>3. /\ r \in GroupNodeType /\ node' = [node EXCEPT ![C] = r]
      /\ net \subseteq net' /\ net' \in SUBSET Frame
      /\ \A f \in net' : \/ f \in net
                          \/ /\ f.op = "Execute" /\ f.from = C /\ f.tid = tid
                             /\ f.epoch = node[C].current_epoch
  BY <1>1, <1>2, SendEffect
<1>4. ExecuteSent(node[C], r)
  BY <1>1, ExecuteSendEffect, Zenon
<1> HIDE DEF r
<1>5. CASE ~ CanSend(node[C])
  <2>1. net' = net /\ UNCHANGED <<deciding, log>>
    BY <1>2, <1>5, Zenon DEF Send
  <2>2. QED
    BY <1>1, <1>2, <1>3, <1>4, <2>1, QuietStep, Zenon DEF ExecuteSent
<1>6. CASE CanSend(node[C])
  <2> USE DEF HandshakeInv
  <2>1. /\ deciding' = tid /\ Decided = log[C] /\ Decided' = Append(log[C], tid)
        /\ log[C] \in Seq(Nat) /\ log' = log
    BY <1>1, <1>2, <1>6, Zenon DEF Decided
  <2>2. /\ Decided' \in Seq(Nat) /\ Len(Decided') = Len(Decided) + 1
        /\ \A i \in 1 .. Len(Decided) : Decided'[i] = Decided[i]
        /\ Decided'[Len(Decided) + 1] = tid /\ Len(Decided) \in Nat
    BY <1>1, <2>1, AppendTid
  <2>3. /\ node'[C] = r /\ \A k \in Member : k # C => node'[k] = node[k]
        /\ node' \in [Member -> GroupNodeType]
    BY <1>1, <1>3, Zenon
  <2>4. TypeOK'
    BY <1>1, <1>3, <2>1, <2>3, Zenon DEF TypeOK
  <2>5. EpochCountsLog'
    BY <1>1, <1>4, <2>1, <2>3, Zenon DEF EpochCountsLog, Joined, ExecuteSent
  <2>6. LogIsDecidedPrefix'
    <3>1. ASSUME NEW k \in Member
          PROVE  /\ Len(log[k]) <= Len(Decided')
                 /\ \A i \in 1 .. Len(log[k]) : log[k][i] = Decided'[i]
      <4>1. /\ Len(log[k]) <= Len(Decided) /\ Len(log[k]) \in Nat
            /\ \A i \in 1 .. Len(log[k]) : log[k][i] = Decided[i]
        BY <1>1 DEF LogIsDecidedPrefix
      <4>2. \A i \in 1 .. Len(log[k]) : i \in 1 .. Len(Decided)
        BY <2>2, <4>1
      <4>3. Len(log[k]) <= Len(Decided')
        BY <2>2, <4>1
      <4>4. QED
        BY <2>2, <4>1, <4>2, <4>3, Zenon
    <3>2. QED
      BY <2>1, <3>1, Zenon DEF LogIsDecidedPrefix
  <2>7. ExecuteCarriesDecision'
    <3>1. ASSUME NEW f \in net', f.op = "Execute"
          PROVE  f.epoch < Len(Decided') /\ f.tid = Decided'[f.epoch + 1]
      <4>1. CASE f \in net
        <5>1. f.epoch < Len(Decided) /\ f.tid = Decided[f.epoch + 1]
          BY <3>1, <4>1, Zenon DEF ExecuteCarriesDecision
        <5>2. f.epoch \in Nat
          BY <1>1, <4>1, Zenon DEF Frame
        <5>3. f.epoch + 1 \in 1 .. Len(Decided)
          BY <2>2, <5>1, <5>2
        <5>4. QED
          BY <2>2, <5>1, <5>2, <5>3
      <4>2. CASE f \notin net
        <5>1. f.epoch = Len(Decided) /\ f.tid = tid
          BY <1>1, <1>3, <2>1, <4>2, Zenon
        <5>2. QED
          BY <2>2, <5>1
      <4>3. QED
        BY <4>1, <4>2, Zenon
    <3>2. QED
      BY <3>1, Zenon DEF ExecuteCarriesDecision
  <2>8. CoordinatorOriginates'
    BY <1>3, Zenon DEF CoordinatorOriginates
  <2>9. DeadlinesFollowRole'
    BY <1>1, <1>2, <1>4, <2>1, <2>3, Zenon DEF DeadlinesFollowRole, ExecuteSent
  <2>10. PendingWasPrepared'
    BY <1>3, <2>3, Zenon DEF PendingWasPrepared
  <2>11. DeadlineGuardsPending'
    BY <1>4, <2>3, Zenon DEF DeadlineGuardsPending, ExecuteSent
  <2>12. QED
    BY <2>4, <2>5, <2>6, <2>7, <2>8, <2>9, <2>10, <2>11, Zenon
<1>7. QED
  BY <1>5, <1>6, Zenon

\* Every step preserves the invariant: one case per action.
LEMMA StepPreserves == HandshakeInv /\ [Next]_vars => HandshakeInv'
<1> SUFFICES ASSUME HandshakeInv, [Next]_vars PROVE HandshakeInv'
  OBVIOUS
<1>0. 1 .. MaxTid \subseteq Nat \ {0}
  BY BoundAssumption
<1>1. ASSUME NEW tid \in 1 .. MaxTid, Prepare(tid) PROVE HandshakeInv'
  BY <1>0, <1>1, PreparePreserves, Zenon
<1>2. ASSUME NEW tid \in 1 .. MaxTid, Execute(tid) PROVE HandshakeInv'
  BY <1>0, <1>2, ExecutePreserves, Zenon
<1>3. CASE ApplyDecided
  BY <1>3, ApplyDecidedPreserves, Zenon
<1>4. CASE Abort
  BY <1>4, AbortPreserves, Zenon
<1>5. ASSUME NEW m \in Member, Ready(m) PROVE HandshakeInv'
  BY <1>5, ReadyPreserves, Zenon
<1>6. ASSUME NEW m \in Member, DigestResponse(m) PROVE HandshakeInv'
  BY <1>6, DigestResponsePreserves, Zenon
<1>7. ASSUME NEW m \in Member, NEW e \in 0 .. Len(log[Coordinator]),
             NEW tid \in 1 .. MaxTid, JoinArmed(m, e, tid)
      PROVE  HandshakeInv'
  BY <1>0, <1>7, JoinArmedPreserves, Zenon
<1>8. ASSUME NEW m \in Member, NEW e \in 1 .. Len(log[Coordinator]), JoinApplied(m, e)
      PROVE  HandshakeInv'
  BY <1>8, JoinAppliedPreserves, Zenon
<1>9. ASSUME NEW m \in Member, Restart(m) PROVE HandshakeInv'
  BY <1>9, RestartPreserves, Zenon
<1>10. ASSUME NEW m \in Member, RejectForeign(m) PROVE HandshakeInv'
  BY <1>10, RejectForeignPreserves, Zenon
<1>11. ASSUME NEW m \in Member, NEW prep \in BOOLEAN, NEW exec \in BOOLEAN,
              Timeouts(m, prep, exec)
       PROVE  HandshakeInv'
  BY <1>11, TimeoutsPreserves, Zenon
<1>12. ASSUME NEW m \in Member, NEW f \in net, RejectEpoch(m, f) PROVE HandshakeInv'
  BY <1>12, RejectEpochPreserves, Zenon
<1>13. ASSUME NEW m \in Member, NEW f \in net, DecryptFailed(m, f) PROVE HandshakeInv'
  BY <1>13, DecryptFailedPreserves, Zenon
<1>14. ASSUME NEW m \in Member, NEW f \in net, DeliverExecute(m, f) PROVE HandshakeInv'
  BY <1>14, DeliverExecutePreserves, Zenon
<1>15. ASSUME NEW m \in Member, NEW f \in net, DeliverControl(m, f) PROVE HandshakeInv'
  BY <1>15, DeliverControlPreserves, Zenon
<1>16. CASE UNCHANGED vars
  BY <1>16, Zenon DEF vars, HandshakeInv, TypeOK, EpochCountsLog, Joined, LogIsDecidedPrefix,
     Decided, ExecuteCarriesDecision, CoordinatorOriginates, DeadlinesFollowRole,
     PendingWasPrepared, DeadlineGuardsPending
<1>17. QED
  BY <1>1, <1>2, <1>3, <1>4, <1>5, <1>6, <1>7, <1>8, <1>9, <1>10, <1>11, <1>12,
     <1>13, <1>14, <1>15, <1>16, Zenon DEF Next

\* The inductive invariant of the handshake holds for every group, coordinator,
\* environment and bound (deliver_frame, handle_control, send_control,
\* apply_transition, the bootstraps and check_timeouts together).
THEOREM HandshakeInvariant == Spec => []HandshakeInv
<1>1. Init => HandshakeInv
  BY InitEstablishes, Zenon
<1>2. HandshakeInv /\ [Next]_vars => HandshakeInv'
  BY StepPreserves, Zenon
<1>3. QED
  BY <1>1, <1>2, PTL DEF Spec

\* Every node, frame and log keeps its type: no operation of the node leaves a
\* field outside its domain.
THEOREM TypeCorrect == Spec => []TypeOK
<1>1. HandshakeInv => TypeOK
  BY Zenon DEF HandshakeInv
<1>2. QED
  BY <1>1, HandshakeInvariant, PTL

\* What is pending at a member was prepared in its current epoch, or armed by
\* its joiner bootstrap.
THEOREM PendingPrepared == Spec => []PendingWasPrepared
<1>1. HandshakeInv => PendingWasPrepared
  BY Zenon DEF HandshakeInv
<1>2. QED
  BY <1>1, HandshakeInvariant, PTL

\* No deadline outlives the transition it guards.
THEOREM DeadlinesGuard == Spec => []DeadlineGuardsPending
<1>1. HandshakeInv => DeadlineGuardsPending
  BY Zenon DEF HandshakeInv
<1>2. QED
  BY <1>1, HandshakeInvariant, PTL

\* Agreement: two members in one epoch got there by the same transition.  Both
\* logs are prefixes of the decided transitions and have the epoch as length.
THEOREM Agreement == Spec => []SameEpochSameTid
<1>1. ASSUME HandshakeInv, NEW a \in Member, NEW b \in Member,
             node[a].current_epoch = node[b].current_epoch,
             node[a].last_transition_id # 0, node[b].last_transition_id # 0
      PROVE  node[a].last_transition_id = node[b].last_transition_id
  <2>1. /\ log[a] \in Seq(Nat) /\ log[b] \in Seq(Nat) /\ Len(log[a]) = Len(log[b])
        /\ node[a].last_transition_id = LastTid(log[a])
        /\ node[b].last_transition_id = LastTid(log[b])
    BY <1>1, Zenon DEF HandshakeInv, TypeOK, EpochCountsLog
  <2>2. log[a] # << >> /\ log[b] # << >>
    BY <1>1, <2>1, Zenon DEF LastTid
  <2>3. Len(log[a]) \in 1 .. Len(log[a])
    BY <2>1, <2>2
  <2>4. log[a][Len(log[a])] = log[b][Len(log[b])]
    BY <1>1, <2>1, <2>3, Zenon DEF HandshakeInv, LogIsDecidedPrefix
  <2>5. QED
    BY <2>1, <2>2, <2>4, Zenon DEF LastTid
<1>2. HandshakeInv => SameEpochSameTid
  BY <1>1, Zenon DEF SameEpochSameTid
<1>3. QED
  BY <1>2, HandshakeInvariant, PTL

\* A joiner's history is a prefix of the decided transitions.
LEMMA JoinRefines ==
    ASSUME HandshakeInv, NEW m \in Member, ~ Joined(m),
           NEW e \in 0 .. Len(log[Coordinator]),
           log' = [log EXCEPT ![m] = SubSeq(log[Coordinator], 1, e)],
           deciding' = deciding
    PROVE  EpochLog!Enter(m)
<1>1. log[m] = << >>
  BY Zenon DEF HandshakeInv, EpochCountsLog
<1>2. Decided' = Decided
  BY JoinFacts, Zenon
<1> DEFINE s == SubSeq(log[Coordinator], 1, e)
           t == SubSeq(Decided, 1, e)
<1>3. /\ s \in Seq(Nat) /\ Len(s) = e /\ e <= Len(Decided)
      /\ \A i \in 1 .. e : s[i] = Decided[i]
  BY JoinerPrefix, Zenon
<1>4. Decided \in Seq(Nat) /\ Len(Decided) \in Nat /\ e \in 0 .. Len(Decided)
  BY <1>3, DecidedFacts
<1>5. t \in Seq(Nat) /\ Len(t) = e /\ \A i \in 1 .. e : t[i] = Decided[i]
  <2>1. ASSUME NEW q \in Seq(Nat), NEW n \in 0 .. Len(q)
        PROVE  /\ SubSeq(q, 1, n) \in Seq(Nat) /\ Len(SubSeq(q, 1, n)) = n
               /\ \A i \in 1 .. n : SubSeq(q, 1, n)[i] = q[i]
    OBVIOUS
  <2>2. QED
    BY <1>4, <2>1, Zenon
<1>6. s = t
  <2> HIDE DEF s, t
  <2>1. Len(s) = Len(t) /\ \A i \in 1 .. Len(s) : s[i] = t[i]
    BY <1>3, <1>5, Zenon
  <2>2. QED
    BY <1>3, <1>5, <2>1
<1>7. QED
  BY <1>1, <1>2, <1>4, <1>6, Zenon DEF EpochLog!Enter, EpochLog!Prefix

\* The handshake implements one transition log: EXECUTE is the decision,
\* apply_transition and an accepted EXECUTE go through it, joining enters it,
\* and every other step, timeouts, aborts, restarts and rejected frames among
\* them, leaves it alone.
THEOREM ImplementsEpochLog == Spec => OneTransitionLog
<1>1. Init => EpochLog!Init
  BY CoordinatorAssumption, Zenon DEF Init, EpochLog!Init, Decided
<1>2. HandshakeInv /\ [Next]_vars => [EpochLog!Next]_(EpochLog!vars)
  <2> SUFFICES ASSUME HandshakeInv, [Next]_vars
               PROVE  [EpochLog!Next]_(EpochLog!vars)
    OBVIOUS
  <2> USE DEF EpochLog!vars
  <2>0. Coordinator \in Member /\ log \in [Member -> Seq(Nat)]
    BY CoordinatorAssumption, Zenon DEF HandshakeInv, TypeOK
  <2>1. CASE UNCHANGED <<deciding, log>>
    BY <2>1, Zenon DEF Decided
  <2>2. ASSUME NEW tid \in 1 .. MaxTid, Execute(tid)
        PROVE  [EpochLog!Next]_(EpochLog!vars)
    <3>1. /\ deciding = 0 /\ log' = log /\ tid > node[Coordinator].last_transition_id
          /\ deciding' = IF CanSend(node[Coordinator]) THEN tid ELSE 0
      BY <2>2, Zenon DEF Execute
    <3>2. CASE ~ CanSend(node[Coordinator])
      BY <2>1, <3>1, <3>2, Zenon
    <3>3. CASE CanSend(node[Coordinator])
      <4>1. Decided = log[Coordinator] /\ Decided' = Append(log[Coordinator], tid)
        BY <3>1, <3>3, BoundAssumption DEF Decided
      <4>2. tid > EpochLog!LastTid(Decided)
        BY <3>1, <4>1, Zenon DEF HandshakeInv, EpochCountsLog, LastTid, EpochLog!LastTid
      <4>3. EpochLog!Decide(tid)
        BY <3>1, <4>1, <4>2, Zenon DEF EpochLog!Decide
      <4>4. QED
        BY <4>3, Zenon DEF EpochLog!Next
    <3>4. QED
      BY <3>2, <3>3, Zenon
  <2>3. CASE ApplyDecided
    <3>1. /\ deciding # 0 /\ deciding' = 0
          /\ log' = [log EXCEPT ![Coordinator] = Append(log[Coordinator], deciding)]
      BY <2>3, Zenon DEF ApplyDecided
    <3>2. Decided' = Decided
      BY <2>0, <3>1, Zenon DEF Decided
    <3>3. /\ Len(Decided) = Len(log[Coordinator]) + 1
          /\ Decided[Len(log[Coordinator]) + 1] = deciding
          /\ Len(log[Coordinator]) \in Nat
      BY <3>1, DecidedFacts
    <3>4. EpochLog!Apply(Coordinator)
      BY <3>1, <3>2, <3>3 DEF EpochLog!Apply
    <3>5. QED
      BY <2>0, <3>4, Zenon DEF EpochLog!Next
  <2>4. ASSUME NEW m \in Member, NEW f \in net, DeliverExecute(m, f)
        PROVE  [EpochLog!Next]_(EpochLog!vars)
    <3>1. EpochLog!Apply(m)
      BY <2>4, DeliverExecuteFacts, Zenon DEF EpochLog!Apply
    <3>2. QED
      BY <3>1, Zenon DEF EpochLog!Next
  <2>5. ASSUME NEW m \in Member, NEW e \in 0 .. Len(log[Coordinator]), NEW tid,
               JoinArmed(m, e, tid)
        PROVE  [EpochLog!Next]_(EpochLog!vars)
    <3>1. EpochLog!Enter(m)
      BY <2>5, JoinRefines, Zenon DEF JoinArmed
    <3>2. QED
      BY <3>1, Zenon DEF EpochLog!Next
  <2>6. ASSUME NEW m \in Member, NEW e \in 1 .. Len(log[Coordinator]), JoinApplied(m, e)
        PROVE  [EpochLog!Next]_(EpochLog!vars)
    <3>1. e \in 0 .. Len(log[Coordinator])
      BY <2>0
    <3>2. EpochLog!Enter(m)
      BY <2>6, <3>1, JoinRefines, Zenon DEF JoinApplied
    <3>3. QED
      BY <3>2, Zenon DEF EpochLog!Next
  <2>7. QED
    BY <2>1, <2>2, <2>3, <2>4, <2>5, <2>6, Zenon
    DEF Next, vars, Prepare, Abort, Ready, DigestResponse, Restart, RejectForeign,
        Timeouts, RejectEpoch, DecryptFailed, DeliverControl
<1>3. QED
  BY <1>1, <1>2, HandshakeInvariant, PTL DEF Spec, OneTransitionLog, EpochLog!Spec

------------------------------------------------------------------------------
(* Which steps fail a node *)

Runs == {"Idle", "Active", "Resyncing", "Failed"}

StateInv == \A m \in Member : node[m].state \in Runs

FailsByForeign ==
    \A m \in Member :
        node[m].state # "Failed" /\ node'[m].state = "Failed" => RejectForeign(m)

\* What a step other than RejectForeign does to the state of a node.
GoesOn(nd, r) ==
    r.state \in Runs /\ (r.state = "Failed" => nd.state = "Failed")

\* A step that lets one node go on fails nobody.
LEMMA GoesOnStep ==
    ASSUME HandshakeInv, StateInv, NEW m \in Member, NEW r,
           node' = [node EXCEPT ![m] = r], GoesOn(node[m], r)
    PROVE  StateInv' /\ FailsByForeign
<1>1. /\ node'[m] = r
      /\ \A k \in Member : k # m => node'[k] = node[k]
  BY Zenon DEF HandshakeInv, TypeOK
<1>2. QED
  BY <1>1, Zenon DEF StateInv, FailsByForeign, GoesOn

\* A message does not change the sender's state, so sending fails nobody
\* (send_control).
LEMMA SendGoesOn ==
    ASSUME HandshakeInv, StateInv, NEW m \in Member, NEW op \in ControlOpcode,
           NEW tid \in Nat, Send(m, op, tid)
    PROVE  StateInv' /\ FailsByForeign
<1>1. node[m] \in GroupNodeType
  BY Zenon DEF HandshakeInv, TypeOK
<1>2. SendControl(node[m], op, tid).state = node[m].state
  BY <1>1, SendControlEffect, Zenon
<1>3. node' = [node EXCEPT ![m] = SendControl(node[m], op, tid)]
  BY Zenon DEF Send
<1>4. GoesOn(node[m], SendControl(node[m], op, tid))
  BY <1>2, Zenon DEF GoesOn, StateInv
<1>5. QED
  BY <1>3, <1>4, GoesOnStep, Zenon

\* Of the control frames only a digest changes the receiver's state, from
\* Resyncing to Active (handle_control).
LEMMA HandleGoesOn ==
    ASSUME NEW nd \in GroupNodeType, nd.state \in Runs, NEW self \in Member,
           NEW from \in Member, NEW op \in ControlOpcode, NEW tid \in Nat
    PROVE  GoesOn(nd, HandleControl(nd, self, from, op, tid))
<1> DEFINE r == HandleControl(nd, self, from, op, tid)
<1> SUFFICES GoesOn(nd, r)
  OBVIOUS
<1> HIDE DEF r
<1>1. CASE op = "Execute" /\ TidOk(nd, op, tid)
  <2>1. r = OnExecute(nd, tid)
    BY <1>1, Zenon DEF HandleControl, r
  <2>2. OnExecute(nd, tid).state = nd.state
    BY OnExecuteEffect, Zenon
  <2>3. QED
    BY <2>1, <2>2, Zenon DEF GoesOn
<1>2. CASE op = "DigestResponse"
  <2>1. r = OnDigestResponse(nd)
    BY <1>2, Zenon DEF HandleControl, TidOk, r
  <2>2. CASE nd.state = "Resyncing"
    <3>1. NodeCanTransitionTo(nd.state, "Active") /\ "Active" \in NodeState
      BY <2>2, Zenon DEF NodeCanTransitionTo, NodeState
    <3>2. r = Transition(nd, "Active")
      BY <2>1, <2>2, Zenon DEF OnDigestResponse
    <3>3. Transition(nd, "Active").state = "Active"
      BY <3>1, TransitionAllowed, Zenon
    <3>4. r.state = "Active"
      BY <3>2, <3>3, Zenon
    <3>5. QED
      BY <3>4 DEF GoesOn, Runs
  <2>3. CASE nd.state # "Resyncing"
    BY <2>1, <2>3, Zenon DEF OnDigestResponse, GoesOn
  <2>4. QED
    BY <2>2, <2>3, Zenon
<1>3. CASE op # "DigestResponse" /\ ~ (op = "Execute" /\ TidOk(nd, op, tid))
  <2>1. \/ r = nd \/ r = OnPrepare(nd, from, tid) \/ r = OnReady(nd)
        \/ r = OnAbort(nd) \/ r = OnClaim(nd, self, from)
    BY <1>3, Zenon DEF HandleControl, TidOk, r
  <2>2. /\ OnReady(nd).state = nd.state /\ OnAbort(nd).state = nd.state
        /\ OnPrepare(nd, from, tid).state = nd.state
    <3>1. OnReady(nd).state = nd.state
      BY OnReadyEffect, Zenon
    <3>2. OnAbort(nd).state = nd.state
      BY OnAbortEffect, Zenon
    <3>3. OnPrepare(nd, from, tid).state = nd.state
      BY OnPrepareEffect, Zenon
    <3>4. QED
      BY <3>1, <3>2, <3>3, Zenon
  <2>3. OnClaim(nd, self, from).state = nd.state
    BY OnClaimEffect, Zenon
  <2>4. QED
    BY <2>1, <2>2, <2>3, Zenon DEF GoesOn
<1>4. QED
  BY <1>1, <1>2, <1>3, Zenon

\* What a member that receives, joins or restarts does to its state.
LEMMA MemberGoesOn ==
    ASSUME HandshakeInv, StateInv, NEW m \in Member
    PROVE  /\ \A f \in net : RejectEpoch(m, f) \/ DecryptFailed(m, f)
                  \/ DeliverExecute(m, f) \/ DeliverControl(m, f)
                => StateInv' /\ FailsByForeign
           /\ Restart(m) => StateInv' /\ FailsByForeign
           /\ \A e \in Nat, tid \in Nat : JoinArmed(m, e, tid)
                => StateInv' /\ FailsByForeign
           /\ \A e \in 1 .. Len(log[Coordinator]) : JoinApplied(m, e)
                => StateInv' /\ FailsByForeign
           /\ \A prep, exec \in BOOLEAN : Timeouts(m, prep, exec)
                => StateInv' /\ FailsByForeign
<1>1. node[m] \in GroupNodeType /\ node[m].state \in Runs
  BY Zenon DEF HandshakeInv, TypeOK, StateInv
<1>2. ASSUME NEW f \in net, RejectEpoch(m, f) PROVE StateInv' /\ FailsByForeign
  <2>1. /\ node' = [node EXCEPT ![m] = Transition(node[m], "Resyncing")]
        /\ node[m].state # "Idle"
    BY <1>2, Zenon DEF RejectEpoch, TriggerResync, Joined
  <2>2. \/ node[m].state = "Resyncing" \/ NodeCanTransitionTo(node[m].state, "Resyncing")
        \/ node[m].state = "Failed"
    BY <1>1, <2>1 DEF Runs, NodeCanTransitionTo
  <2>3. "Resyncing" \in NodeState
    BY Zenon DEF NodeState
  <2>4. Transition(node[m], "Resyncing").state
           = IF node[m].state = "Resyncing" \/ NodeCanTransitionTo(node[m].state, "Resyncing")
             THEN "Resyncing" ELSE "Failed"
    BY <1>1, Zenon DEF Transition, GroupNodeType
  <2>5. GoesOn(node[m], Transition(node[m], "Resyncing"))
    BY <2>2, <2>4 DEF GoesOn, Runs
  <2>6. QED
    BY <2>1, <2>5, GoesOnStep, Zenon
<1>3. ASSUME NEW f \in net,
             DecryptFailed(m, f) \/ DeliverExecute(m, f) \/ DeliverControl(m, f)
      PROVE  StateInv' /\ FailsByForeign
  <2>1. f.from \in Member /\ f.seq \in Nat /\ f.op \in ControlOpcode /\ f.tid \in Nat
    BY Zenon DEF HandshakeInv, TypeOK, Frame
  <2> DEFINE recorded == Record(node[m], "Control", f.from, f.seq)
             handled == HandleControl(recorded, m, f.from, f.op, f.tid)
  <2>2. recorded \in GroupNodeType /\ recorded.state = node[m].state
    BY <1>1, <2>1, RecordEffect, StreamTypeAssumption, Zenon
  <2>3. node' = [node EXCEPT ![m] = recorded] \/ node' = [node EXCEPT ![m] = handled]
    BY <1>3, Zenon DEF DecryptFailed, DeliverExecute, DeliverControl
  <2> HIDE DEF recorded
  <2>4. GoesOn(recorded, handled)
    BY <1>1, <2>1, <2>2, HandleGoesOn, Zenon
  <2> HIDE DEF handled
  <2>5. GoesOn(node[m], recorded) /\ GoesOn(node[m], handled)
    BY <1>1, <2>2, <2>4, Zenon DEF GoesOn
  <2>6. QED
    BY <2>3, <2>5, GoesOnStep, Zenon
<1>4. ASSUME Restart(m) PROVE StateInv' /\ FailsByForeign
  <2> DEFINE r == Rebuild(node[m], node[m].current_epoch)
  <2>1. node' = [node EXCEPT ![m] = r]
    BY <1>4, Zenon DEF Restart
  <2>2. node[m].current_epoch \in Nat
    BY <1>1, Zenon DEF GroupNodeType
  <2>3. r.state = "Active"
    BY <1>1, <2>2, RebuildEffect, Zenon
  <2> HIDE DEF r
  <2>4. GoesOn(node[m], r)
    BY <2>3 DEF GoesOn, Runs
  <2>5. QED
    BY <2>1, <2>4, GoesOnStep, Zenon
<1>5. ASSUME NEW e \in Nat, NEW tid \in Nat, JoinArmed(m, e, tid)
      PROVE  StateInv' /\ FailsByForeign
  <2> DEFINE r == BootstrapAsJoiner(New, e, tid)
  <2>1. node' = [node EXCEPT ![m] = r]
    BY <1>5, Zenon DEF JoinArmed
  <2>2. r.state = "Active"
    BY BootstrapAsJoinerEffect, Zenon DEF JoinedAt
  <2> HIDE DEF r
  <2>3. GoesOn(node[m], r)
    BY <2>2 DEF GoesOn, Runs
  <2>4. QED
    BY <2>1, <2>3, GoesOnStep, Zenon
<1>6. ASSUME NEW e \in 1 .. Len(log[Coordinator]), JoinApplied(m, e)
      PROVE  StateInv' /\ FailsByForeign
  <2> DEFINE bare == BootstrapAsJoiner(New, e - 1, 0)
             r == ApplyTransition(bare, log[Coordinator][e])
  <2>1. node' = [node EXCEPT ![m] = r]
    BY <1>6, Zenon DEF JoinApplied
  <2>2. log[Coordinator] \in Seq(Nat)
    BY CoordinatorAssumption, Zenon DEF HandshakeInv, TypeOK
  <2>3. e - 1 \in Nat /\ 0 \in Nat /\ log[Coordinator][e] \in Nat
    BY <2>2
  <2>4. bare \in GroupNodeType /\ bare.state = "Active"
    BY <2>3, BootstrapAsJoinerEffect, Zenon DEF JoinedAt
  <2> HIDE DEF bare
  <2>5. r.state = "Active"
    BY <2>3, <2>4, ApplyTransitionEffect, Zenon
  <2> HIDE DEF r
  <2>6. GoesOn(node[m], r)
    BY <2>5 DEF GoesOn, Runs
  <2>7. QED
    BY <2>1, <2>6, GoesOnStep, Zenon
<1>7. ASSUME NEW prep \in BOOLEAN, NEW exec \in BOOLEAN, Timeouts(m, prep, exec)
      PROVE  StateInv' /\ FailsByForeign
  <2> DEFINE r == CheckTimeouts(node[m], prep, exec, FALSE)
  <2>1. node' = [node EXCEPT ![m] = r]
    BY <1>7, Zenon DEF Timeouts
  <2>2. TimeoutEffect(node[m], r)
    BY <1>1, CheckTimeoutsEffect, Zenon
  <2> HIDE DEF r
  <2>3. GoesOn(node[m], r)
    BY <1>1, <2>2, Zenon DEF GoesOn, TimeoutEffect
  <2>4. QED
    BY <2>1, <2>3, GoesOnStep, Zenon
<1>8. QED
  BY <1>2, <1>3, <1>4, <1>5, <1>6, <1>7, Zenon

\* Every step keeps the states and fails nobody unless it is RejectForeign.
LEMMA StateStep == HandshakeInv /\ StateInv /\ [Next]_vars => StateInv' /\ [FailsByForeign]_vars
<1> SUFFICES ASSUME HandshakeInv, StateInv, [Next]_vars
             PROVE  StateInv' /\ (FailsByForeign \/ UNCHANGED vars)
  OBVIOUS
<1>0. 1 .. MaxTid \subseteq Nat /\ 0 .. Len(log[Coordinator]) \subseteq Nat
  BY BoundAssumption
<1>1. /\ \A op \in {"Prepare", "Ready", "Execute", "Abort", "DigestResponse"} :
             op \in ControlOpcode
      /\ \A m \in Member : /\ node[m].pending_transition_id \in Nat
                            /\ node[m].last_transition_id \in Nat
      /\ Coordinator \in Member
  BY CoordinatorAssumption, Zenon DEF ControlOpcode, HandshakeInv, TypeOK, GroupNodeType
<1>2. ASSUME NEW tid \in 1 .. MaxTid, Prepare(tid) \/ Execute(tid)
      PROVE  StateInv' /\ FailsByForeign
  <2>1. Send(Coordinator, "Prepare", tid) \/ Send(Coordinator, "Execute", tid)
    BY <1>2, Zenon DEF Prepare, Execute
  <2>2. QED
    BY <1>0, <1>1, <2>1, SendGoesOn, Zenon
<1>3. CASE Abort
  <2>1. Send(Coordinator, "Abort", node[Coordinator].pending_transition_id)
    BY <1>3, Zenon DEF Abort
  <2>2. QED
    BY <1>1, <2>1, SendGoesOn, Zenon
<1>4. ASSUME NEW m \in Member, Ready(m) \/ DigestResponse(m)
      PROVE  StateInv' /\ FailsByForeign
  <2>1. \/ Send(m, "Ready", node[m].pending_transition_id)
        \/ Send(m, "DigestResponse", node[m].last_transition_id)
    BY <1>4, Zenon DEF Ready, DigestResponse
  <2>2. QED
    BY <1>1, <2>1, SendGoesOn, Zenon
<1>5. CASE ApplyDecided
  <2> DEFINE r == ApplyTransition(node[Coordinator], deciding)
  <2>1. node' = [node EXCEPT ![Coordinator] = r]
    BY <1>5, Zenon DEF ApplyDecided
  <2>2. node[Coordinator] \in GroupNodeType /\ deciding \in Nat
    BY <1>1, Zenon DEF HandshakeInv, TypeOK
  <2>3. r.state = node[Coordinator].state
    BY <2>2, ApplyTransitionEffect, Zenon
  <2> HIDE DEF r
  <2>4. GoesOn(node[Coordinator], r)
    BY <1>1, <2>3, Zenon DEF GoesOn, StateInv
  <2>5. QED
    BY <1>1, <2>1, <2>4, GoesOnStep, Zenon
<1>6. ASSUME NEW m \in Member, RejectForeign(m) PROVE StateInv' /\ FailsByForeign
  <2>1. node' = [node EXCEPT ![m] = FatalError(node[m])]
    BY <1>6, Zenon DEF RejectForeign
  <2>2. node \in [Member -> GroupNodeType]
    BY Zenon DEF HandshakeInv, TypeOK
  <2>3. FatalError(node[m]).state = "Failed"
    <3>1. node[m] \in GroupNodeType
      BY <2>2, Zenon
    <3>2. QED
      BY <3>1 DEF FatalError, GroupNodeType
  <2>4. /\ node'[m].state = "Failed"
        /\ \A k \in Member : k # m => node'[k] = node[k]
    BY <2>1, <2>2, <2>3, Zenon
  <2>5. "Failed" \in Runs
    BY DEF Runs
  <2>6. QED
    BY <1>6, <2>4, <2>5, Zenon DEF StateInv, FailsByForeign
<1>7. CASE UNCHANGED vars
  BY <1>7, Zenon DEF vars, StateInv
<1>8. QED
  BY <1>0, <1>2, <1>3, <1>4, <1>5, <1>6, <1>7, MemberGoesOn, Zenon DEF Next

\* A node fails only by a frame of another group or version: no sequence of other
\* frames, joins, restarts and timeouts takes transition off the state matrix.
THEOREM NodesFailOnlyByForeign == Spec => OnlyForeignFails
<1>1. Init => StateInv
  <2>1. BootstrapAsCreator(New, 0).state = "Active" /\ New.state = "Idle"
    BY BootstrapAsCreatorEffect, Zenon DEF New
  <2>2. QED
    BY <2>1, Zenon DEF Init, StateInv, Runs
<1>2. HandshakeInv /\ StateInv /\ [Next]_vars => StateInv' /\ [FailsByForeign]_vars
  BY StateStep
<1>3. QED
  BY <1>1, <1>2, HandshakeInvariant, PTL DEF Spec, OnlyForeignFails, FailsByForeign

==============================================================================
