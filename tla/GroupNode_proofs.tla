--------------------------- MODULE GroupNode_proofs ---------------------------
(* Lemmas about the operators of GroupNode: what each of them leaves in the    *)
(* type and what it does to the fields the group's invariants speak about.     *)
EXTENDS GroupNode, TLAPS

\* A fresh node and the empty windows are well typed (GroupNode::new).
LEMMA NewType ==
    /\ NoOutSeq \in [StreamType -> Nat]
    /\ NoInHw \in [StreamType -> [Member -> Nat]]
    /\ New \in GroupNodeType
BY Zenon DEF NoOutSeq, NoInHw, New, GroupNodeType, NodeState, TransitionState

\* transition changes only the state, to the target or to Failed.
LEMMA TransitionEffect ==
    ASSUME NEW nd \in GroupNodeType, NEW next \in NodeState
    PROVE  /\ Transition(nd, next) \in GroupNodeType
           /\ Transition(nd, next).state \in {next, "Failed"}
           /\ Transition(nd, next).current_epoch = nd.current_epoch
           /\ Transition(nd, next).last_transition_id = nd.last_transition_id
           /\ Transition(nd, next).pending_transition_id = nd.pending_transition_id
           /\ Transition(nd, next).pending_commit_sender = nd.pending_commit_sender
           /\ Transition(nd, next).prepare_deadline = nd.prepare_deadline
           /\ Transition(nd, next).execute_deadline = nd.execute_deadline
           /\ Transition(nd, next).out_seq = nd.out_seq
           /\ Transition(nd, next).in_hw = nd.in_hw
<1>1. "Failed" \in NodeState
  BY Zenon DEF NodeState
<1>2. QED
  BY <1>1, Zenon DEF Transition, GroupNodeType

\* apply_transition advances the epoch by one and clears the pending state.
LEMMA ApplyTransitionEffect ==
    ASSUME NEW nd \in GroupNodeType, NEW tid \in Nat
    PROVE  /\ ApplyTransition(nd, tid) \in GroupNodeType
           /\ ApplyTransition(nd, tid).state = nd.state
           /\ ApplyTransition(nd, tid).current_epoch = nd.current_epoch + 1
           /\ ApplyTransition(nd, tid).last_transition_id = tid
           /\ ApplyTransition(nd, tid).pending_transition_id = 0
           /\ ApplyTransition(nd, tid).pending_commit_sender = {}
           /\ ApplyTransition(nd, tid).prepare_deadline = nd.prepare_deadline
           /\ ApplyTransition(nd, tid).execute_deadline = nd.execute_deadline
<1>1. nd.current_epoch + 1 \in Nat /\ "TExecuted" \in TransitionState
  BY DEF GroupNodeType, TransitionState
<1>2. ApplyTransition(nd, tid) \in GroupNodeType
  BY <1>1, NewType, Zenon DEF ApplyTransition, GroupNodeType
<1>3. QED
  BY <1>2, Zenon DEF ApplyTransition, GroupNodeType

\* An edge of the matrix is taken.
LEMMA TransitionAllowed ==
    ASSUME NEW nd \in GroupNodeType, NEW next \in NodeState,
           NodeCanTransitionTo(nd.state, next)
    PROVE  Transition(nd, next).state = next
BY Zenon DEF Transition, GroupNodeType

\* A bootstrapped node is Active in the given epoch with nothing pending.
LEMMA BootstrapAsCreatorEffect ==
    ASSUME NEW epoch \in Nat
    PROVE  /\ BootstrapAsCreator(New, epoch) \in GroupNodeType
           /\ BootstrapAsCreator(New, epoch).state = "Active"
           /\ BootstrapAsCreator(New, epoch).current_epoch = epoch
           /\ BootstrapAsCreator(New, epoch).last_transition_id = 0
           /\ BootstrapAsCreator(New, epoch).pending_transition_id = 0
           /\ BootstrapAsCreator(New, epoch).pending_commit_sender = {}
           /\ BootstrapAsCreator(New, epoch).prepare_deadline = FALSE
           /\ BootstrapAsCreator(New, epoch).execute_deadline = FALSE
<1> DEFINE c == Transition(New, "Connecting")
           g == Transition(c, "EstablishingGroup")
           h == [g EXCEPT !.current_epoch = epoch]
<1>1. /\ NodeCanTransitionTo("Idle", "Connecting")
      /\ NodeCanTransitionTo("Connecting", "EstablishingGroup")
      /\ NodeCanTransitionTo("EstablishingGroup", "Active")
      /\ {"Connecting", "EstablishingGroup", "Active"} \subseteq NodeState
  BY Zenon DEF NodeCanTransitionTo, NodeState
<1>2. /\ New \in GroupNodeType /\ New.state = "Idle"
      /\ New.last_transition_id = 0 /\ New.pending_transition_id = 0
      /\ New.pending_commit_sender = {}
      /\ New.prepare_deadline = FALSE /\ New.execute_deadline = FALSE
  BY NewType, Zenon DEF New
<1> HIDE DEF c, g, h
<1>3. /\ c \in GroupNodeType /\ c.state = "Connecting"
      /\ c.last_transition_id = 0 /\ c.pending_transition_id = 0
      /\ c.pending_commit_sender = {}
      /\ c.prepare_deadline = FALSE /\ c.execute_deadline = FALSE
  BY <1>1, <1>2, TransitionEffect, TransitionAllowed, Zenon DEF c
<1>4. /\ g \in GroupNodeType /\ g.state = "EstablishingGroup"
      /\ g.last_transition_id = 0 /\ g.pending_transition_id = 0
      /\ g.pending_commit_sender = {}
      /\ g.prepare_deadline = FALSE /\ g.execute_deadline = FALSE
  BY <1>1, <1>3, TransitionEffect, TransitionAllowed, SMTT(30) DEF g
<1>5. /\ h \in GroupNodeType /\ h.state = "EstablishingGroup"
      /\ h.current_epoch = epoch
      /\ h.last_transition_id = 0 /\ h.pending_transition_id = 0
      /\ h.pending_commit_sender = {}
      /\ h.prepare_deadline = FALSE /\ h.execute_deadline = FALSE
  BY <1>4, Zenon DEF h, GroupNodeType
<1>6. BootstrapAsCreator(New, epoch) = Transition(h, "Active")
  BY Zenon DEF BootstrapAsCreator, c, g, h
<1>7. QED
  BY <1>1, <1>5, <1>6, TransitionEffect, TransitionAllowed, SMTT(30)

\* A fresh node of a member that joins in the given epoch.
JoinedAt(r, epoch) ==
    /\ r \in GroupNodeType /\ r.state = "Active"
    /\ r.current_epoch = epoch
    /\ r.last_transition_id = 0
    /\ r.pending_commit_sender = {}
    /\ r.prepare_deadline = FALSE /\ r.execute_deadline = FALSE

\* A joiner differs from the creator by the transition it is armed for.
LEMMA BootstrapAsJoinerEffect ==
    ASSUME NEW epoch \in Nat, NEW first \in Nat
    PROVE  JoinedAt(BootstrapAsJoiner(New, epoch, first), epoch)
<1>1. "TPrepared" \in TransitionState
  BY Zenon DEF TransitionState
<1> USE DEF JoinedAt
<1> DEFINE bare == BootstrapAsCreator(New, epoch)
<1>2. CASE first = 0
  BY <1>2, BootstrapAsCreatorEffect, Zenon DEF BootstrapAsJoiner
<1>3. CASE first # 0
  <2>1. BootstrapAsJoiner(New, epoch, first)
           = [bare EXCEPT !.pending_transition_id = first,
                          !.transition_state = "TPrepared"]
    BY <1>3, Zenon DEF BootstrapAsJoiner
  <2> HIDE DEF bare
  <2>2. /\ bare \in GroupNodeType /\ bare.state = "Active" /\ bare.current_epoch = epoch
        /\ bare.last_transition_id = 0 /\ bare.pending_commit_sender = {}
        /\ bare.prepare_deadline = FALSE /\ bare.execute_deadline = FALSE
    BY BootstrapAsCreatorEffect, Zenon DEF bare
  <2>3. QED
    BY <1>1, <2>1, <2>2, Zenon DEF GroupNodeType
<1>4. QED
  BY <1>2, <1>3, Zenon

\* A rebuilt node keeps its outbound counters and forgets the rest.
LEMMA RebuildEffect ==
    ASSUME NEW nd \in GroupNodeType, NEW epoch \in Nat
    PROVE  /\ Rebuild(nd, epoch) \in GroupNodeType
           /\ Rebuild(nd, epoch).state = "Active"
           /\ Rebuild(nd, epoch).current_epoch = epoch
           /\ Rebuild(nd, epoch).last_transition_id = 0
           /\ Rebuild(nd, epoch).pending_transition_id = 0
           /\ Rebuild(nd, epoch).pending_commit_sender = {}
           /\ Rebuild(nd, epoch).prepare_deadline = FALSE
           /\ Rebuild(nd, epoch).execute_deadline = FALSE
<1> DEFINE bare == BootstrapAsCreator(New, epoch)
<1>1. nd.out_seq \in [StreamType -> Nat]
  BY Zenon DEF GroupNodeType
<1>2. Rebuild(nd, epoch) = [bare EXCEPT !.out_seq = nd.out_seq]
  BY Zenon DEF Rebuild
<1> HIDE DEF bare
<1>3. /\ bare \in GroupNodeType /\ bare.state = "Active" /\ bare.current_epoch = epoch
      /\ bare.last_transition_id = 0 /\ bare.pending_transition_id = 0
      /\ bare.pending_commit_sender = {}
      /\ bare.prepare_deadline = FALSE /\ bare.execute_deadline = FALSE
  BY BootstrapAsCreatorEffect, Zenon DEF bare
<1>4. QED
  BY <1>1, <1>2, <1>3, Zenon DEF GroupNodeType

\* The sender's bookkeeping touches the pending tid, the FSM and the deadlines.
LEMMA MirrorEffect ==
    ASSUME NEW nd \in GroupNodeType, NEW op \in ControlOpcode, NEW tid \in Nat
    PROVE  /\ Mirror(nd, op, tid) \in GroupNodeType
           /\ Mirror(nd, op, tid).state = nd.state
           /\ Mirror(nd, op, tid).current_epoch = nd.current_epoch
           /\ Mirror(nd, op, tid).last_transition_id = nd.last_transition_id
           /\ Mirror(nd, op, tid).pending_commit_sender = nd.pending_commit_sender
           /\ op = "Prepare" => Mirror(nd, op, tid).pending_transition_id = tid
           /\ op = "Abort" => Mirror(nd, op, tid).pending_transition_id = 0
           /\ op \notin {"Prepare", "Abort"}
                => Mirror(nd, op, tid).pending_transition_id = nd.pending_transition_id
           /\ op \in {"Execute", "Abort"} => Mirror(nd, op, tid).prepare_deadline = FALSE
           /\ op \notin {"Prepare", "Execute", "Abort"}
                => Mirror(nd, op, tid).prepare_deadline = nd.prepare_deadline
           /\ op \in {"Prepare", "Execute", "Abort"}
                => Mirror(nd, op, tid).execute_deadline = FALSE
           /\ op \notin {"Prepare", "Ready", "Execute", "Abort"}
                => Mirror(nd, op, tid).execute_deadline = nd.execute_deadline
<1>0. {"TPrepared", "TAborted"} \subseteq TransitionState
  BY Zenon DEF TransitionState
<1>1. CASE op = "Prepare"
  BY <1>0, <1>1, Zenon DEF Mirror, GroupNodeType
<1>2. CASE op = "Ready"
  BY <1>0, <1>2, Zenon DEF Mirror, GroupNodeType
<1>3. CASE op = "Execute"
  BY <1>0, <1>3, Zenon DEF Mirror, GroupNodeType
<1>4. CASE op = "Abort"
  BY <1>0, <1>4, Zenon DEF Mirror, GroupNodeType
<1>5. CASE op \notin {"Prepare", "Ready", "Execute", "Abort"}
  BY <1>5, Zenon DEF Mirror, GroupNodeType
<1>6. QED
  BY <1>1, <1>2, <1>3, <1>4, <1>5, Zenon

\* Taking a sequence number changes nothing else.
LEMMA SendPayloadEffect ==
    ASSUME NEW nd \in GroupNodeType, NEW st \in StreamType
    PROVE  /\ SendPayload(nd, st) \in GroupNodeType
           /\ SendPayload(nd, st).state = nd.state
           /\ SendPayload(nd, st).current_epoch = nd.current_epoch
           /\ SendPayload(nd, st).last_transition_id = nd.last_transition_id
           /\ SendPayload(nd, st).pending_transition_id = nd.pending_transition_id
           /\ SendPayload(nd, st).pending_commit_sender = nd.pending_commit_sender
           /\ SendPayload(nd, st).prepare_deadline = nd.prepare_deadline
           /\ SendPayload(nd, st).execute_deadline = nd.execute_deadline
<1>1. /\ nd.out_seq \in [StreamType -> Nat]
      /\ [nd.out_seq EXCEPT ![st] = @ + 1] \in [StreamType -> Nat]
  BY DEF GroupNodeType
<1>2. NextSeq(nd, st) = [nd EXCEPT !.out_seq = [nd.out_seq EXCEPT ![st] = @ + 1]]
  BY Zenon DEF NextSeq
<1>3. QED
  BY <1>1, <1>2, Zenon DEF SendPayload, GroupNodeType

\* send_control is the bookkeeping and the sequence number.
LEMMA SendControlEffect ==
    ASSUME NEW nd \in GroupNodeType, NEW op \in ControlOpcode, NEW tid \in Nat
    PROVE  /\ SendControl(nd, op, tid) \in GroupNodeType
           /\ SendControl(nd, op, tid).state = nd.state
           /\ SendControl(nd, op, tid).current_epoch = nd.current_epoch
           /\ SendControl(nd, op, tid).last_transition_id = nd.last_transition_id
           /\ SendControl(nd, op, tid).pending_commit_sender = nd.pending_commit_sender
           /\ op = "Prepare" => SendControl(nd, op, tid).pending_transition_id = tid
           /\ op = "Abort" => SendControl(nd, op, tid).pending_transition_id = 0
           /\ op \notin {"Prepare", "Abort"}
                => SendControl(nd, op, tid).pending_transition_id = nd.pending_transition_id
           /\ op \in {"Execute", "Abort"} => SendControl(nd, op, tid).prepare_deadline = FALSE
           /\ op \notin {"Prepare", "Execute", "Abort"}
                => SendControl(nd, op, tid).prepare_deadline = nd.prepare_deadline
           /\ op \in {"Prepare", "Execute", "Abort"}
                => SendControl(nd, op, tid).execute_deadline = FALSE
           /\ op \notin {"Prepare", "Ready", "Execute", "Abort"}
                => SendControl(nd, op, tid).execute_deadline = nd.execute_deadline
<1> DEFINE mine == Mirror(nd, op, tid)
<1>1. mine \in GroupNodeType
  BY MirrorEffect, Zenon
<1>2. SendControl(nd, op, tid) = SendPayload(mine, "Control")
  BY Zenon DEF SendControl
<1> HIDE DEF mine
<1>3. /\ SendControl(nd, op, tid) \in GroupNodeType
      /\ SendControl(nd, op, tid).state = mine.state
      /\ SendControl(nd, op, tid).current_epoch = mine.current_epoch
      /\ SendControl(nd, op, tid).last_transition_id = mine.last_transition_id
      /\ SendControl(nd, op, tid).pending_transition_id = mine.pending_transition_id
      /\ SendControl(nd, op, tid).pending_commit_sender = mine.pending_commit_sender
      /\ SendControl(nd, op, tid).prepare_deadline = mine.prepare_deadline
      /\ SendControl(nd, op, tid).execute_deadline = mine.execute_deadline
  BY <1>1, <1>2, SendPayloadEffect, StreamTypeAssumption
<1>4. /\ mine.state = nd.state
      /\ mine.current_epoch = nd.current_epoch
      /\ mine.last_transition_id = nd.last_transition_id
      /\ mine.pending_commit_sender = nd.pending_commit_sender
      /\ op = "Prepare" => mine.pending_transition_id = tid
      /\ op = "Abort" => mine.pending_transition_id = 0
      /\ op \notin {"Prepare", "Abort"}
           => mine.pending_transition_id = nd.pending_transition_id
      /\ op \in {"Execute", "Abort"} => mine.prepare_deadline = FALSE
      /\ op \notin {"Prepare", "Execute", "Abort"}
           => mine.prepare_deadline = nd.prepare_deadline
      /\ op \in {"Prepare", "Execute", "Abort"}
           => mine.execute_deadline = FALSE
      /\ op \notin {"Prepare", "Ready", "Execute", "Abort"}
           => mine.execute_deadline = nd.execute_deadline
  BY MirrorEffect, ZenonT(40) DEF mine
<1>5. QED
  BY <1>3, <1>4, Zenon

\* Recording a sequence number changes the replay window only.
LEMMA RecordEffect ==
    ASSUME NEW nd \in GroupNodeType, NEW st \in StreamType,
           NEW from \in Member, NEW seq \in Nat
    PROVE  /\ Record(nd, st, from, seq) \in GroupNodeType
           /\ Record(nd, st, from, seq).state = nd.state
           /\ Record(nd, st, from, seq).current_epoch = nd.current_epoch
           /\ Record(nd, st, from, seq).last_transition_id = nd.last_transition_id
           /\ Record(nd, st, from, seq).pending_transition_id = nd.pending_transition_id
           /\ Record(nd, st, from, seq).pending_commit_sender = nd.pending_commit_sender
           /\ Record(nd, st, from, seq).prepare_deadline = nd.prepare_deadline
           /\ Record(nd, st, from, seq).execute_deadline = nd.execute_deadline
<1> DEFINE hw == [nd.in_hw EXCEPT ![st] = [nd.in_hw[st] EXCEPT ![from] = seq]]
<1>1. hw \in [StreamType -> [Member -> Nat]]
  BY Zenon DEF GroupNodeType
<1>2. Record(nd, st, from, seq) = [nd EXCEPT !.in_hw = hw]
  BY Zenon DEF Record
<1>3. QED
  BY <1>1, <1>2, Zenon DEF GroupNodeType

\* PREPARE leaves epoch and last tid alone and either changes nothing or
\* records the transition and its sender.
LEMMA OnPrepareEffect ==
    ASSUME NEW nd \in GroupNodeType, NEW from \in Member, NEW tid \in Nat
    PROVE  /\ OnPrepare(nd, from, tid) \in GroupNodeType
           /\ OnPrepare(nd, from, tid).state = nd.state
           /\ OnPrepare(nd, from, tid).current_epoch = nd.current_epoch
           /\ OnPrepare(nd, from, tid).last_transition_id = nd.last_transition_id
           /\ OnPrepare(nd, from, tid).prepare_deadline = nd.prepare_deadline
           /\ \/ OnPrepare(nd, from, tid) = nd
              \/ /\ OnPrepare(nd, from, tid).pending_transition_id = tid
                 /\ OnPrepare(nd, from, tid).pending_commit_sender = {from}
<1>1. {from} \in SUBSET Member /\ "TPrepared" \in TransitionState
  BY Zenon DEF TransitionState
<1>2. CASE HoldsAgainst(nd, from, tid)
  BY <1>2, Zenon DEF OnPrepare
<1>3. CASE ~ HoldsAgainst(nd, from, tid)
  <2>1. OnPrepare(nd, from, tid)
          = [nd EXCEPT !.pending_transition_id = tid,
                       !.pending_commit_sender = {from},
                       !.transition_state = "TPrepared",
                       !.coordinator_last_seen = TRUE,
                       !.execute_deadline = TRUE]
    BY <1>3, Zenon DEF OnPrepare
  <2>2. QED
    BY <1>1, <2>1, ZenonT(40) DEF GroupNodeType
<1>4. QED
  BY <1>2, <1>3, Zenon

\* READY touches the FSM and the prepare deadline.
LEMMA OnReadyEffect ==
    ASSUME NEW nd \in GroupNodeType
    PROVE  /\ OnReady(nd) \in GroupNodeType
           /\ OnReady(nd).state = nd.state
           /\ OnReady(nd).current_epoch = nd.current_epoch
           /\ OnReady(nd).last_transition_id = nd.last_transition_id
           /\ OnReady(nd).pending_transition_id = nd.pending_transition_id
           /\ OnReady(nd).pending_commit_sender = nd.pending_commit_sender
           /\ OnReady(nd).prepare_deadline = FALSE
           /\ OnReady(nd).execute_deadline = nd.execute_deadline
BY Zenon DEF OnReady, GroupNodeType, TransitionState

\* EXECUTE is apply_transition and disarms the execute deadline.
LEMMA OnExecuteEffect ==
    ASSUME NEW nd \in GroupNodeType, NEW tid \in Nat
    PROVE  /\ OnExecute(nd, tid) \in GroupNodeType
           /\ OnExecute(nd, tid).state = nd.state
           /\ OnExecute(nd, tid).current_epoch = nd.current_epoch + 1
           /\ OnExecute(nd, tid).last_transition_id = tid
           /\ OnExecute(nd, tid).pending_transition_id = 0
           /\ OnExecute(nd, tid).pending_commit_sender = {}
           /\ OnExecute(nd, tid).prepare_deadline = nd.prepare_deadline
           /\ OnExecute(nd, tid).execute_deadline = FALSE
<1> DEFINE next == ApplyTransition(nd, tid)
<1>1. OnExecute(nd, tid) = [next EXCEPT !.execute_deadline = FALSE,
                                        !.coordinator_last_seen = TRUE]
  BY Zenon DEF OnExecute
<1>2. /\ next \in GroupNodeType /\ next.state = nd.state
      /\ next.current_epoch = nd.current_epoch + 1 /\ next.last_transition_id = tid
      /\ next.pending_transition_id = 0 /\ next.pending_commit_sender = {}
      /\ next.prepare_deadline = nd.prepare_deadline
  BY ApplyTransitionEffect, Zenon
<1> HIDE DEF next
<1>3. QED
  BY <1>1, <1>2, Zenon DEF GroupNodeType

\* ABORT clears the pending transition and both deadlines.
LEMMA OnAbortEffect ==
    ASSUME NEW nd \in GroupNodeType
    PROVE  /\ OnAbort(nd) \in GroupNodeType
           /\ OnAbort(nd).state = nd.state
           /\ OnAbort(nd).current_epoch = nd.current_epoch
           /\ OnAbort(nd).last_transition_id = nd.last_transition_id
           /\ OnAbort(nd).pending_transition_id = 0
           /\ OnAbort(nd).prepare_deadline = FALSE
           /\ OnAbort(nd).execute_deadline = FALSE
<1>1. "TAborted" \in TransitionState
  BY Zenon DEF TransitionState
<1>2. QED
  BY <1>1, Zenon DEF OnAbort, GroupNodeType

\* A claim touches the coordinator role and the silence timer.
LEMMA OnClaimEffect ==
    ASSUME NEW nd \in GroupNodeType, NEW self \in Member, NEW from \in Member
    PROVE  /\ OnClaim(nd, self, from) \in GroupNodeType
           /\ OnClaim(nd, self, from).state = nd.state
           /\ OnClaim(nd, self, from).current_epoch = nd.current_epoch
           /\ OnClaim(nd, self, from).last_transition_id = nd.last_transition_id
           /\ OnClaim(nd, self, from).pending_transition_id = nd.pending_transition_id
           /\ OnClaim(nd, self, from).pending_commit_sender = nd.pending_commit_sender
           /\ OnClaim(nd, self, from).prepare_deadline = nd.prepare_deadline
           /\ OnClaim(nd, self, from).execute_deadline = nd.execute_deadline
<1>1. (nd.is_coordinator /\ ~ (from < self)) \in BOOLEAN
  OBVIOUS
<1>2. QED
  BY <1>1, Zenon DEF OnClaim, GroupNodeType

\* What any control frame but a valid EXECUTE does to node nd, giving r: epoch
\* and last tid stay, the prepare deadline is not armed, and the pending
\* transition is kept, replaced by the one of a PREPARE, or cleared with its
\* deadlines.
ControlEffect(nd, r, from, op, tid) ==
    /\ r \in GroupNodeType
    /\ r.state \in {nd.state, "Active", "Failed"}
    /\ r.current_epoch = nd.current_epoch
    /\ r.last_transition_id = nd.last_transition_id
    /\ r.prepare_deadline \in {FALSE, nd.prepare_deadline}
    /\ \/ /\ r.pending_transition_id = nd.pending_transition_id
          /\ r.pending_commit_sender = nd.pending_commit_sender
          /\ r.execute_deadline = nd.execute_deadline
       \/ /\ op = "Prepare" /\ tid # 0
          /\ r.pending_transition_id = tid
          /\ r.pending_commit_sender = {from}
       \/ /\ r.pending_transition_id = 0
          /\ r.prepare_deadline = FALSE /\ r.execute_deadline = FALSE

\* handle_control has that effect on any other frame.
LEMMA HandleControlEffect ==
    ASSUME NEW nd \in GroupNodeType, NEW self \in Member, NEW from \in Member,
           NEW op \in ControlOpcode, NEW tid \in Nat,
           ~ (op = "Execute" /\ TidOk(nd, op, tid))
    PROVE  ControlEffect(nd, HandleControl(nd, self, from, op, tid), from, op, tid)
<1> USE DEF ControlEffect
<1>1. CASE ~ TidOk(nd, op, tid)
  <2>1. HandleControl(nd, self, from, op, tid) = nd
    BY <1>1, Zenon DEF HandleControl, TidOk
  <2>2. QED
    BY <2>1, Zenon
<1>2. CASE TidOk(nd, op, tid) /\ op = "Prepare"
  <2>1. HandleControl(nd, self, from, op, tid) = OnPrepare(nd, from, tid)
    BY <1>2, Zenon DEF HandleControl
  <2>2. tid # 0
    BY <1>2 DEF TidOk, GroupNodeType
  <2> DEFINE r == OnPrepare(nd, from, tid)
  <2>3. /\ r \in GroupNodeType /\ r.state = nd.state
        /\ r.current_epoch = nd.current_epoch
        /\ r.last_transition_id = nd.last_transition_id
        /\ r.prepare_deadline = nd.prepare_deadline
        /\ \/ r = nd
           \/ r.pending_transition_id = tid /\ r.pending_commit_sender = {from}
    BY OnPrepareEffect
  <2> HIDE DEF r
  <2>4. QED
    BY <1>2, <2>1, <2>2, <2>3, Zenon DEF r
<1>3. CASE TidOk(nd, op, tid) /\ op = "Ready"
  <2>1. HandleControl(nd, self, from, op, tid) = OnReady(nd)
    BY <1>3, Zenon DEF HandleControl
  <2>2. QED
    BY <2>1, OnReadyEffect, Zenon
<1>4. CASE TidOk(nd, op, tid) /\ op = "Abort"
  <2>1. HandleControl(nd, self, from, op, tid) = OnAbort(nd)
    BY <1>4, Zenon DEF HandleControl
  <2>2. QED
    BY <2>1, OnAbortEffect, Zenon
<1>5. CASE op = "DigestResponse"
  <2>1. HandleControl(nd, self, from, op, tid) = OnDigestResponse(nd)
    BY <1>5, Zenon DEF HandleControl, TidOk
  <2>2. "Active" \in NodeState
    BY Zenon DEF NodeState
  <2> DEFINE r == OnDigestResponse(nd)
  <2>3. /\ r \in GroupNodeType /\ r.state \in {nd.state, "Active", "Failed"}
        /\ r.current_epoch = nd.current_epoch
        /\ r.last_transition_id = nd.last_transition_id
        /\ r.prepare_deadline = nd.prepare_deadline
        /\ r.pending_transition_id = nd.pending_transition_id
        /\ r.pending_commit_sender = nd.pending_commit_sender
        /\ r.execute_deadline = nd.execute_deadline
    BY <2>2, TransitionEffect, Zenon DEF OnDigestResponse
  <2> HIDE DEF r
  <2>4. QED
    BY <2>1, <2>3, Zenon DEF r
<1>6. CASE op = "Claim"
  <2>1. HandleControl(nd, self, from, op, tid) = OnClaim(nd, self, from)
    BY <1>6, Zenon DEF HandleControl, TidOk
  <2> DEFINE r == OnClaim(nd, self, from)
  <2>2. /\ r \in GroupNodeType /\ r.state = nd.state
        /\ r.current_epoch = nd.current_epoch
        /\ r.last_transition_id = nd.last_transition_id
        /\ r.prepare_deadline = nd.prepare_deadline
        /\ r.pending_transition_id = nd.pending_transition_id
        /\ r.pending_commit_sender = nd.pending_commit_sender
        /\ r.execute_deadline = nd.execute_deadline
    BY OnClaimEffect, Zenon
  <2> HIDE DEF r
  <2>3. QED
    BY <2>1, <2>2, Zenon DEF r
<1>7. CASE op \notin {"Prepare", "Ready", "Execute", "Abort", "DigestResponse", "Claim"}
  <2>1. HandleControl(nd, self, from, op, tid) = nd
    BY <1>7, Zenon DEF HandleControl, TidOk
  <2>2. QED
    BY <2>1, Zenon
<1>8. QED
  BY <1>1, <1>2, <1>3, <1>4, <1>5, <1>6, <1>7, Zenon

\* What expired timers do: they disarm deadlines, and an expired prepare
\* deadline clears the pending transition as well.
TimeoutEffect(nd, r) ==
    /\ r \in GroupNodeType
    /\ r.state = nd.state
    /\ r.current_epoch = nd.current_epoch
    /\ r.last_transition_id = nd.last_transition_id
    /\ r.pending_commit_sender = nd.pending_commit_sender
    /\ r.prepare_deadline \in {FALSE, nd.prepare_deadline}
    /\ r.execute_deadline \in {FALSE, nd.execute_deadline}
    /\ \/ r.pending_transition_id = nd.pending_transition_id
       \/ /\ r.pending_transition_id = 0
          /\ r.prepare_deadline = FALSE /\ r.execute_deadline = FALSE

\* check_timeouts has that effect, whichever deadlines have expired.
LEMMA CheckTimeoutsEffect ==
    ASSUME NEW nd \in GroupNodeType,
           NEW prep \in BOOLEAN, NEW exec \in BOOLEAN, NEW gone \in BOOLEAN
    PROVE  TimeoutEffect(nd, CheckTimeouts(nd, prep, exec, gone))
<1> DEFINE p == IF prep /\ nd.prepare_deadline THEN FirePrepare(nd) ELSE nd
           e == IF exec /\ p.execute_deadline THEN FireExecute(p) ELSE p
           r == IF gone /\ e.coordinator_last_seen THEN FireCoordinatorGone(e) ELSE e
<1>0. CheckTimeouts(nd, prep, exec, gone) = r
  BY Zenon DEF CheckTimeouts
<1>1. /\ p \in GroupNodeType /\ p.state = nd.state
      /\ p.current_epoch = nd.current_epoch
      /\ p.last_transition_id = nd.last_transition_id
      /\ p.pending_commit_sender = nd.pending_commit_sender
      /\ p.prepare_deadline \in {FALSE, nd.prepare_deadline}
      /\ p.execute_deadline \in {FALSE, nd.execute_deadline}
      /\ \/ p.pending_transition_id = nd.pending_transition_id
         \/ /\ p.pending_transition_id = 0
            /\ p.prepare_deadline = FALSE /\ p.execute_deadline = FALSE
  <2>1. "TAborted" \in TransitionState
    BY Zenon DEF TransitionState
  <2>2. CASE prep /\ nd.prepare_deadline
    BY <2>1, <2>2, Zenon DEF FirePrepare, GroupNodeType
  <2>3. CASE ~ (prep /\ nd.prepare_deadline)
    BY <2>3, Zenon
  <2>4. QED
    BY <2>2, <2>3, Zenon
<1> HIDE DEF p
<1>2. /\ e \in GroupNodeType /\ e.state = p.state
      /\ e.current_epoch = p.current_epoch
      /\ e.last_transition_id = p.last_transition_id
      /\ e.pending_commit_sender = p.pending_commit_sender
      /\ e.prepare_deadline = p.prepare_deadline
      /\ e.execute_deadline \in {FALSE, p.execute_deadline}
      /\ e.pending_transition_id = p.pending_transition_id
  <2>1. CASE exec /\ p.execute_deadline
    BY <1>1, <2>1, Zenon DEF FireExecute, GroupNodeType
  <2>2. CASE ~ (exec /\ p.execute_deadline)
    BY <1>1, <2>2, Zenon
  <2>3. QED
    BY <2>1, <2>2, Zenon
<1> HIDE DEF e
<1>3. /\ r \in GroupNodeType /\ r.state = e.state
      /\ r.current_epoch = e.current_epoch
      /\ r.last_transition_id = e.last_transition_id
      /\ r.pending_commit_sender = e.pending_commit_sender
      /\ r.prepare_deadline = e.prepare_deadline
      /\ r.execute_deadline = e.execute_deadline
      /\ r.pending_transition_id = e.pending_transition_id
  <2>1. CASE gone /\ e.coordinator_last_seen
    BY <1>2, <2>1, Zenon DEF FireCoordinatorGone, GroupNodeType
  <2>2. CASE ~ (gone /\ e.coordinator_last_seen)
    BY <1>2, <2>2, Zenon
  <2>3. QED
    BY <2>1, <2>2, Zenon
<1> HIDE DEF r
<1>4. QED
  BY <1>0, <1>1, <1>2, <1>3, Zenon DEF TimeoutEffect

\* The two effects that the handshake's proof uses as facts about a named node:
\* apply_transition, and the sender's side of EXECUTE.
Advances(nd, r, tid) ==
    /\ r \in GroupNodeType /\ r.state = nd.state
    /\ r.current_epoch = nd.current_epoch + 1
    /\ r.last_transition_id = tid
    /\ r.pending_transition_id = 0 /\ r.pending_commit_sender = {}
    /\ r.prepare_deadline = nd.prepare_deadline
    /\ r.execute_deadline = nd.execute_deadline

ExecuteSent(nd, r) ==
    /\ r \in GroupNodeType /\ r.state = nd.state
    /\ r.current_epoch = nd.current_epoch
    /\ r.last_transition_id = nd.last_transition_id
    /\ r.prepare_deadline = FALSE /\ r.execute_deadline = FALSE

\* apply_transition moves a node on by one epoch.
LEMMA ApplyTransitionAdvances ==
    ASSUME NEW nd \in GroupNodeType, NEW tid \in Nat
    PROVE  Advances(nd, ApplyTransition(nd, tid), tid)
BY ApplyTransitionEffect, Zenon DEF Advances

\* send_control with EXECUTE disarms both of the sender's deadlines.
LEMMA ExecuteSendEffect ==
    ASSUME NEW nd \in GroupNodeType, NEW tid \in Nat
    PROVE  ExecuteSent(nd, SendControl(nd, "Execute", tid))
<1>1. "Execute" \in ControlOpcode
  BY Zenon DEF ControlOpcode
<1> DEFINE r == SendControl(nd, "Execute", tid)
<1>2. /\ r \in GroupNodeType /\ r.state = nd.state
      /\ r.current_epoch = nd.current_epoch
      /\ r.last_transition_id = nd.last_transition_id
  BY <1>1, SendControlEffect, Zenon
<1>3. r.prepare_deadline = FALSE
  BY <1>1, SendControlEffect, Zenon
<1>4. r.execute_deadline = FALSE
  BY <1>1, SendControlEffect, Zenon
<1> HIDE DEF r
<1>5. QED
  BY <1>2, <1>3, <1>4, Zenon DEF ExecuteSent, r

==============================================================================
