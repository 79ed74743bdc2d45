----------------------------- MODULE Node_proofs -----------------------------
(* Proofs about groups of nodes, for every group and every bound.  Election:   *)
(* claims that cross are settled for the lower MemberId.  AppStream: what a    *)
(* sender transmits is numbered once, and what a receiver shows is in order    *)
(* and shown once, over epochs and restarts of either side.                    *)
EXTENDS AppStream, Election, GroupNode_proofs

------------------------------------------------------------------------------
(* What the three node operations of an election do, as facts about a named    *)
(* node.                                                                       *)

Survivor(r) ==
    /\ r \in GroupNodeType /\ r.state = "Active" /\ r.current_epoch = 1

Silenced(nd, r) ==
    /\ Survivor(r)
    /\ r.is_coordinator = FALSE
    /\ r.out_seq = nd.out_seq /\ r.in_hw = nd.in_hw

Claimed(nd, r) ==
    /\ Survivor(r)
    /\ r.out_seq["Control"] = nd.out_seq["Control"] + 1
    /\ r.in_hw = nd.in_hw

Answered(nd, r, self, from, seq) ==
    /\ Survivor(r)
    /\ r.is_coordinator => nd.is_coordinator /\ ~ (from < self)
    /\ r.out_seq = nd.out_seq
    /\ r.in_hw["Control"] = [nd.in_hw["Control"] EXCEPT ![from] = seq]

\* The silence timer takes the role away and touches no counter.
LEMMA SilenceEffect ==
    ASSUME NEW nd, Survivor(nd), nd.coordinator_last_seen
    PROVE  Silenced(nd, CheckTimeouts(nd, FALSE, FALSE, TRUE))
<1>1. CheckTimeouts(nd, FALSE, FALSE, TRUE) = FireCoordinatorGone(nd)
  BY Zenon DEF CheckTimeouts
<1>2. QED
  BY <1>1, Zenon DEF FireCoordinatorGone, Silenced, Survivor, GroupNodeType

\* claim_coordinator takes one sequence number and leaves the windows alone.
LEMMA ClaimEffect ==
    ASSUME NEW nd, Survivor(nd)
    PROVE  Claimed(nd, ClaimCoordinator(nd))
<1> DEFINE role == [nd EXCEPT !.is_coordinator = TRUE, !.coordinator_last_seen = TRUE]
           seqs == [nd.out_seq EXCEPT !["Control"] = @ + 1]
<1>1. Survivor(role) /\ role.out_seq = nd.out_seq /\ role.in_hw = nd.in_hw
  BY Zenon DEF Survivor, GroupNodeType
<1>2. /\ seqs \in [StreamType -> Nat]
      /\ seqs["Control"] = nd.out_seq["Control"] + 1
  BY StreamTypeAssumption DEF Survivor, GroupNodeType
<1>3. ClaimCoordinator(nd) = SendPayload(role, "Control")
  BY Zenon DEF ClaimCoordinator, SendControl, Mirror
<1> HIDE DEF role
<1>4. ClaimCoordinator(nd) = [role EXCEPT !.out_seq = seqs]
  BY <1>1, <1>3, Zenon DEF SendPayload, CanSend, NextSeq, Survivor
<1> HIDE DEF seqs
<1>5. QED
  BY <1>1, <1>2, <1>4, Zenon DEF Claimed, Survivor, GroupNodeType

\* A claim that is handled moves its sender's window and takes the role from a
\* higher member.
LEMMA AnswerEffect ==
    ASSUME NEW nd, Survivor(nd), NEW self \in Member, NEW from \in Member,
           NEW seq \in Nat, NEW tid \in Nat
    PROVE  Answered(nd, HandleControl(Record(nd, "Control", from, seq), self, from, "Claim", tid),
                    self, from, seq)
<1> DEFINE rec == Record(nd, "Control", from, seq)
           hw == [nd.in_hw EXCEPT !["Control"] = [nd.in_hw["Control"] EXCEPT ![from] = seq]]
           role == nd.is_coordinator /\ ~ (from < self)
<1>1. /\ hw \in [StreamType -> [Member -> Nat]]
      /\ hw["Control"] = [nd.in_hw["Control"] EXCEPT ![from] = seq]
  BY StreamTypeAssumption, Zenon DEF Survivor, GroupNodeType
<1>2. rec = [nd EXCEPT !.in_hw = hw]
  BY Zenon DEF Record
<1> HIDE DEF hw
<1>3. /\ Survivor(rec) /\ rec.out_seq = nd.out_seq /\ rec.in_hw = hw
      /\ rec.is_coordinator = nd.is_coordinator
  BY <1>1, <1>2, Zenon DEF Survivor, GroupNodeType
<1> HIDE DEF rec
<1>4. HandleControl(rec, self, from, "Claim", tid) = OnClaim(rec, self, from)
  BY Zenon DEF HandleControl, TidOk
<1>5. role \in BOOLEAN /\ (role => nd.is_coordinator /\ ~ (from < self))
  OBVIOUS
<1> HIDE DEF role
<1>6. OnClaim(rec, self, from) = [rec EXCEPT !.coordinator_last_seen = TRUE,
                                             !.is_coordinator = role]
  BY <1>3, Zenon DEF OnClaim, role
<1> DEFINE r == OnClaim(rec, self, from)
<1>7. /\ r \in GroupNodeType /\ r.state = "Active" /\ r.current_epoch = 1
      /\ r.is_coordinator = role /\ r.out_seq = nd.out_seq /\ r.in_hw = hw
  BY <1>3, <1>5, <1>6, Zenon DEF Survivor, GroupNodeType
<1> HIDE DEF r
<1>8. Answered(nd, r, self, from, seq)
  BY <1>1, <1>5, <1>7, Zenon DEF Answered, Survivor
<1>9. QED
  BY <1>4, <1>8, Zenon DEF r, rec

------------------------------------------------------------------------------
(* The inductive invariant *)

\* The survivors of transition 1 have made no claim yet.
LEMMA InitEstablishes == ElectionInit => ElectionInv
<1> SUFFICES ASSUME ElectionInit PROVE ElectionInv
  OBVIOUS
<1> DEFINE bare == BootstrapAsJoiner(New, 0, 1)
           first == OnExecute(bare, 1)
<1>1. JoinedAt(bare, 0)
  BY BootstrapAsJoinerEffect, Zenon
<1> HIDE DEF bare
<1>2. bare \in GroupNodeType /\ bare.state = "Active" /\ bare.current_epoch = 0
  BY <1>1, Zenon DEF JoinedAt
<1>3. /\ first \in GroupNodeType /\ first.state = "Active" /\ first.current_epoch = 0 + 1
  BY <1>2, OnExecuteEffect, Zenon
<1>4. first.out_seq = NoOutSeq /\ first.in_hw = NoInHw
  BY <1>2, Zenon DEF OnExecute, ApplyTransition, GroupNodeType
<1>5. \A m \in Member : first.out_seq["Control"] = 0 /\ first.in_hw["Control"][m] = 0
  BY <1>4, StreamTypeAssumption DEF NoOutSeq, NoInHw
<1> HIDE DEF first
<1>6. /\ peer = [m \in Member |-> first]
      /\ claims = {} /\ needed = {} /\ view = [m \in Member |-> Member]
      /\ knew = [m \in Member |-> [a \in Member |-> 0]]
  BY Zenon DEF ElectionInit, first, bare
<1>7. TypeOK
  BY <1>3, <1>6, Zenon DEF TypeOK
<1>8. SteadyGroup /\ WindowsBehindSenders /\ NoLowerSinceClaim
  BY <1>3, <1>5, <1>6 DEF SteadyGroup, WindowsBehindSenders, NoLowerSinceClaim, LastClaim
<1>9. QED
  BY <1>7, <1>8, Zenon DEF ElectionInv

\* A polled silence timer preserves the invariant.
LEMMA SilencePreserves ==
    ASSUME ElectionInv, NEW m \in Member, Silence(m)
    PROVE  ElectionInv'
<1> DEFINE r == CheckTimeouts(peer[m], FALSE, FALSE, TRUE)
<1>1. Survivor(peer[m]) /\ peer[m].coordinator_last_seen
  BY Zenon DEF ElectionInv, TypeOK, SteadyGroup, Survivor, Silence
<1>2. Silenced(peer[m], r)
  BY <1>1, SilenceEffect, Zenon
<1> HIDE DEF r
<1>3. /\ r \in GroupNodeType /\ r.state = "Active" /\ r.current_epoch = 1
      /\ r.is_coordinator = FALSE
      /\ r.out_seq = peer[m].out_seq /\ r.in_hw = peer[m].in_hw
  BY <1>2, Zenon DEF Silenced, Survivor
<1>4. /\ peer \in [Member -> GroupNodeType]
      /\ peer' = [peer EXCEPT ![m] = r]
      /\ needed' = needed \cup {m} /\ UNCHANGED <<claims, view, knew>>
  BY Zenon DEF ElectionInv, TypeOK, Silence, r
<1>5. TypeOK'
  BY <1>3, <1>4, Zenon DEF ElectionInv, TypeOK
<1>6. SteadyGroup'
  BY <1>3, <1>4, Zenon DEF ElectionInv, TypeOK, SteadyGroup, LastClaim, Claim
<1>7. WindowsBehindSenders'
  BY <1>3, <1>4, Zenon DEF ElectionInv, WindowsBehindSenders, LastClaim
<1>8. NoLowerSinceClaim'
  BY <1>3, <1>4, Zenon DEF ElectionInv, NoLowerSinceClaim
<1>9. QED
  BY <1>5, <1>6, <1>7, <1>8, Zenon DEF ElectionInv

\* A claim preserves the invariant: the claimant notes what it has handled.
LEMMA HandleNeededPreserves ==
    ASSUME ElectionInv, NEW m \in Member, HandleNeeded(m)
    PROVE  ElectionInv'
<1> DEFINE r == ClaimCoordinator(peer[m])
           f == [from |-> m, epoch |-> peer[m].current_epoch,
                 seq |-> peer[m].out_seq["Control"] + 1,
                 tid |-> peer[m].last_transition_id]
<1>1. Survivor(peer[m])
  BY Zenon DEF ElectionInv, TypeOK, SteadyGroup, Survivor
<1>2. Claimed(peer[m], r)
  BY <1>1, ClaimEffect, Zenon
<1>3. /\ f \in Claim /\ f.from = m /\ f.seq = LastClaim(m) + 1
      /\ LastClaim(m) \in Nat
      /\ peer[m].in_hw["Control"] \in [Member -> Nat]
  BY <1>1, StreamTypeAssumption DEF Survivor, GroupNodeType, Claim, LastClaim
<1>4. /\ peer \in [Member -> GroupNodeType]
      /\ peer' = [peer EXCEPT ![m] = r]
      /\ claims' = claims \cup {f} /\ needed' = needed \ {m}
      /\ knew' = [knew EXCEPT ![m] = peer[m].in_hw["Control"]]
      /\ view' = view
  BY Zenon DEF ElectionInv, TypeOK, HandleNeeded
<1> HIDE DEF r, f
<1>5. /\ r \in GroupNodeType /\ r.state = "Active" /\ r.current_epoch = 1
      /\ r.out_seq["Control"] = LastClaim(m) + 1 /\ r.in_hw = peer[m].in_hw
  BY <1>2, Zenon DEF Claimed, Survivor, LastClaim
<1>6. TypeOK'
  BY <1>3, <1>4, <1>5, Zenon DEF ElectionInv, TypeOK
<1>7. /\ LastClaim(m)' = LastClaim(m) + 1
      /\ \A a \in Member : a # m => LastClaim(a)' = LastClaim(a)
      /\ \A a \in Member : peer'[a].in_hw = peer[a].in_hw
  BY <1>4, <1>5, Zenon DEF LastClaim
<1>8. \A a \in Member : LastClaim(a) \in Nat /\ LastClaim(a)' \in Nat
                        /\ LastClaim(a) <= LastClaim(a)'
  <2>1. \A a \in Member : LastClaim(a) \in Nat
    BY StreamTypeAssumption DEF ElectionInv, TypeOK, GroupNodeType, LastClaim
  <2>2. QED
    BY <1>7, <2>1
<1>9. SteadyGroup'
  <2>1. \A a \in Member : peer'[a].current_epoch = 1 /\ peer'[a].state = "Active"
    BY <1>4, <1>5, Zenon DEF ElectionInv, SteadyGroup
  <2>2. ASSUME NEW g \in claims' PROVE g.seq <= LastClaim(g.from)'
    <3>1. CASE g = f
      BY <1>3, <1>7, <3>1
    <3>2. CASE g \in claims
      BY <1>8, <3>2 DEF ElectionInv, TypeOK, SteadyGroup, Claim
    <3>3. QED
      BY <1>4, <3>1, <3>2, Zenon
  <2>3. QED
    BY <2>1, <2>2, Zenon DEF SteadyGroup, LastClaim
<1>10. WindowsBehindSenders'
  <2>1. ASSUME NEW a \in Member, NEW b \in Member
        PROVE  peer'[b].in_hw["Control"][a] <= LastClaim(a)'
    <3>1. peer[b].in_hw["Control"][a] \in Nat
      BY StreamTypeAssumption DEF ElectionInv, TypeOK, GroupNodeType
    <3>2. peer[b].in_hw["Control"][a] <= LastClaim(a)
      BY Zenon DEF ElectionInv, WindowsBehindSenders
    <3>3. QED
      BY <1>7, <1>8, <3>1, <3>2
  <2>2. QED
    BY <2>1, Zenon DEF WindowsBehindSenders, LastClaim
<1>11. NoLowerSinceClaim'
  BY <1>4, <1>7, Zenon DEF ElectionInv, TypeOK, NoLowerSinceClaim
<1>12. QED
  BY <1>6, <1>9, <1>10, <1>11, Zenon DEF ElectionInv

\* A claim that is handled preserves the invariant: either the receiver gives
\* the role up or the claim came from a higher member.
LEMMA DeliverClaimPreserves ==
    ASSUME ElectionInv, NEW m \in Member, NEW f \in claims, DeliverClaim(m, f)
    PROVE  ElectionInv'
<1> DEFINE r == HandleControl(Record(peer[m], "Control", f.from, f.seq), m, f.from, "Claim", f.tid)
           hw == peer[m].in_hw["Control"]
<1>1. /\ Survivor(peer[m]) /\ peer \in [Member -> GroupNodeType]
      /\ f.from \in Member /\ f.seq \in Nat /\ f.tid \in Nat
      /\ f.seq <= LastClaim(f.from)
  BY Zenon DEF ElectionInv, TypeOK, SteadyGroup, Survivor, Claim
<1>2. Answered(peer[m], r, m, f.from, f.seq)
  BY <1>1, AnswerEffect, Zenon
<1>3. peer' = [peer EXCEPT ![m] = r] /\ UNCHANGED <<claims, needed, view, knew>>
  BY Zenon DEF DeliverClaim
<1> HIDE DEF r
<1>4. /\ r \in GroupNodeType /\ r.state = "Active" /\ r.current_epoch = 1
      /\ r.is_coordinator => peer[m].is_coordinator /\ ~ (f.from < m)
      /\ r.out_seq = peer[m].out_seq
      /\ r.in_hw["Control"] = [hw EXCEPT ![f.from] = f.seq]
  BY <1>2, Zenon DEF Answered, Survivor
<1>5. hw \in [Member -> Nat]
  BY <1>1, StreamTypeAssumption, Zenon DEF Survivor, GroupNodeType
<1>6. TypeOK'
  BY <1>1, <1>3, <1>4, Zenon DEF ElectionInv, TypeOK
<1>7. \A a \in Member : LastClaim(a)' = LastClaim(a)
  BY <1>1, <1>3, <1>4, Zenon DEF LastClaim
<1>8. SteadyGroup'
  <2>1. \A a \in Member : peer'[a].current_epoch = 1 /\ peer'[a].state = "Active"
    BY <1>1, <1>3, <1>4, Zenon DEF ElectionInv, SteadyGroup
  <2>2. \A g \in claims' : g.seq <= LastClaim(g.from)'
    BY <1>3, <1>7, Zenon DEF ElectionInv, TypeOK, SteadyGroup, Claim
  <2>3. QED
    BY <2>1, <2>2, Zenon DEF SteadyGroup, LastClaim
<1>9. WindowsBehindSenders'
  <2>1. ASSUME NEW a \in Member, NEW b \in Member
        PROVE  peer'[b].in_hw["Control"][a] <= LastClaim(a)'
    <3>1. peer[b].in_hw["Control"][a] <= LastClaim(a)
      BY Zenon DEF ElectionInv, WindowsBehindSenders
    <3>2. CASE b # m
      BY <1>1, <1>3, <1>7, <3>1, <3>2, Zenon
    <3>3. CASE b = m
      <4>1. peer'[b].in_hw["Control"][a] = [hw EXCEPT ![f.from] = f.seq][a]
        BY <1>1, <1>3, <1>4, <3>3, Zenon
      <4> HIDE DEF hw
      <4>2. peer'[b].in_hw["Control"][a] = IF a = f.from THEN f.seq ELSE hw[a]
        BY <1>1, <1>5, <4>1, Zenon
      <4>3. QED
        BY <1>1, <1>7, <3>1, <3>3, <4>2, Zenon DEF hw
    <3>4. QED
      BY <3>2, <3>3, Zenon
  <2>2. QED
    BY <2>1, Zenon DEF WindowsBehindSenders, LastClaim
<1>10. NoLowerSinceClaim'
  <2>1. ASSUME NEW a \in Member, NEW b \in Member, a < b, peer'[b].is_coordinator
        PROVE  peer'[b].in_hw["Control"][a] = knew'[b][a]
    <3>1. CASE b # m
      BY <1>1, <1>3, <2>1, <3>1, Zenon DEF ElectionInv, NoLowerSinceClaim
    <3>2. CASE b = m
      <4>1. a # f.from /\ peer[b].is_coordinator
        BY <1>1, <1>3, <1>4, <2>1, <3>2, Zenon
      <4>2. hw[a] = knew[b][a]
        BY <2>1, <3>2, <4>1, Zenon DEF ElectionInv, NoLowerSinceClaim
      <4>3. peer'[b].in_hw["Control"][a] = [hw EXCEPT ![f.from] = f.seq][a]
        BY <1>1, <1>3, <1>4, <3>2, Zenon
      <4> HIDE DEF hw
      <4>4. QED
        BY <1>3, <1>5, <4>1, <4>2, <4>3, Zenon
    <3>3. QED
      BY <3>1, <3>2, Zenon
  <2>2. QED
    BY <2>1, Zenon DEF NoLowerSinceClaim
<1>11. QED
  BY <1>6, <1>8, <1>9, <1>10, Zenon DEF ElectionInv

\* The application's other steps touch no node.
LEMMA IdleStepPreserves ==
    ASSUME ElectionInv, UNCHANGED <<peer, claims, knew>>,
           needed' \in SUBSET Member, view' \in [Member -> SUBSET Member]
    PROVE  ElectionInv'
<1>1. TypeOK'
  BY Zenon DEF ElectionInv, TypeOK
<1>2. SteadyGroup' /\ WindowsBehindSenders' /\ NoLowerSinceClaim'
  BY Zenon DEF ElectionInv, SteadyGroup, WindowsBehindSenders, NoLowerSinceClaim, LastClaim
<1>3. QED
  BY <1>1, <1>2, Zenon DEF ElectionInv

\* Every step of an election preserves the invariant.
LEMMA StepPreserves == ElectionInv /\ [ElectionNext]_electionvars => ElectionInv'
<1> SUFFICES ASSUME ElectionInv, [ElectionNext]_electionvars PROVE ElectionInv'
  OBVIOUS
<1>0. needed \in SUBSET Member /\ view \in [Member -> SUBSET Member]
  BY Zenon DEF ElectionInv, TypeOK
<1>1. CASE UNCHANGED electionvars
  BY <1>0, <1>1, IdleStepPreserves, Zenon DEF electionvars
<1>2. ASSUME NEW m \in Member, Silence(m) PROVE ElectionInv'
  BY <1>2, SilencePreserves, Zenon
<1>3. ASSUME NEW m \in Member, HandleNeeded(m) PROVE ElectionInv'
  BY <1>3, HandleNeededPreserves, Zenon
<1>4. ASSUME NEW m \in Member, IgnoreNeeded(m) PROVE ElectionInv'
  BY <1>0, <1>4, IdleStepPreserves, Zenon DEF IgnoreNeeded
<1>5. ASSUME NEW m \in Member, NEW f \in claims, DeliverClaim(m, f) PROVE ElectionInv'
  BY <1>5, DeliverClaimPreserves, Zenon
<1>6. ASSUME NEW m \in Member, NEW x \in Member, SeeLeft(m, x) \/ SeeBack(m, x)
      PROVE  ElectionInv'
  BY <1>0, <1>6, IdleStepPreserves DEF SeeLeft, SeeBack
<1>7. QED
  BY <1>1, <1>2, <1>3, <1>4, <1>5, <1>6, Zenon DEF ElectionNext

------------------------------------------------------------------------------
(* Theorems *)

\* Every reachable state of an election satisfies the inductive invariant: in
\* particular a node in the role has handled no lower member's claim since it
\* claimed (claim_coordinator, handle_control, check_timeouts).
THEOREM ElectionInvariant == ElectionSpec => []ElectionInv
BY InitEstablishes, StepPreserves, PTL DEF ElectionSpec

\* Claims that cross are settled for the lower MemberId, for any number of
\* members and claims, over a network that loses, repeats and reorders them.
THEOREM CrossingResolved == ElectionSpec => []CrossingClaimsResolve
<1>1. ElectionInv => CrossingClaimsResolve
  <2> SUFFICES ASSUME ElectionInv, NEW a \in Member, NEW b \in Member,
                      a < b, peer[b].is_coordinator, HandledLastClaim(b, a)
               PROVE  knew[b][a] = LastClaim(a)
    BY Zenon DEF CrossingClaimsResolve
  <2>1. peer[b].in_hw["Control"][a] = knew[b][a]
    BY Zenon DEF ElectionInv, NoLowerSinceClaim
  <2>2. peer[b].in_hw["Control"][a] <= LastClaim(a)
    BY Zenon DEF ElectionInv, WindowsBehindSenders
  <2>3. peer[b].in_hw["Control"][a] \in Nat /\ LastClaim(a) \in Nat
    BY StreamTypeAssumption DEF ElectionInv, TypeOK, GroupNodeType, LastClaim
  <2>4. QED
    BY <2>1, <2>2, <2>3 DEF HandledLastClaim
<1>2. QED
  BY <1>1, ElectionInvariant, PTL

------------------------------------------------------------------------------
(* What the node operations do to epoch, counters and windows.                 *)

LEMMA Transitive ==
    ASSUME NEW a \in Nat, NEW b \in Nat, NEW c \in Nat, a <= b, b <= c
    PROVE  a <= c
OBVIOUS

LEMMA AboveIsAtLeast ==
    ASSUME NEW a \in Nat, NEW b \in Nat, b > a
    PROVE  a <= b
OBVIOUS

Running(nd) == nd \in GroupNodeType /\ nd.state \in {"Active", "Resyncing", "Failed"}

\* send_payload takes the next number of its stream.
LEMMA SendEffect ==
    ASSUME NEW nd, Running(nd), CanSend(nd), NEW st \in StreamType
    PROVE  /\ Running(SendPayload(nd, st))
           /\ SendPayload(nd, st).current_epoch = nd.current_epoch
           /\ SendPayload(nd, st).in_hw = nd.in_hw
           /\ SendPayload(nd, st).out_seq = [nd.out_seq EXCEPT ![st] = @ + 1]
<1> DEFINE seqs == [nd.out_seq EXCEPT ![st] = @ + 1]
<1>1. seqs \in [StreamType -> Nat]
  BY DEF Running, GroupNodeType
<1>2. SendPayload(nd, st) = [nd EXCEPT !.out_seq = seqs]
  BY Zenon DEF SendPayload, NextSeq
<1> HIDE DEF seqs
<1>3. /\ Running(SendPayload(nd, st))
      /\ SendPayload(nd, st).current_epoch = nd.current_epoch
      /\ SendPayload(nd, st).in_hw = nd.in_hw
      /\ SendPayload(nd, st).out_seq = seqs
  BY <1>1, <1>2, Zenon DEF Running, GroupNodeType
<1>4. QED
  BY <1>3, Zenon DEF seqs

\* Recording a frame moves one window.
LEMMA RecordsEffect ==
    ASSUME NEW nd, Running(nd), NEW st \in StreamType, NEW from \in Member,
           NEW seq \in Nat
    PROVE  /\ Running(Record(nd, st, from, seq))
           /\ Record(nd, st, from, seq).current_epoch = nd.current_epoch
           /\ Record(nd, st, from, seq).out_seq = nd.out_seq
           /\ Record(nd, st, from, seq).in_hw =
                 [nd.in_hw EXCEPT ![st] = [nd.in_hw[st] EXCEPT ![from] = seq]]
<1> DEFINE hw == [nd.in_hw EXCEPT ![st] = [nd.in_hw[st] EXCEPT ![from] = seq]]
<1>1. hw \in [StreamType -> [Member -> Nat]]
  BY Zenon DEF Running, GroupNodeType
<1>2. Record(nd, st, from, seq) = [nd EXCEPT !.in_hw = hw]
  BY Zenon DEF Record
<1> HIDE DEF hw
<1>3. /\ Running(Record(nd, st, from, seq))
      /\ Record(nd, st, from, seq).current_epoch = nd.current_epoch
      /\ Record(nd, st, from, seq).out_seq = nd.out_seq
      /\ Record(nd, st, from, seq).in_hw = hw
  BY <1>1, <1>2, Zenon DEF Running, GroupNodeType
<1>4. QED
  BY <1>3, Zenon DEF hw

\* A resync changes the state only.
LEMMA ResyncEffect ==
    ASSUME NEW nd, Running(nd)
    PROVE  /\ Running(TriggerResync(nd))
           /\ TriggerResync(nd).current_epoch = nd.current_epoch
           /\ TriggerResync(nd).out_seq = nd.out_seq
           /\ TriggerResync(nd).in_hw = nd.in_hw
<1>1. "Resyncing" \in NodeState
  BY Zenon DEF NodeState
<1>2. QED
  BY <1>1, TransitionEffect, Zenon DEF Running, TriggerResync

\* apply_transition goes to the next epoch.
LEMMA AdvanceEffect ==
    ASSUME NEW nd, Running(nd)
    PROVE  /\ Running(ApplyTransition(nd, nd.current_epoch))
           /\ ApplyTransition(nd, nd.current_epoch).current_epoch = nd.current_epoch + 1
<1>1. nd \in GroupNodeType /\ nd.current_epoch \in Nat
  BY Zenon DEF Running, GroupNodeType
<1>2. QED
  BY <1>1, ApplyTransitionEffect, Zenon DEF Running

\* A rebuilt node is in the epoch it was in, with the counters it was given.
LEMMA RebuiltEffect ==
    ASSUME NEW nd, Running(nd), NEW counters \in [StreamType -> Nat]
    PROVE  /\ Running(RebuiltNode(nd, counters))
           /\ RebuiltNode(nd, counters).current_epoch = nd.current_epoch
           /\ RebuiltNode(nd, counters).out_seq = counters
<1> DEFINE old == [nd EXCEPT !.out_seq = counters]
           bare == BootstrapAsCreator(New, nd.current_epoch)
<1>1. nd.current_epoch \in Nat
  BY Zenon DEF Running, GroupNodeType
<1>2. old.out_seq = counters
  BY Zenon DEF Running, GroupNodeType
<1>3. RebuiltNode(nd, counters) = [bare EXCEPT !.out_seq = counters]
  BY <1>2, Zenon DEF RebuiltNode, Rebuild
<1>4. bare \in GroupNodeType /\ bare.state = "Active" /\ bare.current_epoch = nd.current_epoch
  BY <1>1, BootstrapAsCreatorEffect, Zenon
<1> HIDE DEF bare
<1>5. QED
  BY <1>3, <1>4, Zenon DEF Running, GroupNodeType

------------------------------------------------------------------------------
(* The inductive invariant *)

Epoch(m) == endpoint[m].current_epoch

\* Nothing is numbered in an epoch its sender has not reached; in the sender's
\* epoch nothing is numbered above its counter; and what was transmitted there
\* is not above the counter it would resume from.
Numbered ==
    /\ \A m \in Member : \A f \in outbox[m] :
          /\ f.from = m /\ f.epoch <= Epoch(m)
          /\ f.epoch = Epoch(m) => f.seq <= endpoint[m].out_seq[f.st]
    /\ \A f \in transmitted :
          /\ f.epoch <= Epoch(f.from)
          /\ f.epoch = Epoch(f.from) =>
                f.seq <= endpoint[f.from].out_seq[f.st] /\ f.seq <= saved[f.from][f.st]

SameNumber(f, g) ==
    f.from = g.from /\ f.st = g.st /\ f.epoch = g.epoch /\ f.seq = g.seq

\* A number names one frame among those transmitted and those still waiting.
NumberedOnce ==
    \A m \in Member : \A f, g \in transmitted \cup outbox[m] : SameNumber(f, g) => f = g

\* A receipt is of a life and an epoch the receiver has reached; those of the
\* present life and epoch are not above the window.
Windowed ==
    \A m \in Member : \A i \in DOMAIN got[m] :
        /\ got[m][i].life <= life[m] /\ got[m][i].epoch <= Epoch(m)
        /\ got[m][i].life = life[m] /\ got[m][i].epoch = Epoch(m) =>
              got[m][i].seq <= endpoint[m].in_hw[got[m][i].st][got[m][i].from]

IInv == StreamTypeOK /\ Numbered /\ NumberedOnce /\ Windowed /\ InOrderOnce

LEMMA TypeFacts ==
    ASSUME StreamTypeOK
    PROVE  /\ \A m \in Member :
                /\ Running(endpoint[m]) /\ Epoch(m) \in Nat /\ life[m] \in Nat
                /\ endpoint[m].out_seq \in [StreamType -> Nat]
                /\ endpoint[m].in_hw \in [StreamType -> [Member -> Nat]]
                /\ saved[m] \in [StreamType -> Nat]
                /\ outbox[m] \subseteq Frame
                /\ got[m] \in Seq(Receipt)
           /\ transmitted \subseteq Frame
           /\ AppStreamType \subseteq StreamType
BY Zenon DEF StreamTypeOK, Running, GroupNodeType, Epoch, AppStreamType

LEMMA WindowsAreNumbers ==
    ASSUME StreamTypeOK, NEW x \in Member, NEW st \in StreamType, NEW y \in Member
    PROVE  endpoint[x].in_hw[st][y] \in Nat
<1>1. endpoint[x].in_hw \in [StreamType -> [Member -> Nat]]
  BY TypeFacts, Zenon
<1>2. endpoint[x].in_hw[st] \in [Member -> Nat]
  BY <1>1, Zenon
<1>3. QED
  BY <1>2, Zenon

\* The initial state: nothing was numbered or shown.
LEMMA InitIInv == StreamInit => IInv
<1> SUFFICES ASSUME StreamInit PROVE IInv
  OBVIOUS
<1> DEFINE first == BootstrapAsCreator(New, 1)
<1>1. first \in GroupNodeType /\ first.state = "Active"
  BY BootstrapAsCreatorEffect, Zenon
<1> HIDE DEF first
<1>2. endpoint = [m \in Member |-> first]
  BY Zenon DEF StreamInit, first
<1>3. StreamTypeOK
  BY <1>1, <1>2, NewType DEF StreamInit, StreamTypeOK
<1>4. Numbered /\ NumberedOnce /\ Windowed /\ InOrderOnce
  BY DEF StreamInit, Numbered, NumberedOnce, Windowed, InOrderOnce
<1>5. QED
  BY <1>3, <1>4, Zenon DEF IInv

\* What a step that leaves endpoint[x] alone but for one member does to its type.
LEMMA NodeType ==
    ASSUME StreamTypeOK, NEW m \in Member, NEW nd, Running(nd),
           endpoint' = [endpoint EXCEPT ![m] = nd]
    PROVE  /\ endpoint' \in [Member -> GroupNodeType]
           /\ \A x \in Member : endpoint'[x].state \in {"Active", "Resyncing", "Failed"}
           /\ endpoint'[m] = nd
           /\ \A x \in Member \ {m} : endpoint'[x] = endpoint[x]
BY Zenon DEF StreamTypeOK, Running

------------------------------------------------------------------------------
(* One lemma per action *)

\* A step that moves no counter of a sender back within its epoch, transmits
\* nothing and numbers nothing keeps what the senders' half says.
LEMMA SendersKept ==
    ASSUME StreamTypeOK, Numbered, NumberedOnce, UNCHANGED <<transmitted, outbox, saved>>,
           \A x \in Member :
              \/ Epoch(x)' = Epoch(x) + 1
              \/ /\ Epoch(x)' = Epoch(x)
                 /\ endpoint'[x].out_seq \in [StreamType -> Nat]
                 /\ \A st \in StreamType : endpoint[x].out_seq[st] <= endpoint'[x].out_seq[st]
    PROVE  Numbered' /\ NumberedOnce'
<1>1. NumberedOnce'
  BY DEF NumberedOnce, SameNumber
<1>2. ASSUME NEW m \in Member, NEW f \in outbox[m]
      PROVE  /\ f.from = m /\ f.epoch <= Epoch(m)'
             /\ f.epoch = Epoch(m)' => f.seq <= endpoint'[m].out_seq[f.st]
  <2>1. f \in Frame /\ f.epoch \in Nat /\ f.seq \in Nat /\ f.st \in StreamType
    BY <1>2, TypeFacts, Zenon DEF Frame
  <2>2. Epoch(m) \in Nat /\ endpoint[m].out_seq[f.st] \in Nat
    BY <2>1, TypeFacts, Zenon
  <2>3. CASE Epoch(m)' = Epoch(m) + 1
    BY <1>2, <2>1, <2>2, <2>3 DEF Numbered
  <2>4. CASE Epoch(m)' # Epoch(m) + 1
    BY <1>2, <2>1, <2>2, <2>4 DEF Numbered
  <2>5. QED
    BY <2>3, <2>4, Zenon
<1>3. ASSUME NEW f \in transmitted
      PROVE  /\ f.epoch <= Epoch(f.from)'
             /\ f.epoch = Epoch(f.from)' =>
                  f.seq <= endpoint'[f.from].out_seq[f.st] /\ f.seq <= saved[f.from][f.st]
  <2>1. f.from \in Member /\ f.epoch \in Nat /\ f.seq \in Nat /\ f.st \in StreamType
    BY <1>3, TypeFacts, Zenon DEF Frame
  <2>2. Epoch(f.from) \in Nat /\ endpoint[f.from].out_seq[f.st] \in Nat
    BY <2>1, TypeFacts, Zenon
  <2>3. CASE Epoch(f.from)' = Epoch(f.from) + 1
    BY <1>3, <2>1, <2>2, <2>3 DEF Numbered
  <2>4. CASE Epoch(f.from)' # Epoch(f.from) + 1
    BY <1>3, <2>1, <2>2, <2>4 DEF Numbered
  <2>5. QED
    BY <2>3, <2>4, Zenon
<1>4. QED
  BY <1>1, <1>2, <1>3, Zenon DEF Numbered

\* A step that shows nothing and moves no window back within a life and an epoch
\* keeps what the receivers' half says.
LEMMA ReceiversKept ==
    ASSUME StreamTypeOK, Windowed, InOrderOnce, UNCHANGED got,
           \A x \in Member :
              \/ Epoch(x)' = Epoch(x) + 1 /\ life'[x] = life[x]
              \/ Epoch(x)' = Epoch(x) /\ life'[x] = life[x] + 1
              \/ /\ Epoch(x)' = Epoch(x) /\ life'[x] = life[x]
                 /\ \A st \in StreamType, y \in Member :
                       /\ endpoint'[x].in_hw[st][y] \in Nat
                       /\ endpoint[x].in_hw[st][y] <= endpoint'[x].in_hw[st][y]
    PROVE  Windowed' /\ InOrderOnce'
<1>1. InOrderOnce'
  BY DEF InOrderOnce, SameStream
<1>2. ASSUME NEW m \in Member, NEW i \in DOMAIN got[m]
      PROVE  /\ got[m][i].life <= life'[m] /\ got[m][i].epoch <= Epoch(m)'
             /\ got[m][i].life = life'[m] /\ got[m][i].epoch = Epoch(m)' =>
                  got[m][i].seq <= endpoint'[m].in_hw[got[m][i].st][got[m][i].from]
  <2> DEFINE r == got[m][i]
  <2>1. got[m][i] \in Receipt
    BY <1>2, TypeFacts
  <2>2. /\ r.life \in Nat /\ r.epoch \in Nat /\ r.seq \in Nat
        /\ r.st \in StreamType /\ r.from \in Member
    BY <2>1, TypeFacts, Zenon DEF Receipt
  <2>3. /\ Epoch(m) \in Nat /\ life[m] \in Nat
        /\ endpoint[m].in_hw[r.st][r.from] \in Nat
    <3>1. Epoch(m) \in Nat /\ life[m] \in Nat
      BY TypeFacts, Zenon
    <3>2. endpoint[m].in_hw[r.st][r.from] \in Nat
      BY <2>2, WindowsAreNumbers, Zenon
    <3>3. QED
      BY <3>1, <3>2, Zenon
  <2>4. /\ r.life <= life[m] /\ r.epoch <= Epoch(m)
        /\ r.life = life[m] /\ r.epoch = Epoch(m) =>
              r.seq <= endpoint[m].in_hw[r.st][r.from]
    BY <1>2, Zenon DEF Windowed
  <2> HIDE DEF r
  <2>5. /\ r.life <= life'[m] /\ r.epoch <= Epoch(m)'
        /\ r.life = life'[m] /\ r.epoch = Epoch(m)' =>
              r.seq <= endpoint'[m].in_hw[r.st][r.from]
    BY <2>2, <2>3, <2>4
  <2>6. QED
    BY <2>5, Zenon DEF r
<1>3. QED
  BY <1>1, <1>2, Zenon DEF Windowed

\* So does a step that moves neither epochs, lives nor windows.
LEMMA WindowsKept ==
    ASSUME Windowed, InOrderOnce, UNCHANGED got,
           \A x \in Member :
              /\ Epoch(x)' = Epoch(x) /\ life'[x] = life[x]
              /\ endpoint'[x].in_hw = endpoint[x].in_hw
    PROVE  Windowed' /\ InOrderOnce'
<1>1. InOrderOnce'
  BY DEF InOrderOnce, SameStream
<1>2. ASSUME NEW m \in Member, NEW i \in DOMAIN got[m]
      PROVE  /\ got[m][i].life <= life'[m] /\ got[m][i].epoch <= Epoch(m)'
             /\ got[m][i].life = life'[m] /\ got[m][i].epoch = Epoch(m)' =>
                  got[m][i].seq <= endpoint'[m].in_hw[got[m][i].st][got[m][i].from]
  <2>1. /\ got[m][i].life <= life[m] /\ got[m][i].epoch <= Epoch(m)
        /\ got[m][i].life = life[m] /\ got[m][i].epoch = Epoch(m) =>
              got[m][i].seq <= endpoint[m].in_hw[got[m][i].st][got[m][i].from]
    BY <1>2, Zenon DEF Windowed
  <2>2. /\ Epoch(m)' = Epoch(m) /\ life'[m] = life[m]
        /\ endpoint'[m].in_hw = endpoint[m].in_hw
    BY <1>2, Zenon
  <2>3. QED
    BY <2>1, <2>2, Zenon
<1>3. QED
  BY <1>1, <1>2, Zenon DEF Windowed

\* send_payload numbers a frame above every one of its stream and epoch.
LEMMA SendKeeps ==
    ASSUME IInv, NEW m \in Member, NEW st \in AppStreamType, NEW critical \in BOOLEAN,
           Send(m, st, critical)
    PROVE  IInv'
<1> DEFINE nd == SendPayload(endpoint[m], st)
           new == PayloadFrame(m, st, critical)
<1>1. StreamTypeOK /\ Numbered /\ NumberedOnce /\ Windowed /\ InOrderOnce
  BY Zenon DEF IInv
<1>2. /\ Running(endpoint[m]) /\ CanSend(endpoint[m]) /\ st \in StreamType
      /\ endpoint[m].out_seq \in [StreamType -> Nat] /\ Epoch(m) \in Nat
  BY <1>1, TypeFacts, Zenon DEF Send
<1>3. /\ Running(nd) /\ nd.current_epoch = Epoch(m) /\ nd.in_hw = endpoint[m].in_hw
      /\ nd.out_seq = [endpoint[m].out_seq EXCEPT ![st] = @ + 1]
  BY <1>2, SendEffect, Zenon DEF Epoch
<1>4. endpoint' = [endpoint EXCEPT ![m] = nd]
  BY Zenon DEF Send
<1> HIDE DEF nd
<1>5. /\ endpoint' \in [Member -> GroupNodeType]
      /\ \A x \in Member : endpoint'[x].state \in {"Active", "Resyncing", "Failed"}
      /\ endpoint'[m] = nd /\ \A x \in Member \ {m} : endpoint'[x] = endpoint[x]
  BY <1>1, <1>3, <1>4, NodeType, Zenon
<1>6. new \in Frame
  <2>1. endpoint[m].last_transition_id \in Nat /\ life[m] \in Nat
    BY <1>1, Zenon DEF StreamTypeOK, GroupNodeType
  <2>2. QED
    BY <1>2, <2>1 DEF PayloadFrame, Frame, Epoch
<1>7. /\ new.from = m /\ new.epoch = Epoch(m) /\ new.st = st
      /\ new.seq = endpoint[m].out_seq[st] + 1
  BY Zenon DEF PayloadFrame, Epoch
<1>8. outbox' = [outbox EXCEPT ![m] = @ \cup {new}] /\ UNCHANGED <<saved, transmitted, life, got>>
  BY Zenon DEF Send
<1> HIDE DEF new
<1>9. StreamTypeOK'
  BY <1>1, <1>5, <1>6, <1>8, Zenon DEF StreamTypeOK
<1>10. /\ outbox'[m] = outbox[m] \cup {new}
       /\ \A x \in Member \ {m} : outbox'[x] = outbox[x]
  BY <1>1, <1>8, Zenon DEF StreamTypeOK
<1>11. /\ \A x \in Member : Epoch(x)' = Epoch(x)
       /\ \A x \in Member : \A s \in StreamType :
             /\ endpoint[x].out_seq[s] \in Nat /\ endpoint'[x].out_seq[s] \in Nat
             /\ endpoint[x].out_seq[s] <= endpoint'[x].out_seq[s]
       /\ endpoint'[m].out_seq[st] = endpoint[m].out_seq[st] + 1
  <2>1. \A x \in Member : Epoch(x)' = Epoch(x)
    BY <1>3, <1>5, Zenon DEF Epoch
  <2>2. \A s \in StreamType :
          /\ endpoint[m].out_seq[s] \in Nat
          /\ nd.out_seq[s] = IF s = st THEN endpoint[m].out_seq[s] + 1 ELSE endpoint[m].out_seq[s]
    BY <1>2, <1>3, Zenon
  <2>3. \A x \in Member : \A s \in StreamType : endpoint[x].out_seq[s] \in Nat
    BY <1>1, TypeFacts, Zenon
  <2>4. QED
    BY <1>2, <1>5, <2>1, <2>2, <2>3
<1>12. ASSUME NEW f \in transmitted \cup outbox[m], f.from = m, f.st = st, f.epoch = Epoch(m)
       PROVE  f.seq \in Nat /\ f.seq <= endpoint[m].out_seq[st]
  <2>1. f \in Frame
    BY <1>1, TypeFacts, Zenon
  <2>2. QED
    BY <1>1, <1>12, <2>1, Zenon DEF Numbered, Frame
<1>13. NumberedOnce'
  <2> SUFFICES ASSUME NEW x \in Member, NEW f \in transmitted' \cup outbox'[x],
                      NEW g \in transmitted' \cup outbox'[x], SameNumber(f, g)
               PROVE  f = g
    BY Zenon DEF NumberedOnce, SameNumber
  <2>1. CASE x # m
    BY <1>1, <1>8, <1>10, <2>1, Zenon DEF NumberedOnce
  <2>2. CASE x = m
    <3>1. f \in transmitted \cup outbox[m] \cup {new} /\ g \in transmitted \cup outbox[m] \cup {new}
      BY <1>8, <1>10, <2>2, Zenon
    <3>2. CASE f # new /\ g # new
      BY <1>1, <3>1, <3>2, Zenon DEF NumberedOnce
    <3>3. CASE f = new /\ g # new
      BY <1>2, <1>7, <1>11, <1>12, <3>1, <3>3 DEF SameNumber
    <3>4. CASE f # new /\ g = new
      BY <1>2, <1>7, <1>11, <1>12, <3>1, <3>4 DEF SameNumber
    <3>5. QED
      BY <3>2, <3>3, <3>4, Zenon
  <2>3. QED
    BY <2>1, <2>2, Zenon
<1>14. Numbered'
  <2>1. ASSUME NEW x \in Member, NEW f \in outbox'[x]
        PROVE  /\ f.from = x /\ f.epoch <= Epoch(x)'
               /\ f.epoch = Epoch(x)' => f.seq <= endpoint'[x].out_seq[f.st]
    <3>1. CASE f \in outbox[x]
      <4>1. f \in Frame
        BY <1>1, <3>1, TypeFacts, Zenon
      <4>2. f.epoch \in Nat /\ f.seq \in Nat /\ f.st \in StreamType
        BY <1>1, <4>1, TypeFacts, Zenon DEF Frame
      <4>3. QED
        BY <1>1, <1>11, <3>1, <4>2 DEF Numbered
    <3>2. CASE f \notin outbox[x]
      <4>1. x = m /\ f = new
        BY <1>10, <2>1, <3>2, Zenon
      <4>2. QED
        BY <1>2, <1>7, <1>11, <4>1
    <3>3. QED
      BY <3>1, <3>2, Zenon
  <2>2. ASSUME NEW f \in transmitted
        PROVE  /\ f.epoch <= Epoch(f.from)'
               /\ f.epoch = Epoch(f.from)' =>
                    f.seq <= endpoint'[f.from].out_seq[f.st] /\ f.seq <= saved[f.from][f.st]
    <3>1. f \in Frame
      BY <1>1, <2>2, TypeFacts, Zenon
    <3>2. f.from \in Member /\ f.epoch \in Nat /\ f.seq \in Nat /\ f.st \in StreamType
      BY <1>1, <3>1, TypeFacts, Zenon DEF Frame
    <3>3. QED
      BY <1>1, <1>11, <2>2, <3>2 DEF Numbered
  <2>3. QED
    BY <1>8, <2>1, <2>2, Zenon DEF Numbered
<1>15. \A x \in Member :
          /\ Epoch(x)' = Epoch(x) /\ life'[x] = life[x]
          /\ endpoint'[x].in_hw = endpoint[x].in_hw
  BY <1>3, <1>5, <1>8, <1>11, Zenon
<1>16. Windowed' /\ InOrderOnce'
  BY <1>1, <1>8, <1>15, WindowsKept, Zenon
<1>17. QED
  BY <1>9, <1>13, <1>14, <1>16, Zenon DEF IInv

\* A number whose frame could not be sealed is skipped.
LEMMA SealFailsKeeps ==
    ASSUME IInv, NEW m \in Member, NEW st \in AppStreamType, SealFails(m, st)
    PROVE  IInv'
<1> DEFINE nd == SendPayload(endpoint[m], st)
<1>1. StreamTypeOK /\ Numbered /\ NumberedOnce /\ Windowed /\ InOrderOnce
  BY Zenon DEF IInv
<1>2. /\ Running(endpoint[m]) /\ CanSend(endpoint[m]) /\ st \in StreamType
      /\ endpoint[m].out_seq \in [StreamType -> Nat]
  BY <1>1, TypeFacts, Zenon DEF SealFails
<1>3. /\ Running(nd) /\ nd.current_epoch = Epoch(m) /\ nd.in_hw = endpoint[m].in_hw
      /\ nd.out_seq = [endpoint[m].out_seq EXCEPT ![st] = @ + 1]
  BY <1>2, SendEffect, Zenon DEF Epoch
<1>4. endpoint' = [endpoint EXCEPT ![m] = nd] /\ UNCHANGED <<outbox, saved, transmitted, life, got>>
  BY Zenon DEF SealFails
<1> HIDE DEF nd
<1>5. /\ endpoint' \in [Member -> GroupNodeType]
      /\ \A x \in Member : endpoint'[x].state \in {"Active", "Resyncing", "Failed"}
      /\ endpoint'[m] = nd /\ \A x \in Member \ {m} : endpoint'[x] = endpoint[x]
  BY <1>1, <1>3, <1>4, NodeType, Zenon
<1>6. StreamTypeOK'
  BY <1>1, <1>4, <1>5, Zenon DEF StreamTypeOK
<1>7. \A s \in StreamType : nd.out_seq[s] \in Nat /\ endpoint[m].out_seq[s] <= nd.out_seq[s]
  BY <1>2, <1>3
<1>8. nd.out_seq \in [StreamType -> Nat]
  BY <1>2, <1>3
<1>9. \A x \in Member :
         /\ Epoch(x)' = Epoch(x) /\ life'[x] = life[x] /\ endpoint'[x].in_hw = endpoint[x].in_hw
         /\ endpoint'[x].out_seq \in [StreamType -> Nat]
         /\ \A s \in StreamType : endpoint[x].out_seq[s] <= endpoint'[x].out_seq[s]
  <2>1. \A s \in StreamType, x \in Member : endpoint[x].out_seq[s] \in Nat
    BY <1>1, TypeFacts, Zenon
  <2>2. \A x \in Member : endpoint[x].out_seq \in [StreamType -> Nat]
    BY <1>1, TypeFacts, Zenon
  <2>3. QED
    BY <1>3, <1>4, <1>5, <1>7, <1>8, <2>1, <2>2 DEF Epoch
<1>10. Numbered' /\ NumberedOnce'
  BY <1>1, <1>4, <1>9, SendersKept, Zenon
<1>11. Windowed' /\ InOrderOnce'
  BY <1>1, <1>4, <1>9, WindowsKept, Zenon
<1>12. QED
  BY <1>6, <1>10, <1>11, Zenon DEF IInv

\* The saved counters are the present ones: above all that was transmitted.
LEMMA SaveKeeps ==
    ASSUME IInv, NEW m \in Member, Save(m)
    PROVE  IInv'
<1>1. StreamTypeOK /\ Numbered /\ NumberedOnce /\ Windowed /\ InOrderOnce
  BY Zenon DEF IInv
<1>2. /\ saved' = [saved EXCEPT ![m] = endpoint[m].out_seq]
      /\ UNCHANGED <<endpoint, outbox, transmitted, life, got>>
  BY Zenon DEF Save, ExportOutSeq
<1>3. endpoint[m].out_seq \in [StreamType -> Nat]
  BY <1>1, TypeFacts, Zenon
<1>4. StreamTypeOK'
  BY <1>1, <1>2, <1>3, Zenon DEF StreamTypeOK
<1>5. \A x \in Member : saved'[x] = IF x = m THEN endpoint[m].out_seq ELSE saved[x]
  BY <1>1, <1>2, Zenon DEF StreamTypeOK
<1>6. \A f \in transmitted : f.from \in Member
  BY <1>1, TypeFacts, Zenon DEF Frame
<1>7. Numbered'
  BY <1>1, <1>2, <1>5, <1>6 DEF Numbered, Epoch
<1>8. NumberedOnce'
  BY <1>1, <1>2 DEF NumberedOnce, SameNumber
<1>9. Windowed' /\ InOrderOnce'
  <2>1. \A x \in Member :
           /\ Epoch(x)' = Epoch(x) /\ life'[x] = life[x]
           /\ endpoint'[x].in_hw = endpoint[x].in_hw
    BY <1>2, Zenon DEF Epoch
  <2>2. QED
    BY <1>1, <1>2, <2>1, WindowsKept, Zenon
<1>10. QED
  BY <1>4, <1>7, <1>8, <1>9, Zenon DEF IInv

\* A frame goes out only when the saved counter covers its number.
LEMMA TransmitKeeps ==
    ASSUME IInv, NEW m \in Member, NEW f \in outbox[m], Transmit(m, f)
    PROVE  IInv'
<1>1. StreamTypeOK /\ Numbered /\ NumberedOnce /\ Windowed /\ InOrderOnce
  BY Zenon DEF IInv
<1>2. /\ saved[m][f.st] >= f.seq
      /\ outbox' = [outbox EXCEPT ![m] = @ \ {f}] /\ transmitted' = transmitted \cup {f}
      /\ UNCHANGED <<endpoint, saved, life, got>>
  BY Zenon DEF Transmit
<1>3. /\ outbox'[m] = outbox[m] \ {f}
      /\ \A x \in Member \ {m} : outbox'[x] = outbox[x]
  BY <1>1, <1>2, Zenon DEF StreamTypeOK
<1>4. f \in Frame
  BY <1>1, TypeFacts, Zenon
<1>5. StreamTypeOK'
  BY <1>1, <1>2, <1>4, Zenon DEF StreamTypeOK
<1>6. f.from = m /\ f.seq \in Nat /\ f.st \in StreamType /\ saved[m][f.st] \in Nat
  BY <1>1, <1>4, TypeFacts DEF Numbered, Frame
<1>7. Numbered'
  <2>1. /\ f.epoch <= Epoch(f.from)
        /\ f.epoch = Epoch(f.from) =>
              f.seq <= endpoint[f.from].out_seq[f.st] /\ f.seq <= saved[f.from][f.st]
    BY <1>1, <1>2, <1>6, Zenon DEF Numbered
  <2>2. \A g \in transmitted' : g \in transmitted \/ g = f
    BY <1>2, Zenon
  <2>3. \A x \in Member : outbox'[x] \subseteq outbox[x]
    BY <1>3, Zenon
  <2>4. QED
    BY <1>1, <1>2, <2>1, <2>2, <2>3, Zenon DEF Numbered, Epoch
<1>8. NumberedOnce'
  <2> SUFFICES ASSUME NEW x \in Member, NEW g \in transmitted' \cup outbox'[x],
                      NEW h \in transmitted' \cup outbox'[x], SameNumber(g, h)
               PROVE  g = h
    BY Zenon DEF NumberedOnce, SameNumber
  <2>1. CASE x = m
    BY <1>1, <1>2, <1>3, <2>1, Zenon DEF NumberedOnce
  <2>2. CASE x # m
    <3>1. g \in transmitted \cup outbox[x] \cup {f} /\ h \in transmitted \cup outbox[x] \cup {f}
      BY <1>2, <1>3, <2>2, Zenon
    <3>2. \A y \in outbox[x] : y.from # m
      BY <1>1, <2>2, Zenon DEF Numbered
    <3>3. CASE g \in transmitted \cup {f} /\ h \in transmitted \cup {f}
      BY <1>1, <3>3, Zenon DEF NumberedOnce
    <3>4. CASE g # f /\ h # f
      BY <1>1, <3>1, <3>4, Zenon DEF NumberedOnce
    <3>5. QED
      BY <1>6, <3>1, <3>2, <3>3, <3>4, Zenon DEF SameNumber
  <2>3. QED
    BY <2>1, <2>2, Zenon
<1>9. Windowed' /\ InOrderOnce'
  <2>1. \A x \in Member :
           /\ Epoch(x)' = Epoch(x) /\ life'[x] = life[x]
           /\ endpoint'[x].in_hw = endpoint[x].in_hw
    BY <1>2, Zenon DEF Epoch
  <2>2. QED
    BY <1>1, <1>2, <2>1, WindowsKept, Zenon
<1>10. QED
  BY <1>5, <1>7, <1>8, <1>9, Zenon DEF IInv

\* A frame that passes the checks has moved its window up, delivered or not.
LEMMA RecordKeeps ==
    ASSUME IInv, NEW m \in Member, NEW f \in transmitted, Passes(endpoint[m], f),
           endpoint' = [endpoint EXCEPT ![m] = Record(@, f.st, f.from, f.seq)],
           UNCHANGED <<outbox, saved, transmitted, life>>
    PROVE  /\ endpoint' \in [Member -> GroupNodeType]
           /\ \A x \in Member : endpoint'[x].state \in {"Active", "Resyncing", "Failed"}
           /\ Numbered' /\ NumberedOnce'
           /\ \A x \in Member : Epoch(x)' = Epoch(x)
           /\ endpoint'[m].in_hw[f.st][f.from] = f.seq
           /\ \A x \in Member, st \in StreamType, y \in Member :
                 /\ endpoint'[x].in_hw[st][y] \in Nat
                 /\ endpoint[x].in_hw[st][y] <= endpoint'[x].in_hw[st][y]
<1> DEFINE nd == Record(endpoint[m], f.st, f.from, f.seq)
<1>1. StreamTypeOK /\ Numbered /\ NumberedOnce
  BY Zenon DEF IInv
<1>2. f \in Frame
  BY <1>1, TypeFacts, Zenon
<1>3. f.st \in StreamType /\ f.from \in Member /\ f.seq \in Nat
  BY <1>1, <1>2, TypeFacts, Zenon DEF Frame
<1>4. Running(endpoint[m]) /\ endpoint[m].in_hw \in [StreamType -> [Member -> Nat]]
  BY <1>1, TypeFacts, Zenon
<1>5. /\ Running(nd) /\ nd.current_epoch = Epoch(m) /\ nd.out_seq = endpoint[m].out_seq
      /\ nd.in_hw = [endpoint[m].in_hw EXCEPT
                       ![f.st] = [endpoint[m].in_hw[f.st] EXCEPT ![f.from] = f.seq]]
  <2>1. \A n : Running(n) =>
           /\ Running(Record(n, f.st, f.from, f.seq))
           /\ Record(n, f.st, f.from, f.seq).current_epoch = n.current_epoch
           /\ Record(n, f.st, f.from, f.seq).out_seq = n.out_seq
           /\ Record(n, f.st, f.from, f.seq).in_hw =
                 [n.in_hw EXCEPT ![f.st] = [n.in_hw[f.st] EXCEPT ![f.from] = f.seq]]
    BY <1>3, RecordsEffect
  <2>2. QED
    BY <1>4, <2>1, Zenon DEF Epoch
<1>6. endpoint' = [endpoint EXCEPT ![m] = nd]
  OBVIOUS
<1> HIDE DEF nd
<1>7. /\ endpoint' \in [Member -> GroupNodeType]
      /\ \A x \in Member : endpoint'[x].state \in {"Active", "Resyncing", "Failed"}
      /\ endpoint'[m] = nd /\ \A x \in Member \ {m} : endpoint'[x] = endpoint[x]
  BY <1>1, <1>5, <1>6, NodeType, Zenon
<1>8. \A x \in Member :
         /\ Epoch(x)' = Epoch(x) /\ endpoint'[x].out_seq = endpoint[x].out_seq
         /\ endpoint[x].out_seq \in [StreamType -> Nat]
         /\ \A st \in StreamType : endpoint[x].out_seq[st] \in Nat
  BY <1>1, <1>5, <1>7, TypeFacts DEF Epoch
<1>9. Numbered' /\ NumberedOnce'
  BY <1>1, <1>8, SendersKept
<1>10. f.seq > endpoint[m].in_hw[f.st][f.from]
  BY Zenon DEF Passes, Fresh
<1>11. \A st \in StreamType, y \in Member :
          /\ nd.in_hw[st][y] \in Nat /\ endpoint[m].in_hw[st][y] <= nd.in_hw[st][y]
  <2> TAKE st \in StreamType, y \in Member
  <2>1. endpoint[m].in_hw[st] \in [Member -> Nat] /\ endpoint[m].in_hw[st][y] \in Nat
    BY <1>4, Zenon
  <2>2. CASE st = f.st /\ y = f.from
    <3>1. nd.in_hw[st] = [endpoint[m].in_hw[st] EXCEPT ![y] = f.seq]
      BY <1>3, <1>4, <1>5, <2>2, Zenon
    <3>2. nd.in_hw[st][y] = f.seq
      BY <2>1, <3>1, Zenon
    <3>3. QED
      BY <1>3, <1>10, <2>1, <2>2, <3>2, AboveIsAtLeast, Zenon
  <2>3. CASE ~ (st = f.st /\ y = f.from)
    <3>1. nd.in_hw[st][y] = endpoint[m].in_hw[st][y]
      <4>1. CASE st = f.st
        BY <1>3, <1>4, <1>5, <2>1, <2>3, <4>1, Zenon
      <4>2. CASE st # f.st
        BY <1>3, <1>4, <1>5, <4>2, Zenon
      <4>3. QED
        BY <4>1, <4>2, Zenon
    <3>2. QED
      BY <2>1, <3>1
  <2>4. QED
    BY <2>2, <2>3, Zenon
<1>12. nd.in_hw[f.st][f.from] = f.seq
  BY <1>3, <1>4, <1>5
<1>13. \A x \in Member, st \in StreamType, y \in Member : endpoint[x].in_hw[st][y] \in Nat
  BY <1>1, WindowsAreNumbers, Zenon
<1>14. \A x \in Member, st \in StreamType, y \in Member :
          /\ endpoint'[x].in_hw[st][y] \in Nat
          /\ endpoint[x].in_hw[st][y] <= endpoint'[x].in_hw[st][y]
  <2> TAKE x \in Member, st \in StreamType, y \in Member
  <2>1. CASE x = m
    BY <1>7, <1>11, <2>1, Zenon
  <2>2. CASE x # m
    <3>1. endpoint'[x] = endpoint[x]
      BY <1>7, <2>2, Zenon
    <3>2. endpoint[x].in_hw[st][y] \in Nat
      BY <1>13, Zenon
    <3>3. QED
      BY <3>1, <3>2
  <2>3. QED
    BY <2>1, <2>2, Zenon
<1>15. \A x \in Member : Epoch(x)' = Epoch(x)
  BY <1>8, Zenon
<1>16. endpoint'[m].in_hw[f.st][f.from] = f.seq
  BY <1>7, <1>12, Zenon
<1>17. QED
  BY <1>7, <1>9, <1>14, <1>15, <1>16, Zenon

\* What is shown is above all that was shown of its stream.
LEMMA DeliverKeeps ==
    ASSUME IInv, NEW m \in Member, NEW f \in transmitted, Deliver(m, f)
    PROVE  IInv'
<1> DEFINE r == [life |-> life[m], epoch |-> f.epoch, st |-> f.st, from |-> f.from,
                 seq |-> f.seq]
<1>1. StreamTypeOK /\ Windowed /\ InOrderOnce
  BY Zenon DEF IInv
<1>2. /\ Passes(endpoint[m], f)
      /\ endpoint' = [endpoint EXCEPT ![m] = Record(@, f.st, f.from, f.seq)]
      /\ got' = [got EXCEPT ![m] = Append(@, r)]
      /\ UNCHANGED <<outbox, saved, transmitted, life>>
  BY Zenon DEF Deliver
<1>3. /\ endpoint' \in [Member -> GroupNodeType]
      /\ \A x \in Member : endpoint'[x].state \in {"Active", "Resyncing", "Failed"}
      /\ Numbered' /\ NumberedOnce'
      /\ \A x \in Member : Epoch(x)' = Epoch(x)
      /\ endpoint'[m].in_hw[f.st][f.from] = f.seq
      /\ \A x \in Member, st \in StreamType, y \in Member :
            /\ endpoint'[x].in_hw[st][y] \in Nat
            /\ endpoint[x].in_hw[st][y] <= endpoint'[x].in_hw[st][y]
  BY <1>2, RecordKeeps, Zenon
<1>4. f \in Frame
  BY <1>1, TypeFacts, Zenon
<1>5. /\ f.st \in AppStreamType /\ f.st \in StreamType /\ f.from \in Member
      /\ f.seq \in Nat /\ f.epoch \in Nat
  BY <1>1, <1>4, TypeFacts, Zenon DEF Frame
<1>6. f.epoch = Epoch(m) /\ f.seq > endpoint[m].in_hw[f.st][f.from]
  BY <1>2, Zenon DEF Passes, Fresh, Epoch
<1>7. life[m] \in Nat /\ Epoch(m) \in Nat /\ got[m] \in Seq(Receipt)
      /\ endpoint[m].in_hw[f.st][f.from] \in Nat
  BY <1>1, <1>5, TypeFacts
<1>8. /\ r \in Receipt /\ r.life = life[m] /\ r.epoch = f.epoch /\ r.st = f.st
      /\ r.from = f.from /\ r.seq = f.seq
  BY <1>5, <1>7, Zenon DEF Receipt
<1> HIDE DEF r
<1>9. /\ Append(got[m], r) \in Seq(Receipt)
      /\ DOMAIN got[m] = 1 .. Len(got[m]) /\ Len(got[m]) \in Nat
      /\ DOMAIN Append(got[m], r) = 1 .. Len(got[m]) + 1
      /\ \A i \in 1 .. Len(got[m]) : Append(got[m], r)[i] = got[m][i]
      /\ Append(got[m], r)[Len(got[m]) + 1] = r
  BY <1>7, <1>8
<1>10. /\ got'[m] = Append(got[m], r)
       /\ \A x \in Member \ {m} : got'[x] = got[x]
  BY <1>1, <1>2, Zenon DEF StreamTypeOK
<1>11. StreamTypeOK'
  BY <1>1, <1>2, <1>3, <1>9, Zenon DEF StreamTypeOK
<1>12. \A x \in Member : \A i \in DOMAIN got[x] :
          /\ got[x][i].life <= life'[x] /\ got[x][i].epoch <= Epoch(x)'
          /\ got[x][i].life = life'[x] /\ got[x][i].epoch = Epoch(x)' =>
                got[x][i].seq <= endpoint'[x].in_hw[got[x][i].st][got[x][i].from]
  <2> TAKE x \in Member
  <2> TAKE i \in DOMAIN got[x]
  <2> DEFINE q == got[x][i]
  <2>1. q \in Receipt
    BY <1>1, TypeFacts
  <2>2. q.seq \in Nat /\ q.st \in StreamType /\ q.from \in Member
    BY <1>1, <2>1, TypeFacts, Zenon DEF Receipt
  <2>3. /\ q.life <= life[x] /\ q.epoch <= Epoch(x)
        /\ q.life = life[x] /\ q.epoch = Epoch(x) => q.seq <= endpoint[x].in_hw[q.st][q.from]
    BY <1>1, Zenon DEF Windowed
  <2>4. endpoint[x].in_hw[q.st][q.from] \in Nat
    BY <1>1, <2>2, WindowsAreNumbers, Zenon
  <2> HIDE DEF q
  <2>5. /\ q.life <= life'[x] /\ q.epoch <= Epoch(x)'
        /\ q.life = life'[x] /\ q.epoch = Epoch(x)' =>
              q.seq <= endpoint'[x].in_hw[q.st][q.from]
    <3>1. life'[x] = life[x] /\ Epoch(x)' = Epoch(x)
      BY <1>2, <1>3, Zenon
    <3>2. /\ endpoint'[x].in_hw[q.st][q.from] \in Nat
          /\ endpoint[x].in_hw[q.st][q.from] <= endpoint'[x].in_hw[q.st][q.from]
      BY <1>3, <2>2, Zenon
    <3>3. QED
      BY <2>2, <2>3, <2>4, <3>1, <3>2, Transitive, Zenon
  <2>6. QED
    BY <2>5, Zenon DEF q
<1>13. Windowed'
  <2> SUFFICES ASSUME NEW x \in Member, NEW i \in DOMAIN got'[x]
               PROVE  /\ got'[x][i].life <= life'[x] /\ got'[x][i].epoch <= Epoch(x)'
                      /\ got'[x][i].life = life'[x] /\ got'[x][i].epoch = Epoch(x)' =>
                           got'[x][i].seq
                             <= endpoint'[x].in_hw[got'[x][i].st][got'[x][i].from]
    BY Zenon DEF Windowed
  <2>1. CASE x = m /\ i = Len(got[m]) + 1
    <3>1. got'[m][i] = r
      BY <1>9, <1>10, <2>1, Zenon
    <3>2. life'[m] = life[m] /\ Epoch(m)' = Epoch(m) /\ r.epoch = Epoch(m)
      BY <1>2, <1>3, <1>6, <1>8, Zenon
    <3>3. r.seq <= endpoint'[m].in_hw[r.st][r.from]
      BY <1>3, <1>5, <1>8
    <3>4. QED
      BY <1>7, <1>8, <2>1, <3>1, <3>2, <3>3
  <2>2. CASE ~ (x = m /\ i = Len(got[m]) + 1)
    <3>1. CASE x = m
      <4>1. i \in DOMAIN got[m] /\ got'[m][i] = got[m][i]
        BY <1>9, <1>10, <2>2, <3>1
      <4>2. QED
        BY <1>12, <3>1, <4>1, Zenon
    <3>2. CASE x # m
      BY <1>10, <1>12, <3>2, Zenon
    <3>3. QED
      BY <3>1, <3>2, Zenon
  <2>3. QED
    BY <2>1, <2>2, Zenon
<1>14. InOrderOnce'
  <2> SUFFICES ASSUME NEW x \in Member, NEW i \in DOMAIN got'[x], NEW j \in DOMAIN got'[x],
                      i < j, SameStream(got'[x][i], got'[x][j])
               PROVE  got'[x][i].seq < got'[x][j].seq
    BY Zenon DEF InOrderOnce, SameStream
  <2>1. CASE x = m /\ j = Len(got[m]) + 1
    <3>1. i \in DOMAIN got[m] /\ got'[m][i] = got[m][i] /\ got'[m][j] = r
      BY <1>9, <1>10, <2>1
    <3>2. got[m][i] \in Receipt
      BY <1>7, <3>1
    <3>3. got[m][i].seq \in Nat
      BY <3>2, Zenon DEF Receipt
    <3>4. /\ got[m][i].life = life[m] /\ got[m][i].epoch = Epoch(m)
          /\ got[m][i].st = f.st /\ got[m][i].from = f.from
      BY <1>6, <1>8, <2>1, <3>1, Zenon DEF SameStream
    <3>5. got[m][i].seq <= endpoint[m].in_hw[f.st][f.from]
      BY <1>1, <3>1, <3>4, Zenon DEF Windowed
    <3>6. QED
      BY <1>5, <1>6, <1>7, <1>8, <2>1, <3>1, <3>3, <3>5
  <2>2. CASE ~ (x = m /\ j = Len(got[m]) + 1)
    <3>1. /\ i \in DOMAIN got[x] /\ j \in DOMAIN got[x]
          /\ got'[x][i] = got[x][i] /\ got'[x][j] = got[x][j]
      <4>1. CASE x = m
        <5>1. i \in 1 .. Len(got[m]) + 1 /\ j \in 1 .. Len(got[m]) + 1
          BY <1>9, <1>10, <4>1, Zenon
        <5>2. j # Len(got[m]) + 1 /\ Len(got[m]) \in Nat
          BY <1>9, <2>2, <4>1, Zenon
        <5>3. i \in 1 .. Len(got[m]) /\ j \in 1 .. Len(got[m])
          BY <5>1, <5>2
        <5>4. Append(got[m], r)[i] = got[m][i] /\ Append(got[m], r)[j] = got[m][j]
          BY <1>9, <5>3, Zenon
        <5>5. QED
          BY <1>9, <1>10, <4>1, <5>3, <5>4, Zenon
      <4>2. CASE x # m
        BY <1>10, <4>2, Zenon
      <4>3. QED
        BY <4>1, <4>2, Zenon
    <3>2. QED
      BY <1>1, <3>1, Zenon DEF InOrderOnce
  <2>3. QED
    BY <2>1, <2>2, Zenon
<1>15. QED
  BY <1>3, <1>11, <1>13, <1>14, Zenon DEF IInv

\* A frame that does not open has moved its window all the same.
LEMMA OpenFailsKeeps ==
    ASSUME IInv, NEW m \in Member, NEW f \in transmitted, OpenFails(m, f)
    PROVE  IInv'
<1>1. StreamTypeOK /\ Windowed /\ InOrderOnce
  BY Zenon DEF IInv
<1>2. /\ Passes(endpoint[m], f)
      /\ endpoint' = [endpoint EXCEPT ![m] = Record(@, f.st, f.from, f.seq)]
      /\ UNCHANGED <<outbox, saved, transmitted, life, got>>
  BY Zenon DEF OpenFails
<1>3. /\ endpoint' \in [Member -> GroupNodeType]
      /\ \A x \in Member : endpoint'[x].state \in {"Active", "Resyncing", "Failed"}
      /\ Numbered' /\ NumberedOnce'
      /\ \A x \in Member : Epoch(x)' = Epoch(x)
      /\ \A x \in Member, st \in StreamType, y \in Member :
            /\ endpoint'[x].in_hw[st][y] \in Nat
            /\ endpoint[x].in_hw[st][y] <= endpoint'[x].in_hw[st][y]
  BY <1>2, RecordKeeps, Zenon
<1>4. StreamTypeOK'
  BY <1>1, <1>2, <1>3, Zenon DEF StreamTypeOK
<1>5. Windowed' /\ InOrderOnce'
  BY <1>1, <1>2, <1>3, ReceiversKept, Zenon
<1>6. QED
  BY <1>3, <1>4, <1>5, Zenon DEF IInv

\* A frame of another epoch changes the state of the node only.
LEMMA EpochMismatchKeeps ==
    ASSUME IInv, NEW m \in Member, NEW f \in transmitted, EpochMismatch(m, f)
    PROVE  IInv'
<1> DEFINE nd == TriggerResync(endpoint[m])
<1>1. StreamTypeOK /\ Numbered /\ NumberedOnce /\ Windowed /\ InOrderOnce
  BY Zenon DEF IInv
<1>2. Running(endpoint[m])
  BY <1>1, TypeFacts, Zenon
<1>3. /\ Running(nd) /\ nd.current_epoch = Epoch(m) /\ nd.out_seq = endpoint[m].out_seq
      /\ nd.in_hw = endpoint[m].in_hw
  BY <1>2, ResyncEffect, Zenon DEF Epoch
<1>4. endpoint' = [endpoint EXCEPT ![m] = nd] /\ UNCHANGED <<outbox, saved, transmitted, life, got>>
  BY Zenon DEF EpochMismatch
<1> HIDE DEF nd
<1>5. /\ endpoint' \in [Member -> GroupNodeType]
      /\ \A x \in Member : endpoint'[x].state \in {"Active", "Resyncing", "Failed"}
      /\ endpoint'[m] = nd /\ \A x \in Member \ {m} : endpoint'[x] = endpoint[x]
  BY <1>1, <1>3, <1>4, NodeType, Zenon
<1>6. StreamTypeOK'
  BY <1>1, <1>4, <1>5, Zenon DEF StreamTypeOK
<1>7. \A x \in Member :
         /\ Epoch(x)' = Epoch(x) /\ endpoint'[x].out_seq = endpoint[x].out_seq
         /\ endpoint'[x].in_hw = endpoint[x].in_hw
         /\ endpoint[x].out_seq \in [StreamType -> Nat]
         /\ \A st \in StreamType : endpoint[x].out_seq[st] \in Nat
  BY <1>1, <1>3, <1>5, TypeFacts, Zenon DEF Epoch
<1>8. Numbered' /\ NumberedOnce'
  BY <1>1, <1>4, <1>7, SendersKept
<1>9. Windowed' /\ InOrderOnce'
  <2>1. \A x \in Member : life'[x] = life[x]
    BY <1>4, Zenon
  <2>2. QED
    BY <1>1, <1>4, <1>7, <2>1, WindowsKept, Zenon
<1>10. QED
  BY <1>6, <1>8, <1>9, Zenon DEF IInv

\* In a new epoch nothing was numbered and nothing shown yet.
LEMMA AdvanceKeeps ==
    ASSUME IInv, NEW m \in Member, Advance(m)
    PROVE  IInv'
<1> DEFINE nd == ApplyTransition(endpoint[m], endpoint[m].current_epoch)
<1>1. StreamTypeOK /\ Numbered /\ NumberedOnce /\ Windowed /\ InOrderOnce
  BY Zenon DEF IInv
<1>2. Running(endpoint[m])
  BY <1>1, TypeFacts, Zenon
<1>3. Running(nd) /\ nd.current_epoch = Epoch(m) + 1
  BY <1>2, AdvanceEffect, Zenon DEF Epoch
<1>4. endpoint' = [endpoint EXCEPT ![m] = nd] /\ UNCHANGED <<outbox, saved, transmitted, life, got>>
  BY Zenon DEF Advance
<1> HIDE DEF nd
<1>5. /\ endpoint' \in [Member -> GroupNodeType]
      /\ \A x \in Member : endpoint'[x].state \in {"Active", "Resyncing", "Failed"}
      /\ endpoint'[m] = nd /\ \A x \in Member \ {m} : endpoint'[x] = endpoint[x]
  BY <1>1, <1>3, <1>4, NodeType, Zenon
<1>6. StreamTypeOK'
  BY <1>1, <1>4, <1>5, Zenon DEF StreamTypeOK
<1>7. /\ Epoch(m)' = Epoch(m) + 1 /\ life' = life
      /\ \A x \in Member \ {m} : Epoch(x)' = Epoch(x)
  BY <1>3, <1>4, <1>5, Zenon DEF Epoch
<1>8. \A x \in Member :
         /\ endpoint[x].out_seq \in [StreamType -> Nat]
         /\ \A st \in StreamType : endpoint[x].out_seq[st] \in Nat
         /\ \A st \in StreamType, y \in Member : endpoint[x].in_hw[st][y] \in Nat
  BY <1>1, TypeFacts
<1>9. Numbered' /\ NumberedOnce'
  <2>1. \A x \in Member :
           \/ Epoch(x)' = Epoch(x) + 1
           \/ /\ Epoch(x)' = Epoch(x)
              /\ endpoint'[x].out_seq \in [StreamType -> Nat]
              /\ \A st \in StreamType : endpoint[x].out_seq[st] <= endpoint'[x].out_seq[st]
    BY <1>5, <1>7, <1>8
  <2>2. QED
    BY <1>1, <1>4, <2>1, SendersKept, Zenon
<1>10. Windowed' /\ InOrderOnce'
  <2>1. \A x \in Member :
           \/ Epoch(x)' = Epoch(x) + 1 /\ life'[x] = life[x]
           \/ /\ Epoch(x)' = Epoch(x) /\ life'[x] = life[x]
              /\ \A st \in StreamType, y \in Member :
                    /\ endpoint'[x].in_hw[st][y] \in Nat
                    /\ endpoint[x].in_hw[st][y] <= endpoint'[x].in_hw[st][y]
    BY <1>5, <1>7, <1>8
  <2>2. QED
    BY <1>1, <1>4, <2>1, ReceiversKept, Zenon
<1>11. QED
  BY <1>6, <1>9, <1>10, Zenon DEF IInv

\* A rebuilt node numbers on from the saved counters and begins a new life; the
\* frames that were still waiting are gone.
LEMMA RestartKeeps ==
    ASSUME IInv, NEW m \in Member, Restart(m)
    PROVE  IInv'
<1> DEFINE nd == RebuiltNode(endpoint[m], saved[m])
<1>1. StreamTypeOK /\ Numbered /\ NumberedOnce /\ Windowed /\ InOrderOnce
  BY Zenon DEF IInv
<1>2. Running(endpoint[m]) /\ saved[m] \in [StreamType -> Nat] /\ life[m] \in Nat
  BY <1>1, TypeFacts, Zenon
<1>3. Running(nd) /\ nd.current_epoch = Epoch(m) /\ nd.out_seq = saved[m]
  BY <1>2, RebuiltEffect, Zenon DEF Epoch
<1>4. /\ endpoint' = [endpoint EXCEPT ![m] = nd] /\ outbox' = [outbox EXCEPT ![m] = {}]
      /\ life' = [life EXCEPT ![m] = @ + 1] /\ UNCHANGED <<saved, transmitted, got>>
  BY Zenon DEF Restart
<1> HIDE DEF nd
<1>5. /\ endpoint' \in [Member -> GroupNodeType]
      /\ \A x \in Member : endpoint'[x].state \in {"Active", "Resyncing", "Failed"}
      /\ endpoint'[m] = nd /\ \A x \in Member \ {m} : endpoint'[x] = endpoint[x]
  BY <1>1, <1>3, <1>4, NodeType, Zenon
<1>6. StreamTypeOK'
  BY <1>1, <1>2, <1>4, <1>5 DEF StreamTypeOK
<1>7. /\ \A x \in Member : Epoch(x)' = Epoch(x)
      /\ life'[m] = life[m] + 1 /\ \A x \in Member \ {m} : life'[x] = life[x]
      /\ outbox'[m] = {} /\ \A x \in Member \ {m} : outbox'[x] = outbox[x]
  BY <1>1, <1>3, <1>4, <1>5, Zenon DEF Epoch, StreamTypeOK
<1>8. Numbered'
  <2>1. \A x \in Member : \A f \in outbox'[x] :
          /\ f.from = x /\ f.epoch <= Epoch(x)'
          /\ f.epoch = Epoch(x)' => f.seq <= endpoint'[x].out_seq[f.st]
    BY <1>1, <1>5, <1>7 DEF Numbered
  <2>2. \A f \in transmitted : f.from \in Member
    BY <1>1, TypeFacts, Zenon DEF Frame
  <2>3. \A f \in transmitted' :
          /\ f.epoch <= Epoch(f.from)'
          /\ f.epoch = Epoch(f.from)' =>
                f.seq <= endpoint'[f.from].out_seq[f.st] /\ f.seq <= saved'[f.from][f.st]
    <3> TAKE f \in transmitted'
    <3>1. /\ f.from \in Member /\ f.epoch <= Epoch(f.from)
          /\ f.epoch = Epoch(f.from) =>
                f.seq <= endpoint[f.from].out_seq[f.st] /\ f.seq <= saved[f.from][f.st]
      BY <1>1, <1>4, <2>2, Zenon DEF Numbered
    <3>2. CASE f.from = m
      BY <1>3, <1>4, <1>5, <1>7, <3>1, <3>2, Zenon
    <3>3. CASE f.from # m
      BY <1>4, <1>5, <1>7, <3>1, <3>3, Zenon
    <3>4. QED
      BY <3>2, <3>3, Zenon
  <2>4. QED
    BY <2>1, <2>3, Zenon DEF Numbered
<1>9. NumberedOnce'
  <2>1. \A x \in Member : transmitted' \cup outbox'[x] \subseteq transmitted \cup outbox[x]
    BY <1>4, <1>7, Zenon
  <2>2. QED
    BY <1>1, <2>1, Zenon DEF NumberedOnce, SameNumber
<1>10. Windowed' /\ InOrderOnce'
  <2>1. \A x \in Member : \A st \in StreamType, y \in Member :
          endpoint[x].in_hw[st][y] \in Nat
    BY <1>1, TypeFacts
  <2>2. \A x \in Member :
           \/ Epoch(x)' = Epoch(x) /\ life'[x] = life[x] + 1
           \/ /\ Epoch(x)' = Epoch(x) /\ life'[x] = life[x]
              /\ \A st \in StreamType, y \in Member :
                    /\ endpoint'[x].in_hw[st][y] \in Nat
                    /\ endpoint[x].in_hw[st][y] <= endpoint'[x].in_hw[st][y]
    BY <1>5, <1>7, <2>1
  <2>3. QED
    BY <1>1, <1>4, <2>2, ReceiversKept, Zenon
<1>11. QED
  BY <1>6, <1>8, <1>9, <1>10, Zenon DEF IInv

------------------------------------------------------------------------------
(* The theorems *)

\* Every step keeps the invariant.
LEMMA NextIInv == IInv /\ [StreamNext]_streamvars => IInv'
<1> SUFFICES ASSUME IInv, [StreamNext]_streamvars PROVE IInv'
  OBVIOUS
<1>1. CASE \E m \in Member, st \in AppStreamType :
             \/ \E critical \in BOOLEAN : Send(m, st, critical)
             \/ SealFails(m, st)
  BY <1>1, SendKeeps, SealFailsKeeps, Zenon
<1>2. CASE \E m \in Member : Save(m) \/ Advance(m) \/ Restart(m)
  BY <1>2, SaveKeeps, AdvanceKeeps, RestartKeeps, Zenon
<1>3. CASE \E m \in Member : \E f \in outbox[m] : Transmit(m, f)
  BY <1>3, TransmitKeeps, Zenon
<1>4. CASE \E m \in Member :
             \E f \in transmitted : Deliver(m, f) \/ OpenFails(m, f) \/ EpochMismatch(m, f)
  BY <1>4, DeliverKeeps, OpenFailsKeeps, EpochMismatchKeeps, Zenon
<1>5. CASE UNCHANGED streamvars
  <2>1. UNCHANGED <<endpoint, outbox, saved, transmitted, life, got>>
    BY <1>5, Zenon DEF streamvars
  <2>2. StreamTypeOK' /\ NumberedOnce' /\ InOrderOnce'
    <3>1. StreamTypeOK'
      BY <2>1, Zenon DEF IInv, StreamTypeOK
    <3>2. NumberedOnce'
      BY <2>1 DEF IInv, NumberedOnce, SameNumber
    <3>3. InOrderOnce'
      BY <2>1 DEF IInv, InOrderOnce, SameStream
    <3>4. QED
      BY <3>1, <3>2, <3>3, Zenon
  <2>3. Numbered' /\ Windowed'
    BY <2>1, Zenon DEF IInv, Numbered, Windowed, Epoch
  <2>4. QED
    BY <2>2, <2>3, Zenon DEF IInv
<1>6. QED
  BY <1>1, <1>2, <1>3, <1>4, <1>5, Zenon DEF StreamNext

\* Every state of the streams is well typed, and no node leaves the states that
\* a node of a group reaches.
THEOREM StreamsTyped == StreamSpec => []StreamTypeOK
<1>1. IInv => StreamTypeOK
  BY Zenon DEF IInv
<1>2. QED
  BY InitIInv, NextIInv, <1>1, PTL DEF StreamSpec

\* A receiver shows the payloads of a stream in the order of their numbers and
\* none twice, within an epoch and a life, for every group and every network.
THEOREM StreamsInOrder == StreamSpec => []InOrderOnce
<1>1. IInv => InOrderOnce
  BY Zenon DEF IInv
<1>2. QED
  BY InitIInv, NextIInv, <1>1, PTL DEF StreamSpec

\* A sender, rebuilt any number of times from counters it saved before it
\* transmitted, never gives a number of an epoch to two frames.
THEOREM NumbersAreUsedOnce == StreamSpec => []ResumesAbove
<1>1. IInv => ResumesAbove
  <2> SUFFICES ASSUME IInv PROVE ResumesAbove
    OBVIOUS
  <2>1. \A f \in transmitted : f.from \in Member
    BY TypeFacts, Zenon DEF IInv, Frame
  <2>2. QED
    BY <2>1, Zenon DEF IInv, Numbered, NumberedOnce, SameNumber, ResumesAbove, Epoch
<1>2. QED
  BY InitIInv, NextIInv, <1>1, PTL DEF StreamSpec

==============================================================================
