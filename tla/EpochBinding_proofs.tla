------------------------- MODULE EpochBinding_proofs -------------------------
(* Proofs about EpochBinding, for every group, network and bound.  With any    *)
(* number of originators: the states are well typed, a member that only        *)
(* receives settles a race for the lowest sender, and the GBP epoch of a       *)
(* member is its MLS epoch.  With a sole originator: members in one epoch hold *)
(* the same group, and what is staged is what was prepared.                    *)
EXTENDS EpochBinding, GroupNode_proofs

------------------------------------------------------------------------------
(* The inductive invariants *)

\* The commits a group is made of; the first one is the founders'.
GroupCommit == Commit \cup {FirstCommit}

Context == [group : Seq(GroupCommit), pending : SUBSET Commit, staged : SUBSET Commit]

Opcode == {"Prepare", "Ready", "Execute", "Abort"}

Frame ==
    [from : Member, epoch : Nat, seq : Nat, op : Opcode, tid : Nat,
     commit : SUBSET Commit, sealed : Seq(GroupCommit)]

\* A PREPARE carries one commit.
Carries(f) == f.op = "Prepare" => \E c \in f.commit : f.commit = {c}

\* The type of every variable; the founders are in the group from the start,
\* and nothing is pending at a node that has not joined.
TypeOK ==
    /\ node \in [Member -> GroupNodeType]
    /\ \A m \in Member : ~ Joined(m) => node[m].pending_transition_id = 0
    /\ mls \in [Member -> Context]
    /\ \A m \in Founder : Len(mls[m].group) > 0
    /\ net \in SUBSET Frame
    /\ \A f \in net : Carries(f)
    /\ tried \in [Member -> Nat]
    /\ commits \in [Member -> Nat]
    /\ heard \in [Member -> SUBSET Member]

\* A member that only receives, with node nd, has heard of no PREPARE of its own
\* and of none exactly while nothing is pending; otherwise it records one
\* sender, the lowest it has heard.
Hears(m, nd, hs) ==
    /\ m \notin hs
    /\ nd.pending_transition_id = 0 <=> hs = {}
    /\ hs # {} => \E w \in Member :
                      /\ nd.pending_commit_sender = {w}
                      /\ \A h \in hs : w <= h

RaceInv == TypeOK /\ \A m \in Member \ Originator : Hears(m, node[m], heard[m])

\* A commit waits in ctx, the member's own or a staged one.
Waiting(ctx) == ctx.staged # {} \/ ctx.pending # {}

\* Node and context are in the same epoch, and a commit waits for the pending
\* transition.
InStep(nd, ctx) ==
    /\ nd.state # "Idle" => nd.current_epoch = Len(ctx.group)
    /\ nd.pending_transition_id # 0 => Waiting(ctx)

StepInv == TypeOK /\ \A m \in Member : InStep(node[m], mls[m])

Prefix(s, t) == Len(s) <= Len(t) /\ \A i \in 1 .. Len(s) : s[i] = t[i]

\* The PREPARE of o behind the pending transition of node nd, with these commits
Announced(o, frames, nd, cs) ==
    \E p \in frames :
        /\ p.op = "Prepare" /\ p.from = o
        /\ p.tid = nd.pending_transition_id
        /\ p.epoch = nd.current_epoch
        /\ p.commit = cs

\* The originator stages nothing and has a commit of its own exactly while a
\* transition is pending.
OriginatorBound(o, nd, ctx, frames) ==
    /\ nd.state # "Idle"
    /\ nd.current_epoch = Len(ctx.group)
    /\ ctx.staged = {}
    /\ nd.pending_transition_id = 0 => ctx.pending = {}
    /\ nd.pending_transition_id # 0 => Announced(o, frames, nd, ctx.pending)

\* A receiver's group is a prefix of the originator's, and it stages exactly
\* while a transition is pending.
ReceiverBound(o, nd, ctx, group, frames) ==
    /\ nd.state # "Idle" => nd.current_epoch = Len(ctx.group)
    /\ Prefix(ctx.group, group)
    /\ ctx.pending = {}
    /\ nd.pending_transition_id = 0 => ctx.staged = {}
    /\ nd.pending_transition_id # 0 =>
          Announced(o, frames, nd, ctx.staged) /\ nd.pending_commit_sender = {o}

\* EXECUTE f stands for a commit the originator has merged.
Executed(f, frames, group) ==
    /\ f.epoch < Len(group)
    /\ \E p \in frames :
          p.op = "Prepare" /\ p.tid = f.tid /\ p.commit = {group[f.epoch + 1]}

\* The frames on the wire: only the originator decides, each tid is prepared
\* once, and what is executed was merged.
FramesBound(o, frames, last, group) ==
    /\ \A f \in frames : f.op # "Ready" => f.from = o
    /\ \A f \in frames : f.op = "Prepare" => f.tid <= last
    /\ \A f, g \in frames :
          f.op = "Prepare" /\ g.op = "Prepare" /\ f.tid = g.tid => f.commit = g.commit
    /\ \A f \in frames : f.op = "Execute" => Executed(f, frames, group)

BindingInv(o) ==
    /\ RaceInv
    /\ OriginatorBound(o, node[o], mls[o], net)
    /\ \A m \in Member \ {o} : ReceiverBound(o, node[m], mls[m], mls[o].group, net)
    /\ FramesBound(o, net, tried[o], mls[o].group)

------------------------------------------------------------------------------
(* What the operations do to one node *)

\* Epoch, pending transition and recorded sender stay.
Keeps(nd, r) ==
    /\ r \in GroupNodeType
    /\ nd.state # "Idle" => r.state # "Idle"
    /\ r.current_epoch = nd.current_epoch
    /\ r.pending_transition_id = nd.pending_transition_id
    /\ r.pending_commit_sender = nd.pending_commit_sender

\* A PREPARE is taken: its transition is pending, and its sender is recorded
\* unless a lower one is.
TakesPrepare(nd, r, from, tid) ==
    /\ r \in GroupNodeType
    /\ nd.state # "Idle" => r.state # "Idle"
    /\ r.current_epoch = nd.current_epoch
    /\ tid # 0 /\ r.pending_transition_id = tid
    /\ nd.pending_transition_id \in {0, tid}
    /\ \/ /\ nd.pending_transition_id = tid
          /\ r.pending_commit_sender = nd.pending_commit_sender
          /\ \E w \in nd.pending_commit_sender : from >= w
       \/ /\ r.pending_commit_sender = {from}
          /\ nd.pending_transition_id = tid =>
                \A w \in nd.pending_commit_sender : from < w

\* The pending transition ends after `by` epochs.
Ends(nd, r, by) ==
    /\ r \in GroupNodeType
    /\ nd.state # "Idle" => r.state # "Idle"
    /\ r.current_epoch = nd.current_epoch + by
    /\ r.pending_transition_id = 0

\* What handle_control makes of a frame that may or may not be valid
Handles(nd, r, from, op, tid) ==
    /\ ~ TidOk(nd, op, tid) => Keeps(nd, r)
    /\ TidOk(nd, op, tid) =>
          /\ op = "Ready" => Keeps(nd, r)
          /\ op = "Prepare" => TakesPrepare(nd, r, from, tid)
          /\ op = "Execute" => Ends(nd, r, 1) /\ nd.pending_transition_id = tid /\ tid # 0
          /\ op = "Abort" => Ends(nd, r, 0)

\* trigger_resync and the window update keep what the invariants speak of.
LEMMA ResyncKeeps ==
    ASSUME NEW nd \in GroupNodeType
    PROVE  Keeps(nd, TriggerResync(nd))
<1>1. "Resyncing" \in NodeState
  BY Zenon DEF NodeState
<1>2. QED
  BY <1>1, TransitionEffect, Zenon DEF Keeps, TriggerResync

LEMMA RecordKeeps ==
    ASSUME NEW nd \in GroupNodeType, NEW from \in Member, NEW seq \in Nat
    PROVE  /\ Keeps(nd, Record(nd, "Control", from, seq))
           /\ Record(nd, "Control", from, seq).last_transition_id = nd.last_transition_id
BY RecordEffect, StreamTypeAssumption, Zenon DEF Keeps

\* handle_control, frame by frame.
LEMMA PrepareHandled ==
    ASSUME NEW nd \in GroupNodeType, NEW from \in Member, NEW tid \in Nat,
           TidOk(nd, "Prepare", tid)
    PROVE  TakesPrepare(nd, OnPrepare(nd, from, tid), from, tid)
<1> DEFINE r == OnPrepare(nd, from, tid)
<1>1. tid # 0 /\ nd.pending_transition_id \in {0, tid}
  BY DEF TidOk, GroupNodeType
<1>2. r \in GroupNodeType /\ r.state = nd.state /\ r.current_epoch = nd.current_epoch
  BY OnPrepareEffect, Zenon
<1>3. nd.pending_commit_sender \in SUBSET Nat /\ from \in Nat
  BY MemberAssumption, Zenon DEF GroupNodeType
<1>4. CASE HoldsAgainst(nd, from, tid)
  <2>1. r = nd
    BY <1>4, Zenon DEF OnPrepare
  <2>2. QED
    BY <1>1, <1>2, <1>4, <2>1, Zenon DEF HoldsAgainst, TakesPrepare
<1>5. CASE ~ HoldsAgainst(nd, from, tid)
  <2>1. r.pending_transition_id = tid /\ r.pending_commit_sender = {from}
    BY <1>5, Zenon DEF OnPrepare, GroupNodeType
  <2>2. nd.pending_transition_id = tid => \A w \in nd.pending_commit_sender : from < w
    BY <1>3, <1>5 DEF HoldsAgainst
  <2> HIDE DEF r
  <2>3. QED
    BY <1>1, <1>2, <2>1, <2>2, Zenon DEF TakesPrepare, r
<1>6. QED
  BY <1>4, <1>5, Zenon

LEMMA HandleControlHandles ==
    ASSUME NEW nd \in GroupNodeType, NEW self \in Member, NEW from \in Member,
           NEW op \in Opcode, NEW tid \in Nat
    PROVE  Handles(nd, HandleControl(nd, self, from, op, tid), from, op, tid)
<1>1. CASE ~ TidOk(nd, op, tid)
  <2>1. HandleControl(nd, self, from, op, tid) = nd
    BY <1>1, Zenon DEF HandleControl, TidOk, Opcode
  <2>2. QED
    BY <1>1, <2>1, Zenon DEF Handles, Keeps
<1>2. CASE TidOk(nd, op, tid) /\ op = "Prepare"
  <2>1. HandleControl(nd, self, from, op, tid) = OnPrepare(nd, from, tid)
    BY <1>2, Zenon DEF HandleControl
  <2>2. QED
    BY <1>2, <2>1, PrepareHandled, Zenon DEF Handles
<1>3. CASE TidOk(nd, op, tid) /\ op = "Ready"
  <2>1. HandleControl(nd, self, from, op, tid) = OnReady(nd)
    BY <1>3, Zenon DEF HandleControl
  <2>2. QED
    BY <1>3, <2>1, OnReadyEffect, Zenon DEF Handles, Keeps
<1>4. CASE TidOk(nd, op, tid) /\ op = "Execute"
  <2>1. HandleControl(nd, self, from, op, tid) = OnExecute(nd, tid)
    BY <1>4, Zenon DEF HandleControl
  <2>2. nd.pending_transition_id = tid /\ tid # 0
    BY <1>4, Zenon DEF TidOk
  <2>3. Ends(nd, OnExecute(nd, tid), 1)
    BY OnExecuteEffect, Zenon DEF Ends
  <2>4. QED
    BY <1>4, <2>1, <2>2, <2>3, Zenon DEF Handles
<1>5. CASE TidOk(nd, op, tid) /\ op = "Abort"
  <2>1. HandleControl(nd, self, from, op, tid) = OnAbort(nd)
    BY <1>5, Zenon DEF HandleControl
  <2>2. nd.current_epoch \in Nat
    BY Zenon DEF GroupNodeType
  <2>3. OnAbort(nd).current_epoch = nd.current_epoch
    BY OnAbortEffect, Zenon
  <2>4. OnAbort(nd).current_epoch = nd.current_epoch + 0
    BY <2>2, <2>3
  <2>5. Ends(nd, OnAbort(nd), 0)
    BY <2>4, OnAbortEffect, Zenon DEF Ends
  <2>6. QED
    BY <1>5, <2>1, <2>5, Zenon DEF Handles
<1>6. QED
  BY <1>1, <1>2, <1>3, <1>4, <1>5, Zenon DEF Opcode

\* The same of a frame whose number was recorded first, as deliver_frame does.
LEMMA DeliveredHandles ==
    ASSUME NEW nd \in GroupNodeType, NEW self \in Member, NEW from \in Member,
           NEW op \in Opcode, NEW tid \in Nat, NEW seq \in Nat
    PROVE  Handles(nd, HandleControl(Record(nd, "Control", from, seq), self, from, op, tid),
                   from, op, tid)
<1> DEFINE rec == Record(nd, "Control", from, seq)
           r == HandleControl(rec, self, from, op, tid)
<1>1. Keeps(nd, rec) /\ rec.last_transition_id = nd.last_transition_id
  BY RecordKeeps, Zenon
<1>2. rec \in GroupNodeType
  BY <1>1, Zenon DEF Keeps
<1>3. Handles(rec, r, from, op, tid)
  BY <1>2, HandleControlHandles, Zenon
<1>4. TidOk(rec, op, tid) <=> TidOk(nd, op, tid)
  BY <1>1, Zenon DEF Keeps, TidOk
<1> HIDE DEF rec, r
<1>5. QED
  BY <1>1, <1>3, <1>4, Zenon DEF Handles, Keeps, TakesPrepare, Ends, r, rec

------------------------------------------------------------------------------
(* What the operations do to one MLS context *)

\* A context of the type that is still in a group if it was in one
Grows(ctx, x) == x \in Context /\ (Len(ctx.group) > 0 => Len(x.group) > 0)

\* Merging appends one commit and leaves nothing pending (OpenMLS).
LEMMA MergeEffect ==
    ASSUME NEW ctx \in Context, NEW c \in Commit
    PROVE  /\ Merge(ctx, c) \in Context
           /\ Merge(ctx, c).group = Append(ctx.group, c)
           /\ Merge(ctx, c).pending = {}
           /\ Merge(ctx, c).staged = ctx.staged
<1>1. Append(ctx.group, c) \in Seq(GroupCommit)
  BY DEF Context, GroupCommit
<1>2. QED
  BY <1>1, Zenon DEF Merge, Context

\* The commit that waits is merged, a staged one before an own one.
Finalizes(ctx, x) ==
    /\ Grows(ctx, x)
    /\ x.staged = {}
    /\ \A c \in Commit :
          ctx.staged = {c} \/ (ctx.staged = {} /\ ctx.pending = {c}) =>
             x.group = Append(ctx.group, c) /\ x.pending = {}
    /\ Waiting(ctx) => Len(x.group) = Len(ctx.group) + 1

\* finalize_pending_commit does that.
LEMMA FinalizeEffect ==
    ASSUME NEW ctx \in Context
    PROVE  Finalizes(ctx, FinalizePendingCommit(ctx))
<1> DEFINE x == FinalizePendingCommit(ctx)
<1>0. /\ ctx.group \in Seq(GroupCommit)
      /\ ctx.staged \in SUBSET Commit /\ ctx.pending \in SUBSET Commit
      /\ \A c \in Commit : Len(Append(ctx.group, c)) = Len(ctx.group) + 1
      /\ Len(ctx.group) \in Nat
  BY DEF Context
<1>1. CASE ctx.staged # {}
  <2> DEFINE d == CHOOSE c \in ctx.staged : TRUE
  <2>1. d \in ctx.staged
    BY <1>1, Zenon
  <2>2. d \in Commit
    BY <1>0, <2>1, Zenon
  <2>3. x = [Merge(ctx, d) EXCEPT !.staged = {}]
    BY <1>1, Zenon DEF FinalizePendingCommit
  <2> HIDE DEF d, x
  <2>4. x \in Context /\ x.group = Append(ctx.group, d) /\ x.pending = {} /\ x.staged = {}
    BY <2>2, <2>3, MergeEffect, Zenon DEF Context
  <2>5. QED
    <3>1. Grows(ctx, x) /\ Len(x.group) = Len(ctx.group) + 1
      BY <1>0, <2>2, <2>4 DEF Grows
    <3>2. \A c \in Commit : ctx.staged = {c} => c = d
      BY <2>1, Zenon
    <3>3. Finalizes(ctx, x)
      BY <1>1, <2>4, <3>1, <3>2, Zenon DEF Finalizes
    <3>4. QED
      BY <3>3, Zenon DEF x
<1>2. CASE ctx.staged = {} /\ ctx.pending # {}
  <2> DEFINE d == CHOOSE c \in ctx.pending : TRUE
  <2>1. d \in ctx.pending
    BY <1>2, Zenon
  <2>2. d \in Commit
    BY <1>0, <2>1, Zenon
  <2>3. x = Merge(ctx, d)
    BY <1>2, Zenon DEF FinalizePendingCommit
  <2> HIDE DEF d, x
  <2>4. x \in Context /\ x.group = Append(ctx.group, d) /\ x.pending = {} /\ x.staged = {}
    BY <1>2, <2>2, <2>3, MergeEffect, Zenon
  <2>5. QED
    <3>1. Grows(ctx, x) /\ Len(x.group) = Len(ctx.group) + 1
      BY <1>0, <2>2, <2>4 DEF Grows
    <3>2. \A c \in Commit : ctx.staged # {c} /\ (ctx.pending = {c} => c = d)
      BY <1>2, <2>1
    <3>3. Finalizes(ctx, x)
      BY <1>2, <2>4, <3>1, <3>2, Zenon DEF Finalizes
    <3>4. QED
      BY <3>3, Zenon DEF x
<1>3. CASE ctx.staged = {} /\ ctx.pending = {}
  <2>1. x = ctx
    BY <1>3, Zenon DEF FinalizePendingCommit
  <2>2. QED
    BY <1>0, <1>3, <2>1, Zenon DEF Finalizes, Grows, Waiting
<1>4. QED
  BY <1>1, <1>2, <1>3, Zenon

\* clear_pending_commit drops what waits, on either side.
LEMMA ClearEffect ==
    ASSUME NEW ctx \in Context
    PROVE  /\ Grows(ctx, ClearPendingCommit(ctx))
           /\ ClearPendingCommit(ctx).group = ctx.group
           /\ ClearPendingCommit(ctx).pending = {}
           /\ ClearPendingCommit(ctx).staged = {}
<1> DEFINE x == ClearPendingCommit(ctx)
<1>1. x \in Context /\ x.group = ctx.group /\ x.pending = {} /\ x.staged = {}
  BY Zenon DEF ClearPendingCommit, Context
<1>2. Len(ctx.group) \in Nat
  BY DEF Context
<1>3. QED
  BY <1>1, <1>2, Zenon DEF Grows

\* process_message stages a commit unless one is staged.
LEMMA ProcessEffect ==
    ASSUME NEW ctx \in Context, NEW c \in Commit
    PROVE  /\ Grows(ctx, ProcessMessage(ctx, c))
           /\ ProcessMessage(ctx, c).group = ctx.group
           /\ ProcessMessage(ctx, c).pending = ctx.pending
           /\ ProcessMessage(ctx, c).staged = IF ctx.staged = {} THEN {c} ELSE ctx.staged
BY Zenon DEF Grows, ProcessMessage, Context

\* What an application does to its context on a frame it is shown
Reacts(ctx, x, f) ==
    /\ Grows(ctx, x)
    /\ f.op = "Ready" => x = ctx
    /\ f.op = "Prepare" =>
          /\ x.group = ctx.group /\ x.pending = ctx.pending
          /\ x.staged = IF ctx.staged = {} THEN f.commit ELSE ctx.staged
    /\ f.op = "Execute" =>
          /\ x.staged = {}
          /\ \A c \in Commit : ctx.staged = {c} =>
                x.group = Append(ctx.group, c) /\ x.pending = {}
          /\ Waiting(ctx) => Len(x.group) = Len(ctx.group) + 1
    /\ f.op = "Abort" => x.group = ctx.group /\ x.pending = {} /\ x.staged = {}

LEMMA ReactEffect ==
    ASSUME NEW ctx \in Context, NEW f \in Frame, Carries(f)
    PROVE  Reacts(ctx, React(ctx, f), f)
<1>1. CASE f.op = "Prepare"
  <2>1. PICK c \in f.commit : f.commit = {c}
    BY <1>1, Zenon DEF Carries
  <2>2. c \in Commit
    BY <2>1, Zenon DEF Frame
  <2>3. React(ctx, f) = ProcessMessage(ctx, c)
    BY <1>1, <2>1, Zenon DEF React
  <2>4. QED
    BY <1>1, <2>1, <2>2, <2>3, ProcessEffect, Zenon DEF Reacts
<1>2. CASE f.op = "Execute"
  <2>1. React(ctx, f) = FinalizePendingCommit(ctx)
    BY <1>2, Zenon DEF React
  <2>2. QED
    BY <1>2, <2>1, FinalizeEffect, Zenon DEF Reacts, Finalizes
<1>3. CASE f.op = "Abort"
  <2>1. React(ctx, f) = ClearPendingCommit(ctx)
    BY <1>3, Zenon DEF React
  <2>2. QED
    BY <1>3, <2>1, ClearEffect, Zenon DEF Reacts
<1>4. CASE f.op = "Ready"
  <2>1. React(ctx, f) = ctx
    BY <1>4, Zenon DEF React
  <2>2. QED
    BY <1>4, <2>1, Zenon DEF Reacts, Grows, Context
<1>5. QED
  BY <1>1, <1>2, <1>3, <1>4, Zenon DEF Frame, Opcode

------------------------------------------------------------------------------
(* The steps: each changes one member, and the frames only grow *)

\* Only member m changes.
Moves(m) ==
    /\ \A k \in Member : k # m =>
          node'[k] = node[k] /\ mls'[k] = mls[k] /\ heard'[k] = heard[k]
    /\ net \subseteq net'

\* A step that gives member m the node r and the context x keeps the types.
Gives(m, r, x, hs, frames) ==
    /\ r \in GroupNodeType /\ r.state # "Idle"
    /\ Grows(mls[m], x) /\ hs \in SUBSET Member
    /\ frames \in SUBSET Frame /\ \A f \in frames : Carries(f)
    /\ node' = [node EXCEPT ![m] = r] /\ mls' = [mls EXCEPT ![m] = x]
    /\ heard' = [heard EXCEPT ![m] = hs] /\ net' = net \cup frames
    /\ tried' \in [Member -> Nat] /\ commits' \in [Member -> Nat]

LEMMA MemberStep ==
    ASSUME TypeOK, NEW m \in Member, NEW r, NEW x, NEW hs, NEW frames,
           Gives(m, r, x, hs, frames)
    PROVE  /\ TypeOK' /\ Moves(m)
           /\ node'[m] = r /\ mls'[m] = x /\ heard'[m] = hs
<1>1. /\ node \in [Member -> GroupNodeType] /\ mls \in [Member -> Context]
      /\ heard \in [Member -> SUBSET Member]
  BY Zenon DEF TypeOK
<1>0. /\ r \in GroupNodeType /\ r.state # "Idle"
      /\ Grows(mls[m], x) /\ hs \in SUBSET Member
      /\ frames \in SUBSET Frame /\ \A f \in frames : Carries(f)
      /\ node' = [node EXCEPT ![m] = r] /\ mls' = [mls EXCEPT ![m] = x]
      /\ heard' = [heard EXCEPT ![m] = hs] /\ net' = net \cup frames
      /\ tried' \in [Member -> Nat] /\ commits' \in [Member -> Nat]
  BY Zenon DEF Gives
<1>2. x \in Context /\ (Len(mls[m].group) > 0 => Len(x.group) > 0)
  BY <1>0, Zenon DEF Grows
<1>3. /\ node' \in [Member -> GroupNodeType] /\ node'[m] = r
      /\ \A k \in Member : k # m => node'[k] = node[k]
  BY <1>0, <1>1, Zenon
<1>4. /\ mls' \in [Member -> Context] /\ mls'[m] = x
      /\ \A k \in Member : k # m => mls'[k] = mls[k]
  BY <1>0, <1>1, <1>2, Zenon
<1>5. /\ heard' \in [Member -> SUBSET Member] /\ heard'[m] = hs
      /\ \A k \in Member : k # m => heard'[k] = heard[k]
  BY <1>0, <1>1, Zenon
<1>6. \A k \in Founder : Len(mls'[k].group) > 0
  <2> SUFFICES ASSUME NEW k \in Founder PROVE Len(mls'[k].group) > 0
    OBVIOUS
  <2>1. k \in Member /\ Len(mls[k].group) > 0
    BY OriginatorAssumption, Zenon DEF TypeOK
  <2>2. Len(x.group) \in Nat /\ Len(mls[m].group) \in Nat
    BY <1>1, <1>2 DEF Context
  <2>3. QED
    BY <1>2, <1>4, <2>1, <2>2, Zenon
<1>b. \A k \in Member : node'[k].state = "Idle" => node'[k].pending_transition_id = 0
  BY <1>0, <1>3, Zenon DEF TypeOK, Joined
<1>7. net' \in SUBSET Frame /\ \A f \in net' : Carries(f)
  BY <1>0, Zenon DEF TypeOK
<1>8. Moves(m)
  BY <1>0, <1>3, <1>4, <1>5, Zenon DEF Moves
<1>9. TypeOK'
  BY <1>0, <1>b, <1>3, <1>4, <1>5, <1>6, <1>7, Zenon DEF TypeOK, Carries, Joined
<1>10. QED
  BY <1>3, <1>4, <1>5, <1>8, <1>9, Zenon

\* What a member puts on the wire is a frame.
LEMMA PlusZero ==
    ASSUME NEW n \in Nat
    PROVE  n + 0 = n
OBVIOUS

LEMMA BelowNext ==
    ASSUME NEW n \in Nat
    PROVE  n < n + 1
OBVIOUS

LEMMA LenOfAppend ==
    ASSUME NEW S, NEW seq \in Seq(S), NEW e \in S
    PROVE  Len(Append(seq, e)) = Len(seq) + 1
OBVIOUS

LEMMA SealedIsFrame ==
    ASSUME TypeOK, NEW m \in Member, NEW nd \in GroupNodeType, NEW op \in Opcode,
           NEW tid \in Nat, NEW cs \in SUBSET Commit
    PROVE  /\ Sealed(m, nd, op, tid, cs) \in Frame
           /\ Sealed(m, nd, op, tid, cs).from = m
           /\ Sealed(m, nd, op, tid, cs).op = op
           /\ Sealed(m, nd, op, tid, cs).tid = tid
           /\ Sealed(m, nd, op, tid, cs).epoch = nd.current_epoch
           /\ Sealed(m, nd, op, tid, cs).commit = cs
<1>1. nd.current_epoch \in Nat /\ nd.out_seq["Control"] \in Nat
  BY StreamTypeAssumption, Zenon DEF GroupNodeType
<1>2. mls[m].group \in Seq(GroupCommit)
  BY Zenon DEF TypeOK, Context
<1>3. nd.out_seq["Control"] + 1 \in Nat
  BY <1>1
<1>4. QED
  BY <1>1, <1>2, <1>3, Zenon DEF Sealed, Frame

\* A Prepare of commit c
IsPrepare(p, m, epoch, tid, c) ==
    /\ p \in Frame /\ p.op = "Prepare" /\ p.from = m /\ p.tid = tid
    /\ p.epoch = epoch /\ p.commit = {c}

LEMMA SealedPrepare ==
    ASSUME TypeOK, NEW m \in Member, NEW nd \in GroupNodeType, NEW tid \in Nat,
           NEW c \in Commit
    PROVE  IsPrepare(Sealed(m, nd, "Prepare", tid, {c}), m, nd.current_epoch, tid, c)
<1>1. "Prepare" \in Opcode /\ {c} \in SUBSET Commit
  BY Zenon DEF Opcode
<1>2. QED
  BY <1>1, SealedIsFrame DEF IsPrepare

\* What send_control does to the sender's node
PrepareSent(nd, r, tid) ==
    /\ r \in GroupNodeType /\ r.state = nd.state
    /\ r.current_epoch = nd.current_epoch /\ r.pending_transition_id = tid

LEMMA PrepareSendEffect ==
    ASSUME NEW nd \in GroupNodeType, NEW tid \in Nat
    PROVE  PrepareSent(nd, SendControl(nd, "Prepare", tid), tid)
<1>1. "Prepare" \in ControlOpcode
  BY Zenon DEF ControlOpcode
<1>2. QED
  BY <1>1, SendControlEffect, Zenon DEF PrepareSent

LEMMA ReadySendKeeps ==
    ASSUME NEW nd \in GroupNodeType, NEW tid \in Nat
    PROVE  Keeps(nd, SendControl(nd, "Ready", tid))
<1>1. "Ready" \in ControlOpcode /\ "Ready" \notin {"Prepare", "Abort"}
  BY Zenon DEF ControlOpcode
<1> DEFINE r == SendControl(nd, "Ready", tid)
<1>2. /\ r \in GroupNodeType /\ r.state = nd.state
      /\ r.current_epoch = nd.current_epoch
  BY <1>1, SendControlEffect, Zenon
<1>3. /\ r.pending_transition_id = nd.pending_transition_id
      /\ r.pending_commit_sender = nd.pending_commit_sender
  BY <1>1, SendControlEffect, Zenon
<1> HIDE DEF r
<1>4. QED
  BY <1>2, <1>3, Zenon DEF Keeps, r

LEMMA AbortSendEnds ==
    ASSUME NEW nd \in GroupNodeType, NEW tid \in Nat
    PROVE  Ends(nd, SendControl(nd, "Abort", tid), 0)
<1> DEFINE r == SendControl(nd, "Abort", tid)
<1>1. "Abort" \in ControlOpcode
  BY Zenon DEF ControlOpcode
<1>2. /\ r \in GroupNodeType /\ r.state = nd.state
      /\ r.current_epoch = nd.current_epoch /\ r.pending_transition_id = 0
  BY <1>1, SendControlEffect, Zenon
<1>3. nd.current_epoch \in Nat
  BY Zenon DEF GroupNodeType
<1> HIDE DEF r
<1>4. QED
  BY <1>2, <1>3 DEF Ends, r

\* A PREPARE of m: what it changes
Prepares(m, tid) ==
    /\ m \in Originator
    /\ node[m].pending_transition_id = 0 /\ tid # 0 /\ tid > tried[m]
    /\ node'[m] \in GroupNodeType
    /\ node'[m].state = node[m].state
    /\ node'[m].current_epoch = node[m].current_epoch
    /\ node'[m].pending_transition_id = tid
    /\ mls'[m].group = mls[m].group /\ mls'[m].staged = mls[m].staged
    /\ tried'[m] = tid
    /\ \E p \in Frame : /\ net' = net \cup {p}
                        /\ p.op = "Prepare" /\ p.from = m /\ p.tid = tid
                        /\ p.epoch = node[m].current_epoch /\ p.commit = mls'[m].pending

LEMMA PrepareStep ==
    ASSUME TypeOK, NEW m \in Member, NEW tid \in Nat, tid # 0, Prepare(m, tid)
    PROVE  TypeOK' /\ Moves(m) /\ Prepares(m, tid)
<1> DEFINE c == [by |-> m, no |-> commits[m] + 1]
           r == SendControl(node[m], "Prepare", tid)
           x == InviteFull(mls[m], c)
           p == Sealed(m, node[m], "Prepare", tid, {c})
<1>1. /\ m \in Originator /\ node[m].pending_transition_id = 0 /\ tid > tried[m]
      /\ node' = [node EXCEPT ![m] = r] /\ mls' = [mls EXCEPT ![m] = x]
      /\ net' = net \cup {p} /\ heard' = [heard EXCEPT ![m] = {m}]
      /\ commits' = [commits EXCEPT ![m] = @ + 1] /\ tried' = [tried EXCEPT ![m] = tid]
  BY Zenon DEF Prepare
<1>2. /\ node[m] \in GroupNodeType /\ mls[m] \in Context
      /\ commits[m] \in Nat /\ tried \in [Member -> Nat] /\ commits \in [Member -> Nat]
  BY Zenon DEF TypeOK
<1>3. c \in Commit
  BY <1>2 DEF Commit
<1>4. "Prepare" \in Opcode
  BY Zenon DEF Opcode
<1>5. /\ r \in GroupNodeType /\ r.state = node[m].state
      /\ r.current_epoch = node[m].current_epoch /\ r.pending_transition_id = tid
  BY <1>2, PrepareSendEffect, Zenon DEF PrepareSent
<1>6. /\ p \in Frame /\ p.op = "Prepare" /\ p.from = m /\ p.tid = tid
      /\ p.epoch = node[m].current_epoch /\ p.commit = {c}
  <2> HIDE DEF c
  <2>1. IsPrepare(p, m, node[m].current_epoch, tid, c)
    BY <1>2, <1>3, SealedPrepare, Zenon
  <2>2. QED
    BY <2>1, Zenon DEF IsPrepare
<1>7. /\ x \in Context /\ x.group = mls[m].group /\ x.staged = mls[m].staged
      /\ x.pending = {c}
  BY <1>2, <1>3, Zenon DEF InviteFull, Context
<1>8. Grows(mls[m], x)
  BY <1>2, <1>7, Zenon DEF Grows, Context
<1>9. /\ tried' \in [Member -> Nat] /\ tried'[m] = tid /\ commits' \in [Member -> Nat]
  BY <1>1, <1>2
<1>10. (\A f \in {p} : Carries(f)) /\ {p} \in SUBSET Frame /\ {m} \in SUBSET Member
  BY <1>6, Zenon DEF Carries
<1> HIDE DEF c, r, x, p
<1>b. r.state # "Idle"
  BY <1>5, Zenon DEF Prepare, MaySend, Joined
<1>a. Gives(m, r, x, {m}, {p})
  BY <1>b,  <1>1, <1>5, <1>8, <1>9, <1>10, Zenon DEF Gives
<1>11. /\ TypeOK' /\ Moves(m) /\ node'[m] = r /\ mls'[m] = x
  BY <1>a, MemberStep, Zenon
<1>12. QED
  BY <1>1, <1>5, <1>6, <1>7, <1>9, <1>11, Zenon DEF Prepares

\* A READY of m changes nothing the invariants speak of.
LEMMA ReadyStep ==
    ASSUME TypeOK, NEW m \in Member, Ready(m)
    PROVE  /\ TypeOK' /\ Moves(m) /\ Keeps(node[m], node'[m])
           /\ mls'[m] = mls[m] /\ heard'[m] = heard[m] /\ tried' = tried
           /\ \E p \in Frame : net' = net \cup {p} /\ p.op = "Ready"
<1> DEFINE tid == node[m].pending_transition_id
           r == SendControl(node[m], "Ready", tid)
           p == Sealed(m, node[m], "Ready", tid, {})
<1>1. /\ node' = [node EXCEPT ![m] = r] /\ net' = net \cup {p}
      /\ UNCHANGED <<mls, tried, commits, heard>>
  BY Zenon DEF Ready
<1>2. /\ node[m] \in GroupNodeType /\ mls[m] \in Context /\ heard[m] \in SUBSET Member
      /\ mls \in [Member -> Context] /\ heard \in [Member -> SUBSET Member]
      /\ tried \in [Member -> Nat] /\ commits \in [Member -> Nat]
  BY Zenon DEF TypeOK
<1>3. "Ready" \in Opcode
  BY Zenon DEF Opcode
<1>4. tid \in Nat
  BY <1>2, Zenon DEF GroupNodeType
<1>5. Keeps(node[m], r)
  BY <1>2, <1>4, ReadySendKeeps, Zenon
<1>6. p \in Frame /\ p.op = "Ready"
  BY <1>2, <1>3, <1>4, SealedIsFrame
<1>7. (\A f \in {p} : Carries(f)) /\ {p} \in SUBSET Frame
  BY <1>6, Zenon DEF Carries
<1>8. Grows(mls[m], mls[m])
  BY <1>2, Zenon DEF Grows, Context
<1>9. /\ mls' = [mls EXCEPT ![m] = mls[m]] /\ heard' = [heard EXCEPT ![m] = heard[m]]
      /\ tried' \in [Member -> Nat] /\ commits' \in [Member -> Nat]
  BY <1>1, <1>2, Zenon
<1>10. r \in GroupNodeType
  BY <1>5, Zenon DEF Keeps
<1> HIDE DEF tid, r, p
<1>b. r.state # "Idle"
  BY <1>5, Zenon DEF Ready, MaySend, Joined, Keeps
<1>a. Gives(m, r, mls[m], heard[m], {p})
  BY <1>b,  <1>1, <1>2, <1>7, <1>8, <1>9, <1>10, Zenon DEF Gives
<1>11. TypeOK' /\ Moves(m) /\ node'[m] = r /\ mls'[m] = mls[m] /\ heard'[m] = heard[m]
  BY <1>a, MemberStep, Zenon
<1>12. QED
  BY <1>1, <1>5, <1>6, <1>11, Zenon

\* A decision of m, EXECUTE or ABORT: its transition ends and the frame goes out.
Decides(m, op, by) ==
    /\ m \in heard[m] /\ heard'[m] = {}
    /\ node[m].pending_transition_id # 0
    /\ Ends(node[m], node'[m], by)
    /\ tried' = tried
    /\ \E p \in Frame : /\ net' = net \cup {p}
                        /\ p.op = op /\ p.from = m
                        /\ p.tid = node[m].pending_transition_id
                        /\ p.epoch = node[m].current_epoch

LEMMA ExecuteStep ==
    ASSUME TypeOK, NEW m \in Member, Execute(m)
    PROVE  /\ TypeOK' /\ Moves(m) /\ Decides(m, "Execute", 1)
           /\ Finalizes(mls[m], mls'[m])
<1> DEFINE tid == node[m].pending_transition_id
           s == SendControl(node[m], "Execute", tid)
           r == ApplyTransition(s, tid)
           x == FinalizePendingCommit(mls[m])
           p == Sealed(m, node[m], "Execute", tid, {})
<1>1. /\ m \in heard[m] /\ tid # 0
      /\ node' = [node EXCEPT ![m] = r] /\ mls' = [mls EXCEPT ![m] = x]
      /\ net' = net \cup {p} /\ heard' = [heard EXCEPT ![m] = {}]
      /\ UNCHANGED <<tried, commits>>
  BY Zenon DEF Execute
<1>2. /\ node[m] \in GroupNodeType /\ mls[m] \in Context
      /\ tried \in [Member -> Nat] /\ commits \in [Member -> Nat]
  BY Zenon DEF TypeOK
<1>3. "Execute" \in Opcode
  BY Zenon DEF Opcode
<1>4. tid \in Nat
  BY <1>2, Zenon DEF GroupNodeType
<1>5. ExecuteSent(node[m], s)
  BY <1>2, <1>4, ExecuteSendEffect, Zenon
<1>6. Advances(s, r, tid)
  BY <1>4, <1>5, ApplyTransitionAdvances, Zenon DEF ExecuteSent
<1>7. Ends(node[m], r, 1)
  BY <1>5, <1>6, Zenon DEF ExecuteSent, Advances, Ends
<1>8. /\ p \in Frame /\ p.op = "Execute" /\ p.from = m /\ p.tid = tid
      /\ p.epoch = node[m].current_epoch
  BY <1>2, <1>3, <1>4, SealedIsFrame
<1>9. Finalizes(mls[m], x)
  BY <1>2, FinalizeEffect, Zenon
<1>10. /\ Grows(mls[m], x) /\ r \in GroupNodeType /\ (\A f \in {p} : Carries(f))
       /\ {p} \in SUBSET Frame /\ {} \in SUBSET Member
       /\ tried' \in [Member -> Nat] /\ commits' \in [Member -> Nat]
  BY <1>1, <1>2, <1>7, <1>8, <1>9, Zenon DEF Finalizes, Ends, Carries
<1> HIDE DEF tid, s, r, x, p
<1>b. r.state # "Idle"
  BY <1>7, Zenon DEF Execute, MaySend, Joined, Ends
<1>a. Gives(m, r, x, {}, {p})
  BY <1>b,  <1>1, <1>10, Zenon DEF Gives
<1>11. /\ TypeOK' /\ Moves(m) /\ node'[m] = r /\ mls'[m] = x /\ heard'[m] = {}
  BY <1>a, MemberStep, Zenon
<1>12. QED
  BY <1>1, <1>7, <1>8, <1>9, <1>11, Zenon DEF Decides, tid

\* ABORT, from a node nd whose deadline may just have fired.
LEMMA GiveUpStep ==
    ASSUME TypeOK, NEW m \in Member, NEW nd \in GroupNodeType, nd.state = node[m].state,
           nd.current_epoch = node[m].current_epoch, GiveUp(m, nd)
    PROVE  /\ TypeOK' /\ Moves(m) /\ Decides(m, "Abort", 0)
           /\ mls'[m].group = mls[m].group /\ mls'[m].pending = {} /\ mls'[m].staged = {}
<1> DEFINE tid == node[m].pending_transition_id
           r == SendControl(nd, "Abort", tid)
           x == ClearPendingCommit(mls[m])
           p == Sealed(m, nd, "Abort", tid, {})
<1>1. /\ m \in heard[m] /\ tid # 0
      /\ node' = [node EXCEPT ![m] = r] /\ mls' = [mls EXCEPT ![m] = x]
      /\ net' = net \cup {p} /\ heard' = [heard EXCEPT ![m] = {}]
      /\ UNCHANGED <<tried, commits>>
  BY Zenon DEF GiveUp
<1>2. /\ node[m] \in GroupNodeType /\ mls[m] \in Context
      /\ tried \in [Member -> Nat] /\ commits \in [Member -> Nat]
  BY Zenon DEF TypeOK
<1>3. "Abort" \in Opcode
  BY Zenon DEF Opcode
<1>4. tid \in Nat
  BY <1>2, Zenon DEF GroupNodeType
<1>5. Ends(nd, r, 0)
  BY <1>4, AbortSendEnds, Zenon
<1>6. Ends(node[m], r, 0) /\ r.state # "Idle"
  BY <1>5, Zenon DEF Ends, GiveUp, MaySend, Joined
<1>7. /\ p \in Frame /\ p.op = "Abort" /\ p.from = m /\ p.tid = tid
      /\ p.epoch = node[m].current_epoch
  BY <1>3, <1>4, SealedIsFrame
<1>8. /\ Grows(mls[m], x) /\ x.group = mls[m].group /\ x.pending = {} /\ x.staged = {}
  BY <1>2, ClearEffect, Zenon
<1>9. /\ r \in GroupNodeType /\ (\A f \in {p} : Carries(f))
      /\ {p} \in SUBSET Frame /\ {} \in SUBSET Member
      /\ tried' \in [Member -> Nat] /\ commits' \in [Member -> Nat]
  BY <1>1, <1>2, <1>6, <1>7, Zenon DEF Ends, Carries
<1> HIDE DEF tid, r, x, p
<1>10. Gives(m, r, x, {}, {p})
  BY <1>1, <1>6, <1>8, <1>9, Zenon DEF Gives
<1>11. /\ TypeOK' /\ Moves(m) /\ node'[m] = r /\ mls'[m] = x /\ heard'[m] = {}
  BY <1>10, MemberStep, Zenon
<1>12. QED
  BY <1>1, <1>6, <1>7, <1>8, <1>11, Zenon DEF Decides, tid

LEMMA AbortStep ==
    ASSUME TypeOK, NEW m \in Member, Abort(m) \/ PrepareTimeout(m)
    PROVE  /\ TypeOK' /\ Moves(m) /\ Decides(m, "Abort", 0)
           /\ mls'[m].group = mls[m].group /\ mls'[m].pending = {} /\ mls'[m].staged = {}
<1>1. node[m] \in GroupNodeType
  BY Zenon DEF TypeOK
<1>2. CASE Abort(m)
  BY <1>1, <1>2, GiveUpStep, Zenon DEF Abort
<1>3. CASE PrepareTimeout(m)
  <2> DEFINE nd == CheckTimeouts(node[m], TRUE, TRUE, FALSE)
  <2>1. GiveUp(m, nd)
    BY <1>3, Zenon DEF PrepareTimeout
  <2>2. TimeoutEffect(node[m], nd)
    BY <1>1, CheckTimeoutsEffect, Zenon
  <2> HIDE DEF nd
  <2>3. /\ nd \in GroupNodeType /\ nd.state = node[m].state
        /\ nd.current_epoch = node[m].current_epoch
    BY <2>2, Zenon DEF TimeoutEffect
  <2>4. QED
    BY <2>1, <2>3, GiveUpStep, Zenon
<1>4. QED
  BY <1>2, <1>3, Zenon

\* A frame of another epoch, or one that does not open, changes only what the
\* invariants do not speak of.
LEMMA RefuseStep ==
    ASSUME TypeOK, NEW m \in Member, NEW f \in net, RejectEpoch(m, f) \/ DecryptFailed(m, f)
    PROVE  /\ TypeOK' /\ Moves(m) /\ Keeps(node[m], node'[m])
           /\ mls'[m] = mls[m] /\ heard'[m] = heard[m] /\ net' = net /\ tried' = tried
<1>1. /\ node[m] \in GroupNodeType /\ mls[m] \in Context /\ heard[m] \in SUBSET Member
      /\ mls \in [Member -> Context] /\ heard \in [Member -> SUBSET Member]
      /\ tried \in [Member -> Nat] /\ commits \in [Member -> Nat] /\ f \in Frame
  BY Zenon DEF TypeOK
<1>2. PICK r : /\ Keeps(node[m], r) /\ r.state # "Idle"
               /\ node' = [node EXCEPT ![m] = r]
  <2>1. CASE RejectEpoch(m, f)
    <3>1. Keeps(node[m], TriggerResync(node[m]))
      BY <1>1, ResyncKeeps, Zenon
    <3>2. QED
      BY <2>1, <3>1, Zenon DEF RejectEpoch, Joined, Keeps
  <2>2. CASE DecryptFailed(m, f)
    <3>1. f.from \in Member /\ f.seq \in Nat
      BY <1>1, Zenon DEF Frame
    <3>2. Keeps(node[m], Record(node[m], "Control", f.from, f.seq))
      BY <1>1, <3>1, RecordKeeps, Zenon
    <3>3. QED
      BY <2>2, <3>2, Zenon DEF DecryptFailed, Accepts, Joined, Keeps
  <2>3. QED
    BY <2>1, <2>2, Zenon
<1>3. UNCHANGED <<mls, net, tried, commits, heard>>
  BY Zenon DEF RejectEpoch, DecryptFailed
<1>4. Grows(mls[m], mls[m])
  BY <1>1, Zenon DEF Grows
<1>5. /\ mls' = [mls EXCEPT ![m] = mls[m]] /\ heard' = [heard EXCEPT ![m] = heard[m]]
      /\ net' = net \cup {} /\ {} \in SUBSET Frame /\ (\A g \in {} : Carries(g))
      /\ tried' \in [Member -> Nat] /\ commits' \in [Member -> Nat]
      /\ r \in GroupNodeType
  BY <1>1, <1>2, <1>3, Zenon DEF Keeps
<1>6. Gives(m, r, mls[m], heard[m], {})
  BY <1>1, <1>2, <1>4, <1>5, Zenon DEF Gives
<1>7. TypeOK' /\ Moves(m) /\ node'[m] = r /\ mls'[m] = mls[m] /\ heard'[m] = heard[m]
  BY <1>6, MemberStep, Zenon
<1>8. QED
  BY <1>2, <1>3, <1>7, Zenon

\* A frame m's node accepts and its application is shown when its tid is right
Takes(m, f) ==
    /\ f.from # m /\ f.epoch = node[m].current_epoch /\ mls[m].group = f.sealed
    /\ net' = net /\ tried' = tried
    /\ Handles(node[m], node'[m], f.from, f.op, f.tid)
    /\ TidOk(node[m], f.op, f.tid) =>
          Reacts(mls[m], mls'[m], f) /\ heard'[m] = NowHeard(m, f)
    /\ ~ TidOk(node[m], f.op, f.tid) => mls'[m] = mls[m] /\ heard'[m] = heard[m]

LEMMA DeliverStep ==
    ASSUME TypeOK, NEW m \in Member, NEW f \in net, Deliver(m, f)
    PROVE  TypeOK' /\ Moves(m) /\ Joined(m) /\ Takes(m, f)
<1> DEFINE shown == TidOk(node[m], f.op, f.tid)
           r == HandleControl(Record(node[m], "Control", f.from, f.seq), m, f.from, f.op, f.tid)
           x == IF shown THEN React(mls[m], f) ELSE mls[m]
           hs == IF shown THEN NowHeard(m, f) ELSE heard[m]
<1>1. /\ Joined(m) /\ f.from # m /\ f.epoch = node[m].current_epoch
      /\ mls[m].group = f.sealed
      /\ node' = [node EXCEPT ![m] = r] /\ mls' = [mls EXCEPT ![m] = x]
      /\ heard' = [heard EXCEPT ![m] = hs] /\ UNCHANGED <<net, tried, commits>>
  BY Zenon DEF Deliver, Accepts, Opens
<1>2. /\ node[m] \in GroupNodeType /\ mls[m] \in Context /\ heard[m] \in SUBSET Member
      /\ tried \in [Member -> Nat] /\ commits \in [Member -> Nat] /\ f \in Frame
      /\ Carries(f)
  BY Zenon DEF TypeOK
<1>3. f.from \in Member /\ f.seq \in Nat /\ f.op \in Opcode /\ f.tid \in Nat
  BY <1>2, Zenon DEF Frame
<1>4. Handles(node[m], r, f.from, f.op, f.tid)
  BY <1>2, <1>3, DeliveredHandles, Zenon
<1>5. r \in GroupNodeType /\ r.state # "Idle"
  BY <1>1, <1>3, <1>4, Zenon DEF Handles, Keeps, TakesPrepare, Ends, Opcode, Joined
<1>6. shown => Reacts(mls[m], x, f)
  BY <1>2, ReactEffect, Zenon
<1>7. Grows(mls[m], x)
  <2>1. Grows(mls[m], mls[m])
    BY <1>2, Zenon DEF Grows
  <2>2. QED
    BY <1>6, <2>1, Zenon DEF Reacts
<1>8. hs \in SUBSET Member
  BY <1>2, <1>3, Zenon DEF NowHeard
<1>9. /\ shown => hs = NowHeard(m, f)
      /\ ~ shown => x = mls[m] /\ hs = heard[m]
  OBVIOUS
<1>10. /\ net' = net \cup {} /\ {} \in SUBSET Frame /\ (\A g \in {} : Carries(g))
       /\ tried' \in [Member -> Nat] /\ commits' \in [Member -> Nat]
  BY <1>1, <1>2, Zenon
<1> HIDE DEF r, x, hs
<1>11. Gives(m, r, x, hs, {})
  BY <1>1, <1>5, <1>7, <1>8, <1>10, Zenon DEF Gives
<1>12. TypeOK' /\ Moves(m) /\ node'[m] = r /\ mls'[m] = x /\ heard'[m] = hs
  BY <1>11, MemberStep, Zenon
<1>13. QED
  BY <1>1, <1>4, <1>6, <1>9, <1>12, Zenon DEF Takes

\* Joining takes over the group of c and its epoch.
LEMMA JoinStep ==
    ASSUME TypeOK, NEW m \in Member, NEW c \in Originator, Join(m, c)
    PROVE  /\ TypeOK' /\ Moves(m) /\ ~ Joined(m) /\ net' = net /\ tried' = tried
           /\ node'[m].current_epoch = Len(mls[c].group)
           /\ node'[m].pending_transition_id = 0
           /\ mls'[m].group = mls[c].group
           /\ mls'[m].pending = mls[m].pending /\ mls'[m].staged = mls[m].staged
           /\ heard'[m] = heard[m]
<1> DEFINE epoch == Len(mls[c].group) - 1
           tid == node[c].last_transition_id
           j == BootstrapAsJoiner(New, epoch, 0)
           r == ApplyTransition(j, tid)
           x == AcceptWelcome(mls[m], mls[c].group)
<1>1. /\ ~ Joined(m) /\ node' = [node EXCEPT ![m] = r] /\ mls' = [mls EXCEPT ![m] = x]
      /\ UNCHANGED <<net, tried, commits, heard>>
  BY Zenon DEF Join, Epoch
<1>2. c \in Founder /\ c \in Member
  BY OriginatorAssumption, Zenon
<1>3. /\ mls[m] \in Context /\ mls[c] \in Context /\ node[c] \in GroupNodeType
      /\ heard \in [Member -> SUBSET Member] /\ heard[m] \in SUBSET Member
      /\ tried \in [Member -> Nat] /\ commits \in [Member -> Nat]
      /\ Len(mls[c].group) > 0
  BY <1>2, Zenon DEF TypeOK
<1>4. epoch \in Nat /\ epoch + 1 = Len(mls[c].group)
  BY <1>3 DEF Context
<1>5. tid \in Nat
  BY <1>3, Zenon DEF GroupNodeType
<1>6. JoinedAt(j, epoch)
  BY <1>4, BootstrapAsJoinerEffect, Zenon
<1> HIDE DEF epoch, tid, j
<1>7. j \in GroupNodeType /\ j.state = "Active" /\ j.current_epoch = epoch
  BY <1>6, Zenon DEF JoinedAt
<1>8. Advances(j, r, tid)
  BY <1>5, <1>7, ApplyTransitionAdvances, Zenon
<1> HIDE DEF r
<1>9. /\ r \in GroupNodeType /\ r.state = j.state
      /\ r.current_epoch = j.current_epoch + 1 /\ r.pending_transition_id = 0
  BY <1>8, Zenon DEF Advances
<1>10. r.state # "Idle" /\ r.current_epoch = Len(mls[c].group)
  BY <1>4, <1>7, <1>9, Zenon
<1>11. /\ x \in Context /\ x.group = mls[c].group /\ x.pending = mls[m].pending
       /\ x.staged = mls[m].staged
  BY <1>3, Zenon DEF AcceptWelcome, Context
<1>12. Grows(mls[m], x)
  BY <1>3, <1>11, Zenon DEF Grows
<1>13. /\ heard' = [heard EXCEPT ![m] = heard[m]]
       /\ net' = net \cup {} /\ {} \in SUBSET Frame /\ (\A g \in {} : Carries(g))
       /\ tried' \in [Member -> Nat] /\ commits' \in [Member -> Nat]
  BY <1>1, <1>3, Zenon
<1> HIDE DEF x
<1>14. Gives(m, r, x, heard[m], {})
  BY <1>1, <1>3, <1>9, <1>10, <1>12, <1>13, Zenon DEF Gives
<1>15. TypeOK' /\ Moves(m) /\ node'[m] = r /\ mls'[m] = x /\ heard'[m] = heard[m]
  BY <1>14, MemberStep, Zenon
<1>16. QED
  BY <1>1, <1>9, <1>10, <1>11, <1>15, Zenon

\* A rebuilt member holds its group, nothing pending and nothing staged.
LEMMA RestartStep ==
    ASSUME TypeOK, NEW m \in Member, Restart(m)
    PROVE  /\ TypeOK' /\ Moves(m) /\ m \notin Originator /\ net' = net /\ tried' = tried
           /\ node'[m].current_epoch = Len(mls[m].group)
           /\ node'[m].pending_transition_id = 0
           /\ mls'[m].group = mls[m].group
           /\ mls'[m].pending = mls[m].pending /\ mls'[m].staged = {}
           /\ heard'[m] = {}
<1> DEFINE epoch == Len(mls[m].group)
           r == Rebuild(node[m], epoch)
           x == RestoreState(mls[m])
<1>1. /\ m \in Rebuilt
      /\ node' = [node EXCEPT ![m] = r] /\ mls' = [mls EXCEPT ![m] = x]
      /\ heard' = [heard EXCEPT ![m] = {}] /\ UNCHANGED <<net, tried, commits>>
  BY Zenon DEF Restart, Epoch
<1>2. /\ mls[m] \in Context /\ node[m] \in GroupNodeType
      /\ tried \in [Member -> Nat] /\ commits \in [Member -> Nat]
  BY Zenon DEF TypeOK
<1>3. epoch \in Nat
  BY <1>2 DEF Context
<1>4. /\ r \in GroupNodeType /\ r.state = "Active" /\ r.current_epoch = epoch
      /\ r.pending_transition_id = 0
  <2> HIDE DEF epoch
  <2>1. QED
    BY <1>2, <1>3, RebuildEffect, ZenonT(30)
<1>5. /\ x \in Context /\ x.group = mls[m].group /\ x.pending = mls[m].pending
      /\ x.staged = {}
  BY <1>2, Zenon DEF RestoreState, Context
<1>6. Grows(mls[m], x)
  BY <1>5, Zenon DEF Grows
<1>7. /\ r.state # "Idle" /\ {} \in SUBSET Member
      /\ net' = net \cup {} /\ {} \in SUBSET Frame /\ (\A g \in {} : Carries(g))
      /\ tried' \in [Member -> Nat] /\ commits' \in [Member -> Nat]
  BY <1>1, <1>2, <1>4, Zenon
<1> HIDE DEF r, x
<1>8. Gives(m, r, x, {}, {})
  BY <1>1, <1>4, <1>6, <1>7, Zenon DEF Gives
<1>9. TypeOK' /\ Moves(m) /\ node'[m] = r /\ mls'[m] = x /\ heard'[m] = {}
  BY <1>8, MemberStep, Zenon
<1>10. QED
  BY <1>1, <1>4, <1>5, <1>9, RestartAssumption, Zenon

------------------------------------------------------------------------------
(* Any number of originators *)

\* The founders are in their first epoch, the others have not joined.
LEMMA InitMember ==
    ASSUME Init, NEW m \in Member
    PROVE  /\ node[m] \in GroupNodeType /\ node[m].pending_transition_id = 0
           /\ mls[m].pending = {} /\ mls[m].staged = {} /\ heard[m] = {}
           /\ m \in Founder => /\ node[m].state = "Active" /\ node[m].current_epoch = 1
                               /\ mls[m].group = <<FirstCommit>>
           /\ m \notin Founder => node[m].state = "Idle" /\ mls[m].group = << >>
<1> DEFINE b == BootstrapAsCreator(New, 0)
           r == ApplyTransition(b, 1)
<1>1. /\ b \in GroupNodeType /\ b.state = "Active" /\ b.current_epoch = 0
  BY BootstrapAsCreatorEffect, Zenon
<1> HIDE DEF b
<1>2. Advances(b, r, 1)
  BY <1>1, ApplyTransitionAdvances, Zenon
<1> HIDE DEF r
<1>3. /\ r \in GroupNodeType /\ r.state = b.state
      /\ r.current_epoch = b.current_epoch + 1 /\ r.pending_transition_id = 0
  BY <1>2, Zenon DEF Advances
<1>4. node[m] = IF m \in Founder THEN r ELSE New
  BY Zenon DEF Init, r, b
<1>5. /\ mls[m] = IF m \in Founder THEN AcceptWelcome(NewMember, <<FirstCommit>>)
                                   ELSE NewMember
      /\ heard[m] = {}
  BY Zenon DEF Init
<1>6. New \in GroupNodeType /\ New.state = "Idle" /\ New.pending_transition_id = 0
  BY NewType, Zenon DEF New
<1>7. /\ mls[m].pending = {} /\ mls[m].staged = {} /\ heard[m] = {}
      /\ m \in Founder => mls[m].group = <<FirstCommit>>
      /\ m \notin Founder => mls[m].group = << >>
  BY <1>5 DEF AcceptWelcome, NewMember
<1>8. CASE m \in Founder
  BY <1>1, <1>3, <1>4, <1>7, <1>8
<1>9. CASE m \notin Founder
  BY <1>4, <1>6, <1>7, <1>9, Zenon
<1>10. QED
  BY <1>8, <1>9, Zenon

LEMMA InitTypeOK ==
    ASSUME Init
    PROVE  TypeOK
<1>1. node \in [Member -> GroupNodeType]
  <2>1. node = [m \in Member |-> node[m]]
    BY Zenon DEF Init
  <2>2. QED
    BY <2>1, InitMember, Zenon
<1>2. FirstCommit \in GroupCommit
  BY Zenon DEF GroupCommit
<1>3. \A m \in Member : mls[m] \in Context
  <2> SUFFICES ASSUME NEW m \in Member PROVE mls[m] \in Context
    BY Zenon
  <2>1. <<FirstCommit>> \in Seq(GroupCommit) /\ << >> \in Seq(GroupCommit)
    BY <1>2
  <2>2. mls[m] = [group |-> mls[m].group, pending |-> mls[m].pending,
                  staged |-> mls[m].staged]
    BY Zenon DEF Init, AcceptWelcome, NewMember
  <2>3. mls[m].group \in Seq(GroupCommit) /\ mls[m].pending = {} /\ mls[m].staged = {}
    BY <2>1, InitMember, Zenon
  <2>4. QED
    BY <2>2, <2>3, Zenon DEF Context
<1>4. mls \in [Member -> Context]
  <2>1. mls = [m \in Member |-> mls[m]]
    BY Zenon DEF Init
  <2>2. QED
    BY <1>3, <2>1, Zenon
<1>5. \A m \in Founder : Len(mls[m].group) > 0
  <2>1. Len(<<FirstCommit>>) = 1
    OBVIOUS
  <2>2. \A m \in Founder : mls[m].group = <<FirstCommit>>
    BY InitMember, OriginatorAssumption, Zenon
  <2>3. QED
    BY <2>1, <2>2
<1>6. /\ net = {} /\ tried \in [Member -> Nat] /\ commits \in [Member -> Nat]
      /\ heard \in [Member -> SUBSET Member]
  BY Zenon DEF Init
<1>7. \A m \in Member : node[m].pending_transition_id = 0
  BY InitMember, Zenon
<1>8. QED
  BY <1>1, <1>4, <1>5, <1>6, <1>7, Zenon DEF TypeOK

\* The steps of member m
StepOf(m) ==
    \/ \E tid \in 2 .. MaxTid : Prepare(m, tid)
    \/ Ready(m) \/ Execute(m) \/ Abort(m) \/ PrepareTimeout(m)
    \/ \E c \in Originator : Join(m, c)
    \/ Restart(m)
    \/ \E f \in net : RejectEpoch(m, f) \/ DecryptFailed(m, f) \/ Deliver(m, f)

LEMMA NextIsStepOf ==
    ASSUME Next
    PROVE  \E m \in Member : StepOf(m)
BY Zenon DEF Next, StepOf

\* Every step keeps the types and changes one member.
LEMMA StepMoves ==
    ASSUME TypeOK, NEW m \in Member, StepOf(m)
    PROVE  TypeOK' /\ Moves(m)
<1>1. \A tid \in 2 .. MaxTid : tid \in Nat /\ tid # 0
  BY BindingBoundAssumption
<1>2. QED
  BY <1>1, PrepareStep, ReadyStep, ExecuteStep, AbortStep, JoinStep, RestartStep,
     RefuseStep, DeliverStep, Zenon DEF StepOf

\* A node that keeps its pending transition, or ends it, still records the
\* lowest sender heard.
LEMMA KeepsHears ==
    ASSUME NEW m, NEW nd, NEW r, NEW hs, Keeps(nd, r), Hears(m, nd, hs)
    PROVE  Hears(m, r, hs)
BY Zenon DEF Keeps, Hears

LEMMA EndsHears ==
    ASSUME NEW m, NEW r, r.pending_transition_id = 0
    PROVE  Hears(m, r, {})
BY Zenon DEF Hears

\* handle_control's tie-break on a PREPARE from another member
LEMMA PrepareHears ==
    ASSUME NEW m \in Member, NEW nd \in GroupNodeType, NEW r, NEW from \in Member,
           from # m, NEW tid \in Nat, NEW hs \in SUBSET Member,
           TakesPrepare(nd, r, from, tid), Hears(m, nd, hs)
    PROVE  Hears(m, r, hs \cup {from})
<1>1. /\ r.pending_transition_id # 0 /\ nd.pending_transition_id \in {0, tid}
      /\ tid # 0
  BY Zenon DEF TakesPrepare
<1>2. m \notin hs \cup {from}
  BY Zenon DEF Hears
<1>3. \A h \in hs \cup {from} : h \in Nat
  BY MemberAssumption, Zenon
<1>4. \E w \in Member :
          r.pending_commit_sender = {w} /\ \A h \in hs \cup {from} : w <= h
  <2>1. CASE hs = {}
    <3>1. nd.pending_transition_id = 0
      BY <2>1, Zenon DEF Hears
    <3>2. r.pending_commit_sender = {from}
      BY <1>1, <3>1, Zenon DEF TakesPrepare
    <3>3. QED
      BY <1>3, <2>1, <3>2
  <2>2. CASE hs # {}
    <3>1. PICK w \in Member : nd.pending_commit_sender = {w} /\ \A h \in hs : w <= h
      BY <2>2, Zenon DEF Hears
    <3>2. nd.pending_transition_id = tid
      BY <1>1, <2>2, Zenon DEF Hears
    <3>3. \/ r.pending_commit_sender = {w} /\ from >= w
          \/ r.pending_commit_sender = {from} /\ from < w
      BY <3>1, <3>2, Zenon DEF TakesPrepare
    <3>4. w \in Nat /\ from \in Nat
      BY MemberAssumption, Zenon
    <3>5. QED
      BY <1>3, <3>1, <3>3, <3>4
  <2>3. QED
    BY <2>1, <2>2, Zenon
<1>5. QED
  BY <1>1, <1>2, <1>4, Zenon DEF Hears

\* A frame taken by a member that only receives
LEMMA TakesHears ==
    ASSUME TypeOK, NEW m \in Member, NEW f \in net, Takes(m, f), Hears(m, node[m], heard[m])
    PROVE  Hears(m, node'[m], heard'[m])
<1>1. /\ node[m] \in GroupNodeType /\ heard[m] \in SUBSET Member
      /\ f.from \in Member /\ f.op \in Opcode /\ f.tid \in Nat
  BY Zenon DEF TypeOK, Frame
<1>2. CASE ~ TidOk(node[m], f.op, f.tid)
  BY <1>2, KeepsHears, Zenon DEF Takes, Handles
<1>3. CASE TidOk(node[m], f.op, f.tid)
  <2>1. heard'[m] = NowHeard(m, f)
    BY <1>3, Zenon DEF Takes
  <2>2. CASE f.op = "Ready"
    <3>1. Keeps(node[m], node'[m]) /\ heard'[m] = heard[m]
      BY <1>3, <2>1, <2>2, Zenon DEF Takes, Handles, NowHeard
    <3>2. QED
      BY <3>1, KeepsHears, Zenon
  <2>3. CASE f.op = "Prepare"
    <3>1. /\ TakesPrepare(node[m], node'[m], f.from, f.tid) /\ f.from # m
          /\ heard'[m] = heard[m] \cup {f.from}
      BY <1>3, <2>1, <2>3, Zenon DEF Takes, Handles, NowHeard
    <3>2. QED
      BY <1>1, <3>1, PrepareHears
  <2>4. CASE f.op \in {"Execute", "Abort"}
    <3>1. heard'[m] = {}
      BY <2>1, <2>4, Zenon DEF NowHeard
    <3>2. node'[m].pending_transition_id = 0
      BY <1>3, <2>4, Zenon DEF Takes, Handles, Ends
    <3>3. QED
      BY <3>1, <3>2, EndsHears, Zenon
  <2>5. QED
    BY <1>1, <2>2, <2>3, <2>4, Zenon DEF Opcode
<1>4. QED
  BY <1>2, <1>3, Zenon

\* What a step of m does to what m has heard
LEMMA StepHears ==
    ASSUME TypeOK, NEW m \in Member, m \notin Originator, Hears(m, node[m], heard[m]), StepOf(m)
    PROVE  Hears(m, node'[m], heard'[m])
<1>1. ~ \E tid \in 2 .. MaxTid : Prepare(m, tid)
  BY Zenon DEF Prepare
<1>2. CASE Ready(m)
  BY <1>2, ReadyStep, KeepsHears, Zenon
<1>3. CASE Execute(m)
  BY <1>3, Zenon DEF Execute, Hears
<1>4. CASE Abort(m) \/ PrepareTimeout(m)
  BY <1>4, Zenon DEF Abort, PrepareTimeout, GiveUp, Hears
<1>5. CASE \E c \in Originator : Join(m, c)
  <2>1. PICK c \in Originator : Join(m, c)
    BY <1>5, Zenon
  <2>2. /\ ~ Joined(m) /\ node'[m].pending_transition_id = 0 /\ heard'[m] = heard[m]
    BY <2>1, JoinStep, Zenon
  <2>3. heard[m] = {}
    BY <2>2, Zenon DEF TypeOK, Hears
  <2>4. QED
    BY <2>2, <2>3, EndsHears, Zenon
<1>6. CASE Restart(m)
  BY <1>6, RestartStep, EndsHears, Zenon
<1>7. ASSUME NEW f \in net, RejectEpoch(m, f) \/ DecryptFailed(m, f)
      PROVE  Hears(m, node'[m], heard'[m])
  BY <1>7, RefuseStep, KeepsHears, Zenon
<1>8. ASSUME NEW f \in net, Deliver(m, f)
      PROVE  Hears(m, node'[m], heard'[m])
  BY <1>8, DeliverStep, TakesHears, Zenon
<1>9. QED
  BY <1>1, <1>2, <1>3, <1>4, <1>5, <1>6, <1>7, <1>8, Zenon DEF StepOf

\* The inductive invariant holds initially and is kept.
LEMMA InitRaceInv ==
    ASSUME Init
    PROVE  RaceInv
<1>1. ASSUME NEW m \in Member PROVE Hears(m, node[m], heard[m])
  <2>1. node[m].pending_transition_id = 0 /\ heard[m] = {}
    BY InitMember, Zenon
  <2>2. Hears(m, node[m], {})
    BY <2>1, EndsHears, Zenon
  <2>3. QED
    BY <2>1, <2>2, Zenon
<1>2. QED
  BY <1>1, InitTypeOK, Zenon DEF RaceInv

LEMMA NextRaceInv ==
    ASSUME RaceInv, [Next]_vars
    PROVE  RaceInv'
<1>1. CASE UNCHANGED vars
  BY <1>1, Zenon DEF vars, RaceInv, TypeOK, Joined, Carries, Hears
<1>2. CASE Next
  <2>1. PICK m \in Member : StepOf(m)
    BY <1>2, NextIsStepOf, Zenon
  <2>2. TypeOK' /\ Moves(m)
    BY <2>1, StepMoves, Zenon DEF RaceInv
  <2>3. ASSUME NEW k \in Member \ Originator
        PROVE  Hears(k, node'[k], heard'[k])
    <3>1. Hears(k, node[k], heard[k])
      BY Zenon DEF RaceInv
    <3>2. CASE k = m
      BY <2>1, <3>1, <3>2, StepHears, Zenon DEF RaceInv
    <3>3. CASE k # m
      BY <2>2, <3>1, <3>3, Zenon DEF Moves
    <3>4. QED
      BY <3>2, <3>3, Zenon
  <2>4. QED
    BY <2>2, <2>3, Zenon DEF RaceInv
<1>3. QED
  BY <1>1, <1>2, Zenon

\* In every reachable state the nodes, the MLS contexts and the frames are of
\* their types, and nothing is pending at a node that has not joined (what the
\* Rust types of GroupNode and MlsContext promise their callers).
THEOREM BindingTyped == Spec => []TypeOK
<1>1. Init => RaceInv
  BY InitRaceInv, Zenon
<1>2. RaceInv /\ [Next]_vars => RaceInv'
  BY NextRaceInv, Zenon
<1>3. RaceInv => TypeOK
  BY Zenon DEF RaceInv
<1>4. QED
  BY <1>1, <1>2, <1>3, PTL DEF Spec

\* However many members originate, and in whatever order their frames arrive,
\* a member that only receives records the lowest sender whose PREPARE of the
\* pending tid it has handled (handle_control's tie-break).
THEOREM LowestPrepareIsKept == Spec => []LowestPrepareWins
<1>1. Init => RaceInv
  BY InitRaceInv, Zenon
<1>2. RaceInv /\ [Next]_vars => RaceInv'
  BY NextRaceInv, Zenon
<1>3. RaceInv => LowestPrepareWins
  BY Zenon DEF RaceInv, Hears, LowestPrepareWins
<1>4. QED
  BY <1>1, <1>2, <1>3, PTL DEF Spec

------------------------------------------------------------------------------
(* Any number of originators: the two epochs *)

LEMMA KeepsInStep ==
    ASSUME NEW nd, NEW r, NEW ctx, nd.state # "Idle", Keeps(nd, r), InStep(nd, ctx)
    PROVE  InStep(r, ctx)
BY Zenon DEF Keeps, InStep

\* An EXECUTE moves both on, because a commit waits; an ABORT moves neither.
LEMMA EndsInStep ==
    ASSUME NEW nd \in GroupNodeType, NEW r, NEW by, Ends(nd, r, by), nd.state # "Idle",
           NEW ctx, NEW x, InStep(nd, ctx), Len(x.group) = Len(ctx.group) + by
    PROVE  InStep(r, x)
BY Zenon DEF Ends, InStep

LEMMA EpochOfNode ==
    ASSUME NEW nd \in GroupNodeType
    PROVE  nd.current_epoch \in Nat
BY Zenon DEF GroupNodeType

LEMMA TakesInStep ==
    ASSUME TypeOK, NEW m \in Member, NEW f \in net, Takes(m, f), Joined(m),
           InStep(node[m], mls[m])
    PROVE  InStep(node'[m], mls'[m])
<1>1. /\ node[m] \in GroupNodeType /\ node[m].state # "Idle"
      /\ f.op \in Opcode /\ Carries(f) /\ Len(mls[m].group) \in Nat
  <2>1. mls[m] \in Context /\ f \in Frame
    BY Zenon DEF TypeOK
  <2>2. mls[m].group \in Seq(GroupCommit)
    BY <2>1, Zenon DEF Context
  <2>3. Len(mls[m].group) \in Nat
    BY <2>2
  <2>4. QED
    BY <2>1, <2>3, Zenon DEF TypeOK, Frame, Joined
<1>2. CASE ~ TidOk(node[m], f.op, f.tid) \/ f.op = "Ready"
  <2>1. Keeps(node[m], node'[m]) /\ mls'[m] = mls[m]
    BY <1>2, Zenon DEF Takes, Handles, Reacts
  <2>2. QED
    BY <1>1, <2>1, KeepsInStep, Zenon
<1>3. CASE TidOk(node[m], f.op, f.tid) /\ f.op = "Prepare"
  <2>1. /\ node'[m].current_epoch = node[m].current_epoch
        /\ mls'[m].group = mls[m].group
        /\ mls'[m].staged = IF mls[m].staged = {} THEN f.commit ELSE mls[m].staged
    BY <1>3, Zenon DEF Takes, Handles, TakesPrepare, Reacts
  <2>2. f.commit # {}
    BY <1>1, <1>3, Zenon DEF Carries
  <2>3. Waiting(mls'[m])
    BY <2>1, <2>2, Zenon DEF Waiting
  <2>4. QED
    BY <1>1, <2>1, <2>3, Zenon DEF InStep
<1>4. CASE TidOk(node[m], f.op, f.tid) /\ f.op = "Execute"
  <2>1. Ends(node[m], node'[m], 1) /\ node[m].pending_transition_id # 0
    BY <1>4, Zenon DEF Takes, Handles
  <2>2. Waiting(mls[m])
    BY <2>1, Zenon DEF InStep
  <2>3. Len(mls'[m].group) = Len(mls[m].group) + 1
    BY <1>4, <2>2, Zenon DEF Takes, Reacts
  <2>4. QED
    BY <1>1, <2>1, <2>3, EndsInStep, Zenon
<1>5. CASE TidOk(node[m], f.op, f.tid) /\ f.op = "Abort"
  <2>1. Ends(node[m], node'[m], 0) /\ mls'[m].group = mls[m].group
    BY <1>5, Zenon DEF Takes, Handles, Reacts
  <2>2. Len(mls'[m].group) = Len(mls[m].group) + 0
    BY <1>1, <2>1, PlusZero, Zenon
  <2>3. QED
    BY <1>1, <2>1, <2>2, EndsInStep, Zenon
<1>6. QED
  BY <1>1, <1>2, <1>3, <1>4, <1>5, Zenon DEF Opcode

LEMMA OwnInStep ==
    ASSUME TypeOK, NEW m \in Member, InStep(node[m], mls[m]),
           \/ \E tid \in 2 .. MaxTid : Prepare(m, tid)
           \/ Ready(m) \/ Execute(m) \/ Abort(m) \/ PrepareTimeout(m)
    PROVE  InStep(node'[m], mls'[m])
<1>1. node[m] \in GroupNodeType /\ node[m].state # "Idle"
  BY Zenon DEF TypeOK, Prepare, Ready, Execute, Abort, PrepareTimeout, GiveUp, MaySend, Joined
<1>2. ASSUME NEW tid \in 2 .. MaxTid, Prepare(m, tid)
      PROVE  InStep(node'[m], mls'[m])
  <2>1. tid \in Nat /\ tid # 0
    BY BindingBoundAssumption
  <2>2. TypeOK' /\ Prepares(m, tid)
    BY <1>2, <2>1, PrepareStep, Zenon
  <2>3. PICK p \in Frame : net' = net \cup {p} /\ p.op = "Prepare" /\ p.commit = mls'[m].pending
    BY <2>2, Zenon DEF Prepares
  <2>4. \E c \in p.commit : p.commit = {c}
    BY <2>2, <2>3, Zenon DEF TypeOK, Carries
  <2>5. Waiting(mls'[m])
    BY <2>3, <2>4, Zenon DEF Waiting
  <2>6. QED
    BY <1>1, <2>2, <2>5, Zenon DEF Prepares, InStep
<1>3. CASE Ready(m)
  BY <1>1, <1>3, ReadyStep, KeepsInStep, Zenon
<1>4. CASE Execute(m)
  <2>1. /\ Ends(node[m], node'[m], 1) /\ node[m].pending_transition_id # 0
        /\ Finalizes(mls[m], mls'[m])
    BY <1>4, ExecuteStep, Zenon DEF Decides
  <2>2. Len(mls'[m].group) = Len(mls[m].group) + 1
    BY <2>1, Zenon DEF InStep, Finalizes
  <2>3. QED
    BY <1>1, <2>1, <2>2, EndsInStep, Zenon
<1>5. CASE Abort(m) \/ PrepareTimeout(m)
  <2>1. Ends(node[m], node'[m], 0) /\ mls'[m].group = mls[m].group
    BY <1>5, AbortStep, Zenon DEF Decides
  <2>2. node[m].current_epoch \in Nat /\ node[m].current_epoch = Len(mls[m].group)
    BY <1>1, EpochOfNode, Zenon DEF InStep
  <2>3. Len(mls'[m].group) = Len(mls[m].group) + 0
    BY <2>1, <2>2, PlusZero, Zenon
  <2>4. QED
    BY <1>1, <2>1, <2>3, EndsInStep, Zenon
<1>6. QED
  BY <1>2, <1>3, <1>4, <1>5, Zenon

LEMMA StepInStep ==
    ASSUME TypeOK, NEW m \in Member, InStep(node[m], mls[m]), StepOf(m)
    PROVE  InStep(node'[m], mls'[m])
<1>1. CASE \E c \in Originator : Join(m, c)
  <2>1. PICK c \in Originator : Join(m, c)
    BY <1>1, Zenon
  <2>2. /\ node'[m].current_epoch = Len(mls[c].group)
        /\ mls'[m].group = mls[c].group
        /\ node'[m].pending_transition_id = 0
    BY <2>1, JoinStep, Zenon
  <2>3. node'[m].current_epoch = Len(mls'[m].group)
    BY <2>2, Zenon
  <2>4. QED
    BY <2>2, <2>3, Zenon DEF InStep
<1>2. CASE Restart(m)
  BY <1>2, RestartStep, Zenon DEF InStep
<1>3. ASSUME NEW f \in net, RejectEpoch(m, f) \/ DecryptFailed(m, f)
      PROVE  InStep(node'[m], mls'[m])
  <2>1. Keeps(node[m], node'[m]) /\ mls'[m] = mls[m]
    BY <1>3, RefuseStep, Zenon
  <2>2. node[m].state # "Idle"
    BY <1>3, Zenon DEF RejectEpoch, DecryptFailed, Accepts, Joined
  <2>3. QED
    BY <2>1, <2>2, KeepsInStep, Zenon
<1>4. ASSUME NEW f \in net, Deliver(m, f)
      PROVE  InStep(node'[m], mls'[m])
  BY <1>4, DeliverStep, TakesInStep, Zenon
<1>5. QED
  BY <1>1, <1>2, <1>3, <1>4, OwnInStep, Zenon DEF StepOf

\* However many members originate, and whatever is lost, repeated or reordered,
\* aborted, timed out or restarted, a joined member's GBP epoch is its MLS epoch
\* (apply_transition and finalize_pending_commit move on together, as no
\* transition is pending without a commit that waits for it).
THEOREM EpochIsBound == Spec => []EpochIsMlsEpoch
<1>1. ASSUME Init PROVE StepInv
  <2>1. ASSUME NEW m \in Member PROVE InStep(node[m], mls[m])
    <3>1. Len(<<FirstCommit>>) = 1
      OBVIOUS
    <3>2. QED
      BY <1>1, <3>1, InitMember, Zenon DEF InStep
  <2>2. QED
    BY <1>1, <2>1, InitTypeOK, Zenon DEF StepInv
<1>2. ASSUME StepInv, [Next]_vars PROVE StepInv'
  <2>1. CASE UNCHANGED vars
    BY <1>2, <2>1, Zenon DEF vars, StepInv, TypeOK, Joined, Carries, InStep, Waiting
  <2>2. CASE Next
    <3>1. PICK m \in Member : StepOf(m)
      BY <2>2, NextIsStepOf, Zenon
    <3>2. TypeOK' /\ Moves(m)
      BY <1>2, <3>1, StepMoves, Zenon DEF StepInv
    <3>3. InStep(node'[m], mls'[m])
      BY <1>2, <3>1, StepInStep, Zenon DEF StepInv
    <3>4. \A k \in Member : k # m => InStep(node'[k], mls'[k])
      BY <1>2, <3>2, Zenon DEF StepInv, Moves
    <3>5. \A k \in Member : InStep(node'[k], mls'[k])
      BY <3>3, <3>4, Zenon
    <3>6. QED
      BY <3>2, <3>5, Zenon DEF StepInv, InStep, Waiting
  <2>3. QED
    BY <1>2, <2>1, <2>2, Zenon
<1>3. StepInv => EpochIsMlsEpoch
  BY Zenon DEF StepInv, InStep, EpochIsMlsEpoch, Epoch, Joined
<1>4. QED
  BY <1>1, <1>2, <1>3, PTL DEF Spec

------------------------------------------------------------------------------
(* A sole originator: the parts of the invariant *)

LEMMA PrefixReflexive ==
    ASSUME NEW s
    PROVE  Len(s) \in Nat => Prefix(s, s)
BY DEF Prefix

LEMMA PrefixTransitive ==
    ASSUME NEW S, NEW s \in Seq(S), NEW t \in Seq(S), NEW u \in Seq(S),
           Prefix(s, t), Prefix(t, u)
    PROVE  Prefix(s, u)
<1>1. /\ Len(s) \in Nat /\ Len(t) \in Nat /\ Len(u) \in Nat
      /\ Len(s) <= Len(t) /\ Len(t) <= Len(u)
  BY DEF Prefix
<1>2. \A i \in 1 .. Len(s) : i \in 1 .. Len(t)
  BY <1>1
<1>3. QED
  BY <1>1, <1>2 DEF Prefix

LEMMA PrefixOfAppend ==
    ASSUME NEW S, NEW s \in Seq(S), NEW c \in S
    PROVE  Prefix(s, Append(s, c))
<1>1. /\ Len(s) \in Nat /\ Len(Append(s, c)) = Len(s) + 1
      /\ \A i \in 1 .. Len(s) : Append(s, c)[i] = s[i]
  OBVIOUS
<1>2. QED
  BY <1>1 DEF Prefix

\* The next commit of t extends a prefix of it.
LEMMA AppendStaysPrefix ==
    ASSUME NEW S, NEW s \in Seq(S), NEW t \in Seq(S), Prefix(s, t), Len(s) < Len(t)
    PROVE  Prefix(Append(s, t[Len(s) + 1]), t)
<1> DEFINE c == t[Len(s) + 1]
<1>1. Len(s) \in Nat /\ Len(t) \in Nat /\ Len(s) + 1 \in 1 .. Len(t)
  OBVIOUS
<1>2. c \in S
  BY <1>1
<1> HIDE DEF c
<1>3. /\ Len(Append(s, c)) = Len(s) + 1
      /\ \A i \in 1 .. Len(s) : Append(s, c)[i] = s[i]
      /\ Append(s, c)[Len(s) + 1] = c
  BY <1>2
<1>4. \A i \in 1 .. Len(s) + 1 : i \in 1 .. Len(s) \/ i = Len(s) + 1
  BY <1>1
<1>5. \A i \in 1 .. Len(s) : s[i] = t[i]
  BY Zenon DEF Prefix
<1>6. \A i \in 1 .. Len(s) + 1 : Append(s, c)[i] = t[i]
  BY <1>3, <1>4, <1>5, Zenon DEF c
<1>7. QED
  BY <1>1, <1>3, <1>6 DEF Prefix, c

\* More frames and more commits of the originator take nothing back.
LEMMA AnnouncedMonotone ==
    ASSUME NEW o, NEW frames, NEW more, NEW nd, NEW cs, frames \subseteq more,
           Announced(o, frames, nd, cs)
    PROVE  Announced(o, more, nd, cs)
BY Zenon DEF Announced

LEMMA ReceiverMonotone ==
    ASSUME NEW o, NEW nd, NEW ctx \in Context, NEW group \in Seq(GroupCommit),
           NEW longer \in Seq(GroupCommit), NEW frames, NEW more,
           frames \subseteq more, Prefix(group, longer),
           ReceiverBound(o, nd, ctx, group, frames)
    PROVE  ReceiverBound(o, nd, ctx, longer, more)
<1>1. ctx.group \in Seq(GroupCommit) /\ Prefix(ctx.group, group)
  BY Zenon DEF Context, ReceiverBound
<1>2. Prefix(ctx.group, longer)
  BY <1>1, PrefixTransitive, Zenon
<1>3. nd.pending_transition_id # 0 => Announced(o, more, nd, ctx.staged)
  BY AnnouncedMonotone, Zenon DEF ReceiverBound
<1>4. QED
  BY <1>2, <1>3, Zenon DEF ReceiverBound

LEMMA ExecutedMonotone ==
    ASSUME NEW f \in Frame, NEW frames, NEW more, frames \subseteq more,
           NEW group \in Seq(GroupCommit), NEW longer \in Seq(GroupCommit),
           Prefix(group, longer), Executed(f, frames, group)
    PROVE  Executed(f, more, longer)
<1>1. f.epoch \in Nat /\ Len(group) \in Nat /\ Len(longer) \in Nat
  BY DEF Frame
<1>2. f.epoch < Len(group) /\ Len(group) <= Len(longer)
  BY Zenon DEF Executed, Prefix
<1>3. f.epoch + 1 \in 1 .. Len(group) /\ f.epoch < Len(longer)
  BY <1>1, <1>2
<1>4. longer[f.epoch + 1] = group[f.epoch + 1]
  BY <1>3, Zenon DEF Prefix
<1>5. QED
  BY <1>3, <1>4, Zenon DEF Executed

\* A node that keeps epoch and transition keeps the binding.
LEMMA KeepsReceiver ==
    ASSUME NEW o, NEW nd, NEW r, NEW ctx, NEW group, NEW frames,
           nd.state # "Idle", Keeps(nd, r), ReceiverBound(o, nd, ctx, group, frames)
    PROVE  ReceiverBound(o, r, ctx, group, frames)
BY Zenon DEF Keeps, ReceiverBound, Announced

LEMMA KeepsOriginator ==
    ASSUME NEW o, NEW nd, NEW r, NEW ctx, NEW frames, NEW more, frames \subseteq more,
           Keeps(nd, r), OriginatorBound(o, nd, ctx, frames)
    PROVE  OriginatorBound(o, r, ctx, more)
BY Zenon DEF Keeps, OriginatorBound, Announced

\* A frame the originator, or a READY somebody else, adds
LEMMA FramesAdd ==
    ASSUME NEW o, NEW frames \in SUBSET Frame, NEW p \in Frame,
           NEW last \in Nat, NEW next \in Nat, last <= next,
           NEW group \in Seq(GroupCommit), NEW longer \in Seq(GroupCommit),
           Prefix(group, longer), FramesBound(o, frames, last, group),
           p.op # "Ready" => p.from = o,
           p.op = "Prepare" => last < p.tid /\ p.tid <= next,
           p.op = "Execute" => Executed(p, frames \cup {p}, longer)
    PROVE  FramesBound(o, frames \cup {p}, next, longer)
<1> DEFINE more == frames \cup {p}
<1>1. \A f \in more : f \in Frame /\ f.tid \in Nat
  BY Zenon DEF Frame
<1>2. \A f \in more : f.op # "Ready" => f.from = o
  BY Zenon DEF FramesBound
<1>3. \A f \in frames : f.op = "Prepare" => f.tid <= last
  BY Zenon DEF FramesBound
<1>4. \A f \in more : f.op = "Prepare" => f.tid <= next
  BY <1>1, <1>3
<1>5. ASSUME NEW f \in more, NEW g \in more,
             f.op = "Prepare", g.op = "Prepare", f.tid = g.tid
      PROVE  f.commit = g.commit
  <2>1. f \in frames /\ g \in frames => f.commit = g.commit
    BY <1>5, Zenon DEF FramesBound
  <2>2. f \in frames /\ g = p => FALSE
    BY <1>1, <1>3, <1>5
  <2>3. g \in frames /\ f = p => FALSE
    BY <1>1, <1>3, <1>5
  <2>4. QED
    BY <2>1, <2>2, <2>3, Zenon
<1>6. ASSUME NEW f \in more, f.op = "Execute"
      PROVE  Executed(f, more, longer)
  <2>1. CASE f \in frames
    <3>1. Executed(f, frames, group) /\ frames \subseteq more
      BY <1>6, <2>1, Zenon DEF FramesBound
    <3> HIDE DEF more
    <3>2. QED
      BY <1>1, <3>1, ExecutedMonotone, Zenon
  <2>2. CASE f = p
    BY <1>6, <2>2, Zenon
  <2>3. QED
    BY <2>1, <2>2, Zenon
<1> HIDE DEF more
<1>7. FramesBound(o, more, next, longer)
  BY <1>2, <1>4, <1>5, <1>6, Zenon DEF FramesBound
<1>8. QED
  BY <1>7, Zenon DEF more

\* What the invariants say of a sole originator o
SoleOriginator(o) ==
    /\ TypeOK /\ Joined(o) /\ node[o] \in GroupNodeType /\ mls[o] \in Context
    /\ mls[o].group \in Seq(GroupCommit) /\ Len(mls[o].group) \in Nat
    /\ Prefix(mls[o].group, mls[o].group)
    /\ net \in SUBSET Frame /\ tried[o] \in Nat /\ tried[o] <= tried[o]
    /\ OriginatorBound(o, node[o], mls[o], net)
    /\ FramesBound(o, net, tried[o], mls[o].group)
    /\ \A m \in Member \ {o} : m \notin heard[m]

LEMMA SoleFacts ==
    ASSUME NEW o \in Member, Originator = {o}, BindingInv(o)
    PROVE  SoleOriginator(o)
<1>1. TypeOK /\ OriginatorBound(o, node[o], mls[o], net)
      /\ FramesBound(o, net, tried[o], mls[o].group)
  BY Zenon DEF BindingInv, RaceInv
<1>2. /\ node[o] \in GroupNodeType /\ mls[o] \in Context
      /\ net \in SUBSET Frame /\ tried[o] \in Nat
  BY <1>1, Zenon DEF TypeOK
<1>3. mls[o].group \in Seq(GroupCommit) /\ Len(mls[o].group) \in Nat
  BY <1>2 DEF Context
<1>4. \A m \in Member \ {o} : m \notin heard[m]
  BY Zenon DEF BindingInv, RaceInv, Hears
<1>5. Prefix(mls[o].group, mls[o].group)
  BY <1>3, PrefixReflexive, Zenon
<1>6. Joined(o) /\ tried[o] <= tried[o]
  BY <1>1, <1>2 DEF OriginatorBound, Joined
<1>7. QED
  BY <1>1, <1>2, <1>3, <1>4, <1>5, <1>6, Zenon DEF SoleOriginator

\* A step of the originator o
OriginatorKept(o) ==
    /\ OriginatorBound(o, node'[o], mls'[o], net')
    /\ FramesBound(o, net', tried'[o], mls'[o].group)
    /\ Prefix(mls[o].group, mls'[o].group)

LEMMA OriginatorPrepares ==
    ASSUME NEW o \in Member, Originator = {o}, BindingInv(o),
           NEW tid \in 2 .. MaxTid, Prepare(o, tid)
    PROVE  OriginatorKept(o)
<1>0. SoleOriginator(o)
  BY SoleFacts, Zenon
<1>1. tid \in Nat /\ tid # 0
  BY BindingBoundAssumption
<1>2. TypeOK /\ TypeOK' /\ Prepares(o, tid)
  BY <1>0, <1>1, PrepareStep, Zenon DEF SoleOriginator
<1>3. PICK p \in Frame :
          /\ net' = net \cup {p} /\ p.op = "Prepare" /\ p.from = o /\ p.tid = tid
          /\ p.epoch = node[o].current_epoch /\ p.commit = mls'[o].pending
  BY <1>2, Zenon DEF Prepares
<1>4. mls'[o].group = mls[o].group /\ tried'[o] = tid /\ tried[o] < tid
  BY <1>0, <1>2, <1>1, Zenon DEF Prepares, SoleOriginator
<1>5. FramesBound(o, net \cup {p}, tid, mls[o].group)
  <2>0. tried[o] \in Nat
    BY <1>0, Zenon DEF SoleOriginator
  <2>1. tried[o] <= tid /\ tried[o] < p.tid /\ p.tid <= tid
    BY <1>1, <1>3, <1>4, <2>0
  <2>2. p.op # "Execute"
    BY <1>3, Zenon
  <2>3. QED
    BY <1>0, <1>1, <1>3, <2>1, <2>2, FramesAdd, Zenon DEF SoleOriginator
<1>6. Announced(o, net', node'[o], mls'[o].pending)
  BY <1>2, <1>3, Zenon DEF Announced, Prepares
<1>7. OriginatorBound(o, node'[o], mls'[o], net')
  BY <1>0, <1>1, <1>2, <1>6, Zenon DEF OriginatorBound, Prepares, SoleOriginator
<1>8. QED
  BY <1>0, <1>3, <1>4, <1>5, <1>7, Zenon DEF OriginatorKept, SoleOriginator

LEMMA OriginatorExecutes ==
    ASSUME NEW o \in Member, Originator = {o}, BindingInv(o), Execute(o)
    PROVE  OriginatorKept(o)
<1> DEFINE G == mls[o].group
           H == mls'[o].group
<1>0. SoleOriginator(o)
  BY SoleFacts, Zenon
<1>1. TypeOK /\ TypeOK' /\ Decides(o, "Execute", 1) /\ Finalizes(mls[o], mls'[o])
  BY <1>0, ExecuteStep, Zenon DEF SoleOriginator
<1>2. /\ G \in Seq(GroupCommit) /\ H \in Seq(GroupCommit) /\ node[o].current_epoch = Len(G)
      /\ Len(G) \in Nat /\ node[o].pending_transition_id # 0
      /\ Announced(o, net, node[o], mls[o].pending) /\ mls[o].staged = {}
  BY <1>0, <1>1, Zenon DEF TypeOK, Context, OriginatorBound, Decides, SoleOriginator
<1>3. PICK p \in net :
          /\ p.op = "Prepare" /\ p.from = o /\ p.tid = node[o].pending_transition_id
          /\ p.commit = mls[o].pending
  BY <1>2, Zenon DEF Announced
<1>4. PICK c \in p.commit : p.commit = {c}
  BY <1>1, <1>3, Zenon DEF TypeOK, Carries
<1>5. c \in Commit /\ c \in GroupCommit
  BY <1>1, <1>3, <1>4, Zenon DEF TypeOK, Frame, GroupCommit
<1>6. H = Append(G, c) /\ mls'[o].pending = {} /\ mls'[o].staged = {}
  BY <1>1, <1>2, <1>3, <1>4, <1>5, Zenon DEF Finalizes
<1>7. PICK f \in Frame :
          /\ net' = net \cup {f} /\ f.op = "Execute" /\ f.from = o
          /\ f.tid = node[o].pending_transition_id /\ f.epoch = node[o].current_epoch
  BY <1>1, Zenon DEF Decides
<1> HIDE DEF G, H
<1>8. /\ Len(H) = Len(G) + 1 /\ H[Len(G) + 1] = c /\ Prefix(G, H)
  BY <1>2, <1>5, <1>6, PrefixOfAppend
<1>9. Executed(f, net \cup {f}, H)
  <2>1. f.epoch < Len(H)
    BY <1>2, <1>7, <1>8, BelowNext, Zenon
  <2>2. p.commit = {H[f.epoch + 1]} /\ p.tid = f.tid
    BY <1>2, <1>3, <1>4, <1>7, <1>8, Zenon
  <2>3. QED
    BY <1>3, <2>1, <2>2, Zenon DEF Executed
<1>10. tried'[o] = tried[o] /\ tried[o] \in Nat /\ tried[o] <= tried[o]
  BY <1>0, <1>1, Zenon DEF Decides, SoleOriginator
<1>11. FramesBound(o, net \cup {f}, tried[o], H)
  <2>1. f.op # "Prepare"
    BY <1>7, Zenon
  <2>2. /\ net \in SUBSET Frame /\ FramesBound(o, net, tried[o], G)
    BY <1>0, Zenon DEF SoleOriginator, G
  <2>3. QED
    BY <1>2, <1>7, <1>8, <1>9, <1>10, <2>1, <2>2, FramesAdd, Zenon
<1>12. /\ node'[o].state # "Idle" /\ node'[o].current_epoch = Len(H)
       /\ node'[o].pending_transition_id = 0
  BY <1>0, <1>1, <1>2, <1>8, Zenon DEF Decides, Ends, Joined, SoleOriginator
<1>13. OriginatorBound(o, node'[o], mls'[o], net')
  BY <1>6, <1>12, Zenon DEF OriginatorBound, H
<1>14. QED
  BY <1>7, <1>8, <1>10, <1>11, <1>13, Zenon DEF OriginatorKept, G, H

LEMMA OriginatorAborts ==
    ASSUME NEW o \in Member, Originator = {o}, BindingInv(o), Abort(o) \/ PrepareTimeout(o)
    PROVE  OriginatorKept(o)
<1>0. SoleOriginator(o)
  BY SoleFacts, Zenon
<1>1. /\ TypeOK /\ TypeOK' /\ Decides(o, "Abort", 0)
      /\ mls'[o].group = mls[o].group /\ mls'[o].pending = {} /\ mls'[o].staged = {}
  BY <1>0, AbortStep, Zenon DEF SoleOriginator
<1>2. PICK f \in Frame : net' = net \cup {f} /\ f.op = "Abort" /\ f.from = o
  BY <1>1, Zenon DEF Decides
<1>3. tried'[o] = tried[o] /\ tried[o] \in Nat /\ tried[o] <= tried[o]
  BY <1>0, <1>1, Zenon DEF Decides, SoleOriginator
<1>4. FramesBound(o, net \cup {f}, tried[o], mls[o].group)
  <2>1. f.op # "Prepare" /\ f.op # "Execute"
    BY <1>2, Zenon
  <2>2. QED
    BY <1>0, <1>2, <1>3, <2>1, FramesAdd, Zenon DEF SoleOriginator
<1>5. node[o].current_epoch \in Nat /\ node[o].current_epoch = Len(mls[o].group)
  BY <1>0, Zenon DEF GroupNodeType, OriginatorBound, SoleOriginator
<1>6. OriginatorBound(o, node'[o], mls'[o], net')
  <2>1. /\ node'[o].pending_transition_id = 0
        /\ node[o].state # "Idle" => node'[o].state # "Idle"
        /\ node'[o].current_epoch = node[o].current_epoch + 0
    BY <1>1, Zenon DEF Decides, Ends
  <2>2. node[o].state # "Idle" /\ mls'[o].group = mls[o].group
    BY <1>0, <1>1, Zenon DEF Joined, SoleOriginator
  <2>3. node'[o].current_epoch = Len(mls'[o].group) /\ node'[o].state # "Idle"
    BY <1>5, <2>1, <2>2, PlusZero, Zenon
  <2>4. QED
    BY <1>1, <2>1, <2>3, Zenon DEF OriginatorBound
<1>7. QED
  BY <1>0, <1>1, <1>2, <1>3, <1>4, <1>6, Zenon DEF OriginatorKept, SoleOriginator

\* The only frames the originator is sent are READY.
LEMMA OriginatorReceives ==
    ASSUME NEW o \in Member, Originator = {o}, BindingInv(o), NEW f \in net,
           RejectEpoch(o, f) \/ DecryptFailed(o, f) \/ Deliver(o, f)
    PROVE  OriginatorKept(o)
<1>0. SoleOriginator(o)
  BY SoleFacts, Zenon
<1>1. /\ Keeps(node[o], node'[o]) /\ mls'[o] = mls[o] /\ net' = net /\ tried' = tried
  <2>1. CASE RejectEpoch(o, f) \/ DecryptFailed(o, f)
    BY <1>0, <2>1, RefuseStep, Zenon DEF SoleOriginator
  <2>2. CASE Deliver(o, f)
    <3>1. Takes(o, f)
      BY <1>0, <2>2, DeliverStep, Zenon DEF SoleOriginator
    <3>2. f.op = "Ready"
      BY <1>0, <3>1, Zenon DEF Takes, FramesBound, SoleOriginator
    <3>3. QED
      BY <3>1, <3>2, Zenon DEF Takes, Handles, Reacts
  <2>3. QED
    BY <2>1, <2>2, Zenon
<1>2. OriginatorBound(o, node'[o], mls'[o], net')
  BY <1>0, <1>1, KeepsOriginator, Zenon DEF SoleOriginator
<1>3. QED
  BY <1>0, <1>1, <1>2, Zenon DEF OriginatorKept, SoleOriginator

LEMMA OriginatorSteps ==
    ASSUME NEW o \in Member, Originator = {o}, BindingInv(o), StepOf(o)
    PROVE  OriginatorKept(o)
<1>0. SoleOriginator(o)
  BY SoleFacts, Zenon
<1>1. ~ Ready(o) /\ ~ Restart(o) /\ ~ \E c \in Originator : Join(o, c)
  BY <1>0, RestartAssumption, Zenon DEF Ready, Restart, Join, SoleOriginator
<1>2. QED
  BY <1>1, OriginatorPrepares, OriginatorExecutes, OriginatorAborts, OriginatorReceives, Zenon
     DEF StepOf

\* A step of a member m that only receives
ReceiverKept(o, m) ==
    /\ ReceiverBound(o, node'[m], mls'[m], mls[o].group, net')
    /\ FramesBound(o, net', tried'[o], mls[o].group)

Receiver(o, m) ==
    /\ node[m] \in GroupNodeType /\ mls[m] \in Context
    /\ mls[m].group \in Seq(GroupCommit) /\ Len(mls[m].group) \in Nat
    /\ ReceiverBound(o, node[m], mls[m], mls[o].group, net)

LEMMA ReceiverFacts ==
    ASSUME NEW o \in Member, Originator = {o}, BindingInv(o), NEW m \in Member \ {o}
    PROVE  Receiver(o, m)
<1>1. node[m] \in GroupNodeType /\ mls[m] \in Context
  BY Zenon DEF BindingInv, RaceInv, TypeOK
<1>2. mls[m].group \in Seq(GroupCommit) /\ Len(mls[m].group) \in Nat
  BY <1>1 DEF Context
<1>3. ReceiverBound(o, node[m], mls[m], mls[o].group, net)
  BY Zenon DEF BindingInv
<1>4. QED
  BY <1>1, <1>2, <1>3, Zenon DEF Receiver

LEMMA ReceiverTakesPrepare ==
    ASSUME NEW o \in Member, Originator = {o}, BindingInv(o), NEW m \in Member \ {o},
           NEW f \in net, Joined(m), Takes(m, f), f.op = "Prepare",
           TidOk(node[m], f.op, f.tid)
    PROVE  ReceiverBound(o, node'[m], mls'[m], mls[o].group, net)
<1>0. SoleOriginator(o) /\ Receiver(o, m)
  BY SoleFacts, ReceiverFacts, Zenon
<1>1. /\ TakesPrepare(node[m], node'[m], f.from, f.tid)
      /\ Reacts(mls[m], mls'[m], f) /\ f.epoch = node[m].current_epoch
  BY Zenon DEF Takes, Handles
<1>2. f.from = o
  BY <1>0, Zenon DEF FramesBound, SoleOriginator
<1>3. ReceiverBound(o, node[m], mls[m], mls[o].group, net)
  BY <1>0, Zenon DEF Receiver
<1>4. /\ node'[m].current_epoch = node[m].current_epoch
      /\ node'[m].pending_transition_id = f.tid /\ f.tid # 0
      /\ mls'[m].group = mls[m].group /\ mls'[m].pending = mls[m].pending
  BY <1>1, Zenon DEF TakesPrepare, Reacts
<1>5. CASE node[m].pending_transition_id = 0
  <2>1. mls'[m].staged = f.commit
    BY <1>1, <1>3, <1>5, Zenon DEF ReceiverBound, Reacts
  <2>2. node'[m].pending_commit_sender = {o}
    BY <1>1, <1>2, <1>4, <1>5, Zenon DEF TakesPrepare
  <2>3. Announced(o, net, node'[m], mls'[m].staged)
    BY <1>1, <1>2, <1>4, <2>1, Zenon DEF Announced
  <2>4. QED
    BY <1>3, <1>4, <2>2, <2>3, Zenon DEF ReceiverBound, Joined
<1>6. CASE node[m].pending_transition_id # 0
  <2>1. /\ node[m].pending_transition_id = f.tid
        /\ Announced(o, net, node[m], mls[m].staged)
        /\ node[m].pending_commit_sender = {o}
    BY <1>1, <1>3, <1>6, Zenon DEF TakesPrepare, ReceiverBound
  <2>2. mls[m].staged # {}
    BY <1>0, <2>1, Zenon DEF Announced, TypeOK, Carries, SoleOriginator
  <2>3. mls'[m].staged = mls[m].staged
    BY <1>1, <2>2, Zenon DEF Reacts
  <2>4. node'[m].pending_commit_sender = {o}
    BY <1>1, <1>2, <2>1, Zenon DEF TakesPrepare
  <2>5. Announced(o, net, node'[m], mls'[m].staged)
    BY <1>4, <2>1, <2>3, Zenon DEF Announced
  <2>6. QED
    BY <1>3, <1>4, <2>4, <2>5, Zenon DEF ReceiverBound, Joined
<1>7. QED
  BY <1>5, <1>6, Zenon

\* EXECUTE merges the commit the originator merged in this epoch.
LEMMA ReceiverTakesExecute ==
    ASSUME NEW o \in Member, Originator = {o}, BindingInv(o), NEW m \in Member \ {o},
           NEW f \in net, Joined(m), Takes(m, f), f.op = "Execute",
           TidOk(node[m], f.op, f.tid)
    PROVE  ReceiverBound(o, node'[m], mls'[m], mls[o].group, net)
<1> DEFINE G == mls[o].group
           s == mls[m].group
<1>0. SoleOriginator(o) /\ Receiver(o, m)
  BY SoleFacts, ReceiverFacts, Zenon
<1>1. /\ Ends(node[m], node'[m], 1) /\ node[m].pending_transition_id = f.tid /\ f.tid # 0
      /\ Reacts(mls[m], mls'[m], f) /\ f.epoch = node[m].current_epoch
  BY Zenon DEF Takes, Handles
<1>2. /\ ReceiverBound(o, node[m], mls[m], G, net)
      /\ s \in Seq(GroupCommit) /\ Len(s) \in Nat /\ G \in Seq(GroupCommit)
  BY <1>0, Zenon DEF SoleOriginator, Receiver
<1>3. node[m].current_epoch = Len(s) /\ Prefix(s, G)
  BY <1>2, Zenon DEF ReceiverBound, Joined
<1>4. PICK p \in net :
          p.op = "Prepare" /\ p.tid = f.tid /\ p.commit = mls[m].staged
  BY <1>1, <1>2, Zenon DEF ReceiverBound, Announced
<1>5. PICK c \in p.commit : p.commit = {c}
  BY <1>0, <1>4, Zenon DEF TypeOK, Carries, SoleOriginator
<1>6. c \in Commit
  BY <1>0, <1>4, <1>5, Zenon DEF TypeOK, Frame, SoleOriginator
<1>7. Executed(f, net, G)
  BY <1>0, Zenon DEF FramesBound, SoleOriginator
<1>8. PICK q \in net : q.op = "Prepare" /\ q.tid = f.tid /\ q.commit = {G[f.epoch + 1]}
  BY <1>7, Zenon DEF Executed
<1>9. p.commit = q.commit
  BY <1>0, <1>4, <1>8, Zenon DEF FramesBound, SoleOriginator
<1>10. c = G[Len(s) + 1] /\ Len(s) < Len(G)
  BY <1>1, <1>3, <1>5, <1>7, <1>8, <1>9, Zenon DEF Executed
<1>11. /\ mls'[m].group = Append(s, c) /\ mls'[m].pending = {} /\ mls'[m].staged = {}
  BY <1>1, <1>4, <1>5, <1>6, Zenon DEF Reacts
<1>12. Prefix(mls'[m].group, G)
  BY <1>2, <1>3, <1>10, <1>11, AppendStaysPrefix, Zenon
<1>13. c \in GroupCommit
  BY <1>6, Zenon DEF GroupCommit
<1>14. Len(mls'[m].group) = Len(s) + 1
  <2>1. Len(Append(s, c)) = Len(s) + 1
    BY <1>2, <1>13, LenOfAppend, Zenon
  <2>2. QED
    BY <1>11, <2>1, Zenon
<1>15. node'[m].current_epoch = Len(mls'[m].group) /\ node'[m].pending_transition_id = 0
  BY <1>1, <1>3, <1>14, Zenon DEF Ends
<1>16. QED
  BY <1>11, <1>12, <1>15, Zenon DEF ReceiverBound

LEMMA ReceiverTakes ==
    ASSUME NEW o \in Member, Originator = {o}, BindingInv(o), NEW m \in Member \ {o},
           NEW f \in net, Joined(m), Takes(m, f)
    PROVE  ReceiverBound(o, node'[m], mls'[m], mls[o].group, net)
<1>0. SoleOriginator(o) /\ Receiver(o, m)
  BY SoleFacts, ReceiverFacts, Zenon
<1>1. f.op \in Opcode
  BY <1>0, Zenon DEF Frame, SoleOriginator
<1>2. ReceiverBound(o, node[m], mls[m], mls[o].group, net)
  BY <1>0, Zenon DEF Receiver
<1>3. CASE ~ TidOk(node[m], f.op, f.tid) \/ f.op = "Ready"
  <2>1. Keeps(node[m], node'[m]) /\ mls'[m] = mls[m]
    BY <1>3, Zenon DEF Takes, Handles, Reacts
  <2>2. QED
    BY <1>2, <2>1, KeepsReceiver, Zenon DEF Joined
<1>4. CASE TidOk(node[m], f.op, f.tid) /\ f.op = "Prepare"
  BY <1>4, ReceiverTakesPrepare, Zenon
<1>5. CASE TidOk(node[m], f.op, f.tid) /\ f.op = "Execute"
  BY <1>5, ReceiverTakesExecute, Zenon
<1>6. CASE TidOk(node[m], f.op, f.tid) /\ f.op = "Abort"
  <2>1. /\ Ends(node[m], node'[m], 0) /\ mls'[m].group = mls[m].group
        /\ mls'[m].pending = {} /\ mls'[m].staged = {}
    BY <1>6, Zenon DEF Takes, Handles, Reacts
  <2>2. node[m].current_epoch \in Nat
    BY <1>0, Zenon DEF GroupNodeType, Receiver
  <2>3. node'[m].current_epoch = node[m].current_epoch /\ node'[m].pending_transition_id = 0
    BY <2>1, <2>2, PlusZero, Zenon DEF Ends
  <2>4. QED
    BY <1>2, <2>1, <2>3, Zenon DEF ReceiverBound, Joined
<1>7. QED
  BY <1>1, <1>3, <1>4, <1>5, <1>6, Zenon DEF Opcode

LEMMA ReceiverSteps ==
    ASSUME NEW o \in Member, Originator = {o}, BindingInv(o), NEW m \in Member \ {o},
           StepOf(m)
    PROVE  ReceiverKept(o, m)
<1> DEFINE G == mls[o].group
<1>0. SoleOriginator(o) /\ Receiver(o, m)
  BY SoleFacts, ReceiverFacts, Zenon
<1>1. /\ ReceiverBound(o, node[m], mls[m], G, net) /\ G \in Seq(GroupCommit)
      /\ FramesBound(o, net, tried[o], G) /\ TypeOK /\ mls[m] \in Context
      /\ Prefix(G, G) /\ Len(G) \in Nat
  BY <1>0, Zenon DEF SoleOriginator, Receiver
<1>2. /\ ~ \E tid \in 2 .. MaxTid : Prepare(m, tid)
      /\ ~ Execute(m) /\ ~ Abort(m) /\ ~ PrepareTimeout(m)
  BY <1>0, Zenon DEF Prepare, Execute, Abort, PrepareTimeout, GiveUp, SoleOriginator
<1>3. CASE Ready(m)
  <2>1. /\ Keeps(node[m], node'[m]) /\ mls'[m] = mls[m] /\ tried' = tried
    BY <1>1, <1>3, ReadyStep, Zenon
  <2>2. PICK p \in Frame : net' = net \cup {p} /\ p.op = "Ready"
    BY <1>1, <1>3, ReadyStep, Zenon
  <2>3. ReceiverBound(o, node'[m], mls'[m], G, net)
    BY <1>1, <1>3, <2>1, KeepsReceiver, Zenon DEF Ready, MaySend, Joined
  <2>4. mls'[m] \in Context /\ net \subseteq net'
    BY <1>1, <2>1, <2>2, Zenon
  <2>5. ReceiverBound(o, node'[m], mls'[m], G, net')
    BY <1>1, <2>3, <2>4, ReceiverMonotone, Zenon
  <2>6. /\ p.op # "Prepare" /\ p.op # "Execute" /\ tried[o] <= tried[o]
        /\ tried[o] \in Nat /\ net \in SUBSET Frame
    BY <1>0, <2>2, Zenon DEF SoleOriginator
  <2> HIDE DEF G
  <2>7. FramesBound(o, net \cup {p}, tried[o], G)
    BY <1>1, <2>2, <2>6, FramesAdd, Zenon
  <2>8. QED
    BY <2>1, <2>2, <2>5, <2>7, Zenon DEF ReceiverKept, G
<1>4. CASE \E c \in Originator : Join(m, c)
  <2>1. /\ ~ Joined(m) /\ net' = net /\ tried' = tried
        /\ node'[m].current_epoch = Len(G) /\ node'[m].pending_transition_id = 0
        /\ mls'[m].group = G
        /\ mls'[m].pending = mls[m].pending /\ mls'[m].staged = mls[m].staged
    BY <1>1, <1>4, JoinStep, Zenon
  <2>2. node[m].pending_transition_id = 0
    BY <1>1, <2>1, Zenon DEF TypeOK
  <2>3. ReceiverBound(o, node'[m], mls'[m], G, net')
    BY <1>1, <2>1, <2>2, Zenon DEF ReceiverBound
  <2>4. QED
    BY <1>1, <2>1, <2>3, Zenon DEF ReceiverKept
<1>5. CASE Restart(m)
  <2>1. /\ net' = net /\ tried' = tried
        /\ node'[m].current_epoch = Len(mls[m].group)
        /\ node'[m].pending_transition_id = 0
        /\ mls'[m].group = mls[m].group
        /\ mls'[m].pending = mls[m].pending /\ mls'[m].staged = {}
    BY <1>1, <1>5, RestartStep, Zenon
  <2>2. ReceiverBound(o, node'[m], mls'[m], G, net')
    BY <1>1, <2>1, Zenon DEF ReceiverBound
  <2>3. QED
    BY <1>1, <2>1, <2>2, Zenon DEF ReceiverKept
<1>6. ASSUME NEW f \in net, RejectEpoch(m, f) \/ DecryptFailed(m, f)
      PROVE  ReceiverKept(o, m)
  <2>1. /\ Keeps(node[m], node'[m]) /\ mls'[m] = mls[m] /\ net' = net /\ tried' = tried
    BY <1>1, <1>6, RefuseStep, Zenon
  <2>2. node[m].state # "Idle"
    BY <1>6, Zenon DEF RejectEpoch, DecryptFailed, Accepts, Joined
  <2>3. ReceiverBound(o, node'[m], mls'[m], G, net)
    BY <1>1, <2>1, <2>2, KeepsReceiver, Zenon
  <2>4. QED
    BY <1>1, <2>1, <2>3, Zenon DEF ReceiverKept
<1>7. ASSUME NEW f \in net, Deliver(m, f)
      PROVE  ReceiverKept(o, m)
  <2>1. Joined(m) /\ Takes(m, f)
    BY <1>1, <1>7, DeliverStep, Zenon
  <2>2. net' = net /\ tried' = tried
    BY <2>1, Zenon DEF Takes
  <2>3. ReceiverBound(o, node'[m], mls'[m], G, net)
    BY <2>1, ReceiverTakes, Zenon
  <2>4. QED
    BY <1>1, <2>2, <2>3, Zenon DEF ReceiverKept
<1>8. QED
  BY <1>2, <1>3, <1>4, <1>5, <1>6, <1>7, Zenon DEF StepOf

------------------------------------------------------------------------------
(* A sole originator: the invariant and the theorems *)

LEMMA InitBindingInv ==
    ASSUME NEW o \in Member, Originator = {o}, Init
    PROVE  BindingInv(o)
<1>1. RaceInv /\ net = {}
  BY InitRaceInv, Zenon DEF Init
<1>2. o \in Founder
  BY OriginatorAssumption, Zenon
<1>3. Len(<<FirstCommit>>) = 1 /\ Len(<< >>) = 0
  OBVIOUS
<1>4. OriginatorBound(o, node[o], mls[o], net)
  BY <1>2, <1>3, InitMember, Zenon DEF OriginatorBound
<1>5. mls[o].group = <<FirstCommit>>
  BY <1>2, InitMember, Zenon
<1>6. ASSUME NEW m \in Member \ {o}
      PROVE  ReceiverBound(o, node[m], mls[m], mls[o].group, net)
  <2>1. Prefix(mls[m].group, mls[o].group)
    <3>1. mls[m].group = <<FirstCommit>> \/ mls[m].group = << >>
      BY InitMember, Zenon
    <3>2. Prefix(<< >>, <<FirstCommit>>)
      BY <1>3 DEF Prefix
    <3>3. Prefix(<<FirstCommit>>, <<FirstCommit>>)
      BY <1>3, PrefixReflexive
    <3>4. QED
      BY <1>5, <3>1, <3>2, <3>3, Zenon
  <2>2. node[m].state # "Idle" => node[m].current_epoch = Len(mls[m].group)
    BY <1>3, InitMember, Zenon
  <2>3. QED
    BY <2>1, <2>2, InitMember, Zenon DEF ReceiverBound
<1>7. FramesBound(o, net, tried[o], mls[o].group)
  BY <1>1, Zenon DEF FramesBound
<1>8. QED
  BY <1>1, <1>4, <1>6, <1>7, Zenon DEF BindingInv

LEMMA NextBindingInv ==
    ASSUME NEW o \in Member, Originator = {o}, BindingInv(o), [Next]_vars
    PROVE  BindingInv(o)'
<1>0. SoleOriginator(o)
  BY SoleFacts, Zenon
<1>1. RaceInv'
  BY NextRaceInv, Zenon DEF BindingInv
<1>2. CASE UNCHANGED vars
  <2>1. /\ OriginatorBound(o, node'[o], mls'[o], net')
        /\ \A m \in Member \ {o} : ReceiverBound(o, node'[m], mls'[m], mls'[o].group, net')
        /\ FramesBound(o, net', tried'[o], mls'[o].group)
    BY <1>2, Zenon DEF vars, BindingInv
  <2>2. QED
    BY <1>1, <2>1, Zenon DEF BindingInv
<1>3. CASE Next
  <2>1. PICK m \in Member : StepOf(m)
    BY <1>3, NextIsStepOf, Zenon
  <2>2. TypeOK' /\ Moves(m)
    BY <1>0, <2>1, StepMoves, Zenon DEF SoleOriginator
  <2>3. CASE m = o
    <3>1. OriginatorKept(o)
      BY <2>1, <2>3, OriginatorSteps, Zenon
    <3>2. ASSUME NEW k \in Member \ {o}
          PROVE  ReceiverBound(o, node'[k], mls'[k], mls'[o].group, net')
      <4>0. Receiver(o, k)
        BY ReceiverFacts, Zenon
      <4>1. node'[k] = node[k] /\ mls'[k] = mls[k] /\ net \subseteq net'
        BY <2>2, <2>3, Zenon DEF Moves
      <4>2. mls'[o].group \in Seq(GroupCommit) /\ Prefix(mls[o].group, mls'[o].group)
        BY <2>2, <3>1, Zenon DEF TypeOK, Context, OriginatorKept
      <4>3. ReceiverBound(o, node[k], mls[k], mls'[o].group, net')
        BY <1>0, <4>0, <4>1, <4>2, ReceiverMonotone, Zenon DEF SoleOriginator, Receiver
      <4>4. QED
        BY <4>1, <4>3, Zenon
    <3>3. QED
      BY <1>1, <3>1, <3>2, Zenon DEF BindingInv, OriginatorKept
  <2>4. CASE m # o
    <3>1. ReceiverKept(o, m)
      BY <2>1, <2>4, ReceiverSteps, Zenon
    <3>2. node'[o] = node[o] /\ mls'[o] = mls[o] /\ net \subseteq net'
      BY <2>2, <2>4, Zenon DEF Moves
    <3>3. OriginatorBound(o, node'[o], mls'[o], net')
      BY <1>0, <3>2, AnnouncedMonotone, Zenon DEF OriginatorBound, SoleOriginator
    <3>4. ASSUME NEW k \in Member \ {o}
          PROVE  ReceiverBound(o, node'[k], mls'[k], mls'[o].group, net')
      <4>1. CASE k = m
        BY <3>1, <3>2, <4>1, Zenon DEF ReceiverKept
      <4>2. CASE k # m
        <5>0. Receiver(o, k)
          BY ReceiverFacts, Zenon
        <5>1. node'[k] = node[k] /\ mls'[k] = mls[k]
          BY <2>2, <4>2, Zenon DEF Moves
        <5>2. ReceiverBound(o, node[k], mls[k], mls[o].group, net')
          BY <1>0, <3>2, <5>0, ReceiverMonotone, Zenon DEF SoleOriginator, Receiver
        <5>3. QED
          BY <3>2, <5>1, <5>2, Zenon
      <4>3. QED
        BY <4>1, <4>2, Zenon
    <3>5. QED
      BY <1>1, <3>1, <3>2, <3>3, <3>4, Zenon DEF BindingInv, ReceiverKept
  <2>5. QED
    BY <2>3, <2>4, Zenon
<1>4. QED
  BY <1>2, <1>3, Zenon

\* What the invariant says of a joined member's group
LEMMA GroupOfMember ==
    ASSUME NEW o \in Member, Originator = {o}, BindingInv(o), NEW m \in Member, Joined(m)
    PROVE  /\ mls[m].group \in Seq(GroupCommit)
           /\ node[m].current_epoch = Len(mls[m].group)
           /\ Prefix(mls[m].group, mls[o].group)
<1>1. CASE m = o
  BY <1>1, SoleFacts, Zenon DEF SoleOriginator, OriginatorBound
<1>2. CASE m # o
  BY <1>2, ReceiverFacts, Zenon DEF Receiver, ReceiverBound, Joined
<1>3. QED
  BY <1>1, <1>2, Zenon

\* With one originator, two joined members in the same epoch have merged the
\* same commits in the same order, so each can read what the other seals (the
\* commit finalize_pending_commit merges on EXECUTE is the originator's).
THEOREM EpochDeterminesGroup ==
    ASSUME NEW o \in Member, Originator = {o}
    PROVE  Spec => []SameEpochSameGroup
<1>1. Init => BindingInv(o)
  BY InitBindingInv, Zenon
<1>2. BindingInv(o) /\ [Next]_vars => BindingInv(o)'
  BY NextBindingInv, Zenon
<1>3. ASSUME BindingInv(o)
      PROVE  SameEpochSameGroup
  <2> SUFFICES ASSUME NEW a \in Member, NEW b \in Member, Joined(a), Joined(b),
                      node[a].current_epoch = node[b].current_epoch
               PROVE  mls[a].group = mls[b].group
    BY Zenon DEF SameEpochSameGroup
  <2> DEFINE s == mls[a].group
             t == mls[b].group
  <2>1. /\ s \in Seq(GroupCommit) /\ Prefix(s, mls[o].group)
        /\ node[a].current_epoch = Len(s)
    BY <1>3, GroupOfMember, Zenon
  <2>2. /\ t \in Seq(GroupCommit) /\ Prefix(t, mls[o].group)
        /\ node[b].current_epoch = Len(t)
    BY <1>3, GroupOfMember, Zenon
  <2> HIDE DEF s, t
  <2>3. Len(s) = Len(t) /\ \A i \in 1 .. Len(s) : s[i] = t[i]
    BY <2>1, <2>2, Zenon DEF Prefix
  <2>4. s = t
    BY <2>1, <2>2, <2>3
  <2>5. QED
    BY <2>4, Zenon DEF s, t
<1>4. QED
  BY <1>1, <1>2, <1>3, PTL DEF Spec

\* With one originator, the commit a member has staged is the one the PREPARE
\* behind its pending transition announced (process_message takes no second
\* commit, and clear_pending_commit and a restart drop the first one).
THEOREM StagedIsPrepared ==
    ASSUME NEW o \in Member, Originator = {o}
    PROVE  Spec => []StagedWasPrepared
<1>1. Init => BindingInv(o)
  BY InitBindingInv, Zenon
<1>2. BindingInv(o) /\ [Next]_vars => BindingInv(o)'
  BY NextBindingInv, Zenon
<1>3. ASSUME BindingInv(o)
      PROVE  StagedWasPrepared
  <2> SUFFICES ASSUME NEW m \in Member, NEW c \in mls[m].staged
               PROVE  \E f \in net :
                          /\ f.op = "Prepare" /\ f.commit = {c}
                          /\ f.tid = node[m].pending_transition_id
                          /\ {f.from} = node[m].pending_commit_sender
    BY Zenon DEF StagedWasPrepared
  <2>1. m # o
    BY <1>3, SoleFacts, Zenon DEF SoleOriginator, OriginatorBound
  <2>2. /\ Announced(o, net, node[m], mls[m].staged)
        /\ node[m].pending_commit_sender = {o}
    BY <1>3, <2>1, ReceiverFacts, Zenon DEF Receiver, ReceiverBound
  <2>3. PICK p \in net : /\ p.op = "Prepare" /\ p.from = o
                         /\ p.tid = node[m].pending_transition_id
                         /\ p.commit = mls[m].staged
    BY <2>2, Zenon DEF Announced
  <2>4. p.commit = {c}
    BY <1>3, <2>3, SoleFacts, Zenon DEF SoleOriginator, TypeOK, Carries
  <2>5. QED
    BY <2>2, <2>3, <2>4, Zenon
<1>4. QED
  BY <1>1, <1>2, <1>3, PTL DEF Spec

==============================================================================
