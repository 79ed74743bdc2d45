------------------------------ MODULE MlsContext ------------------------------
(* The MLS context of crates/gbp/mls/src/lib.rs as a data type: which commits  *)
(* are merged, and which wait.  Key schedule, credentials and membership are   *)
(* OpenMLS's; what the stack relies on is that two contexts hold the same      *)
(* secrets exactly when they merged the same commits in the same order, so a   *)
(* group is the sequence of its merged commits.                                *)
EXTENDS Naturals, Sequences

CONSTANT Member

\* The no-th commit that member by creates
Commit == [by : Member, no : Nat]

\* pending: the commit OpenMLS holds after invite_full or remove_members;
\* staged: pending_staged.  Both are Options, hence sets of at most one.
MlsType ==
    [group   : Seq(Commit),
     pending : SUBSET Commit,
     staged  : SUBSET Commit]

NewMember == [group |-> << >>, pending |-> {}, staged |-> {}]

Epoch(mls) == Len(mls.group)

\* invite_full and remove_members; OpenMLS refuses a second pending commit
CanCommit(mls) == mls.pending = {}

InviteFull(mls, c) == [mls EXCEPT !.pending = {c}]

\* OpenMLS merge: the group moves on and no own commit survives it
Merge(mls, c) == [mls EXCEPT !.group = Append(@, c), !.pending = {}]

\* finalize_pending_commit: the staged commit first, then an own one that is
\* still pending
FinalizePendingCommit(mls) ==
    IF mls.staged # {}
    THEN [Merge(mls, CHOOSE c \in mls.staged : TRUE) EXCEPT !.staged = {}]
    ELSE IF mls.pending # {}
         THEN Merge(mls, CHOOSE c \in mls.pending : TRUE)
         ELSE mls

\* Mutant: the staged commit is not rolled back
ClearKeepsStaged(mls) == [mls EXCEPT !.pending = {}]

ClearPendingCommit(mls) == [mls EXCEPT !.pending = {}, !.staged = {}]

\* process_message with a commit on the current group: TransitionInProgress
\* while another commit is staged
ProcessMessage(mls, c) == IF mls.staged # {} THEN mls ELSE [mls EXCEPT !.staged = {c}]

\* accept_welcome replaces the group
AcceptWelcome(mls, group) == [mls EXCEPT !.group = group]

\* Mutant: the staged commit outlives the restart
RestoreKeepsStaged(mls) == mls

\* export_state and restore_state: a staged commit is not exported
RestoreState(mls) == [mls EXCEPT !.staged = {}]

\* open succeeds on what was sealed under the same secrets
Opens(mls, sealed) == mls.group = sealed

==============================================================================
