------------------------------ MODULE Membership ------------------------------
(* Leaves of the ratchet tree as one member's MlsContext sees them: who is in  *)
(* the group, which commit waits, and what remove_members answers.  Where      *)
(* OpenMLS puts a new member and which leaves it can remove is external.       *)
EXTENDS Naturals, FiniteSets, FiniteSetsExt

CONSTANT MaxLeaf     \* bound: leaves are 0 .. MaxLeaf

VARIABLES leaves,    \* occupied leaves; this member has leaf 0
          pending,   \* the leaves after the pending commit, if there is one
          answer     \* the last remove_members call: its index and its result

vars == <<leaves, pending, answer>>

Leaf == 0..MaxLeaf

Init ==
    /\ leaves = {0}
    /\ pending = {}
    /\ answer = [index |-> 0, result |-> "none", present |-> FALSE]

-------------------------------------------------------------------------------
\* OpenMLS add_members: the leftmost blank leaf.
NewLeaf(ls) == Min(Leaf \ ls)

InviteFull ==
    /\ pending = {} /\ leaves # Leaf
    /\ pending' = {leaves \cup {NewLeaf(leaves)}}
    /\ UNCHANGED <<leaves, answer>>

\* The check of remove_members against the number of members.
OutOfRange(index) == index >= Cardinality(leaves)

\* OpenMLS remove_members: another member's leaf, no commit pending.
CanRemove(index) == index \in leaves \ {0} /\ pending = {}

RemoveMembers(index) ==
    LET ok == ~OutOfRange(index) /\ CanRemove(index) IN
    /\ pending' = IF ok THEN {leaves \ {index}} ELSE pending
    /\ answer' = [index |-> index, result |-> IF ok THEN "commit" ELSE "error",
                  present |-> CanRemove(index)]
    /\ UNCHANGED leaves

FinalizePendingCommit ==
    /\ pending # {}
    /\ leaves' = CHOOSE ls \in pending : TRUE
    /\ pending' = {}
    /\ UNCHANGED answer

ClearPendingCommit ==
    /\ pending # {}
    /\ pending' = {}
    /\ UNCHANGED <<leaves, answer>>

\* A commit of another member arrives and is merged: it adds or removes one.
MergeOthers ==
    /\ pending = {}
    /\ \/ leaves # Leaf /\ leaves' = leaves \cup {NewLeaf(leaves)}
       \/ \E l \in leaves \ {0} : leaves' = leaves \ {l}
    /\ UNCHANGED <<pending, answer>>

Next ==
    \/ InviteFull
    \/ \E index \in Leaf : RemoveMembers(index)
    \/ FinalizePendingCommit
    \/ ClearPendingCommit
    \/ MergeOthers

Spec == Init /\ [][Next]_vars

-------------------------------------------------------------------------------
\* remove_members, "Removes members identified by their MLS LeafIndex", does
\* not refuse the leaf of another member while no commit is pending.
MembersCanBeRemoved == answer.present => answer.result = "commit"

===============================================================================
