------------------------------- MODULE EpochLog -------------------------------
(* What the GBP control plane promises a group: there is one sequence of       *)
(* transitions, each with a larger TransitionID than the one before, and every *)
(* member goes through that sequence in order, one epoch per transition,       *)
(* skipping none.  A member may lag behind and may enter in the middle (a      *)
(* joiner starts from the group's history up to its Welcome).                  *)
EXTENDS Naturals, Sequences

CONSTANTS Member, Tid

VARIABLES decided,   \* the transitions the group has decided, in order
          applied    \* applied[m]: the transitions member m has gone through

vars == <<decided, applied>>

LastTid(s) == IF s = << >> THEN 0 ELSE s[Len(s)]

Prefix(s, k) == SubSeq(s, 1, k)

Init ==
    /\ decided = << >>
    /\ applied = [m \in Member |-> << >>]

Decide(tid) ==
    /\ tid > LastTid(decided)
    /\ decided' = Append(decided, tid)
    /\ UNCHANGED applied

Apply(m) ==
    /\ Len(applied[m]) < Len(decided)
    /\ applied' = [applied EXCEPT ![m] = Append(@, decided[Len(@) + 1])]
    /\ UNCHANGED decided

Enter(m) ==
    /\ applied[m] = << >>
    /\ \E k \in 0 .. Len(decided) :
          applied' = [applied EXCEPT ![m] = Prefix(decided, k)]
    /\ UNCHANGED decided

Next ==
    \/ \E tid \in Tid : Decide(tid)
    \/ \E m \in Member : Apply(m) \/ Enter(m)

Spec == Init /\ [][Next]_vars

==============================================================================
