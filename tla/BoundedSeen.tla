----------------------------- MODULE BoundedSeen -----------------------------
(* The bounded set of crates/gbp/core/src/bounded.rs that GTP and GSP use to   *)
(* recognise what they have already accepted: a set for membership and a queue *)
(* for the order of insertion, which must always hold the same items.          *)
EXTENDS Naturals, Sequences

EmptySeen == [set |-> {}, order |-> << >>]

\* Mutant: the limit is reached one item early
InsertEvictsEarly(seen, item, cap) ==
    LET order == Append(seen.order, item)
        set == seen.set \cup {item}
    IN  IF item \in seen.set THEN seen
        ELSE IF Len(order) >= cap
        THEN [set |-> set \ {Head(order)}, order |-> Tail(order)]
        ELSE [set |-> set, order |-> order]

\* insert; it returns true exactly when the item is not in the set before
Insert(seen, item, cap) ==
    LET order == Append(seen.order, item)
        set == seen.set \cup {item}
    IN  IF item \in seen.set THEN seen
        ELSE IF Len(order) > cap
        THEN [set |-> set \ {Head(order)}, order |-> Tail(order)]
        ELSE [set |-> set, order |-> order]

==============================================================================
