------------------------------ MODULE StateBlob -------------------------------
(* The saved form of an MLS context: export_state bundles length-prefixed      *)
(* sections, the first of which is the key-value store as length-prefixed      *)
(* records; restore_state takes them apart again.  The client writes the blob  *)
(* to its disk and may crash in the middle of that.  A byte is a small number; *)
(* a u32 prefix is PrefixLen digits of base Base, low digit first.             *)
EXTENDS Naturals, Sequences, SequencesExt, FiniteSets

CONSTANTS Base, PrefixLen,
          Key,        \* keys of the store (byte strings)
          Value,      \* values of the store (byte strings)
          MaxSteps    \* changes of the store in a behaviour

VARIABLES storage,    \* provider storage of the running context
          disk,       \* what the client's file holds
          whole,      \* the store whose blob the file holds to its last byte
          steps

vars == <<storage, disk, whole, steps>>

Failed == [ok |-> FALSE]

-------------------------------------------------------------------------------
u32(n) == [i \in 1..PrefixLen |-> (n \div Base ^ (i - 1)) % Base]

\* Variation: the high digits are dropped.
from_u32_low(bytes) == bytes[1]

from_u32(bytes) ==
    LET sum[i \in 0..PrefixLen] ==
            IF i = 0 THEN 0 ELSE sum[i - 1] + bytes[i] * Base ^ (i - 1)
    IN  sum[PrefixLen]

Prefixed(bytes) == u32(Len(bytes)) \o bytes

\* Records in the order the HashMap happens to iterate.
serialize_storage(map, order) ==
    u32(Len(order))
    \o FlattenSeq([i \in DOMAIN order |->
                      Prefixed(order[i]) \o Prefixed(map[order[i]])])

\* Signer, identity and group id never change.
Signer == <<1>>
Identity == <<>>
Gid == <<0, 1>>

export_state(map, order) ==
    Prefixed(serialize_storage(map, order)) \o Prefixed(Signer)
    \o Prefixed(Identity) \o Prefixed(Gid)

\* `take` of restore_state, rd_u32 and rd_bytes of deserialize_storage.
Take(cur) ==
    IF Len(cur) < PrefixLen THEN Failed
    ELSE LET n == from_u32(cur)
             rest == SubSeq(cur, PrefixLen + 1, Len(cur))
         IN  IF Len(rest) < n THEN Failed
             ELSE [ok |-> TRUE, head |-> SubSeq(rest, 1, n),
                   tail |-> SubSeq(rest, n + 1, Len(rest))]

\* The first k prefixed parts of cur.
Parts(cur, k) ==
    LET parts[i \in 0..k] ==
            IF i = 0 THEN [ok |-> TRUE, got |-> <<>>, tail |-> cur]
            ELSE IF ~parts[i - 1].ok THEN Failed
            ELSE LET t == Take(parts[i - 1].tail) IN
                 IF ~t.ok THEN Failed
                 ELSE [ok |-> TRUE, got |-> Append(parts[i - 1].got, t.head),
                       tail |-> t.tail]
    IN  parts[k]

deserialize_storage(bytes) ==
    IF Len(bytes) < PrefixLen THEN Failed
    ELSE LET count == from_u32(bytes)
             p == Parts(SubSeq(bytes, PrefixLen + 1, Len(bytes)), 2 * count)
         IN  IF ~p.ok THEN Failed
             ELSE [ok |-> TRUE,
                   map |-> [k \in {p.got[2 * i - 1] : i \in 1..count} |->
                               p.got[2 * (CHOOSE i \in 1..count :
                                             p.got[2 * i - 1] = k)]]]

restore_state(blob) ==
    LET p == Parts(blob, 4) IN
    IF ~p.ok THEN Failed
    ELSE LET s == deserialize_storage(p.got[1]) IN
         IF s.ok /\ p.got[2] = Signer /\ p.got[4] = Gid THEN s ELSE Failed

-------------------------------------------------------------------------------
Init ==
    /\ storage \in [Key -> Value]
    /\ disk = <<>> /\ whole = {} /\ steps = 0

Bounded == steps < MaxSteps /\ steps' = steps + 1

\* The running context stores or deletes an entry.
Change ==
    /\ Bounded
    /\ \/ \E k \in Key, v \in Value :
            storage' = [x \in DOMAIN storage \cup {k} |-> IF x = k THEN v ELSE storage[x]]
       \/ \E k \in DOMAIN storage :
            storage' = [x \in DOMAIN storage \ {k} |-> storage[x]]
    /\ UNCHANGED <<disk, whole>>

\* The client replaces its file by the exported blob, or crashes after the
\* first n bytes of it.
Save ==
    /\ Bounded
    /\ \E order \in SetToSeqs(DOMAIN storage) :
        LET blob == export_state(storage, order) IN
        \E n \in 0..Len(blob) :
            /\ disk' = SubSeq(blob, 1, n)
            /\ whole' = IF n = Len(blob) THEN {storage} ELSE {}
    /\ UNCHANGED storage

\* After a restart the client rebuilds its context from the file.
Restore ==
    /\ Bounded
    /\ restore_state(disk).ok
    /\ storage' = restore_state(disk).map
    /\ UNCHANGED <<disk, whole>>

Next == Change \/ Save \/ Restore

Spec == Init /\ [][Next]_vars

-------------------------------------------------------------------------------
\* restore_state gives back exactly the store whose blob was written whole, in
\* whatever order the records were written; a blob that a crash cut short is
\* refused, whichever byte was the last, and never restored in part.
RestoreIsAllOrNothing ==
    restore_state(disk) =
        IF whole = {} THEN Failed
        ELSE [ok |-> TRUE, map |-> CHOOSE s \in whole : TRUE]

===============================================================================
