----------------------------- MODULE Capabilities -----------------------------
(* Capability negotiation at a member (crates/gsp/src/capabilities.rs and      *)
(* crates/gbp/core/src/conformance.rs).                                        *)
EXTENDS Naturals, Sequences, FiniteSets

CONSTANTS Member,
          Tokens        \* capability tokens beside those of the classes

\* ConformanceClass, in order, and its tokens
Class == <<"A", "B", "C">>

ClassTokens(k) == {Class[i] : i \in 1 .. k}

\* Mutant: the highest token decides
FromTokensHighest(tokens) ==
    IF "C" \in tokens THEN 3 ELSE IF "B" \in tokens THEN 2
    ELSE IF "A" \in tokens THEN 1 ELSE 0

\* from_tokens; 0 is None
FromTokens(tokens) ==
    IF ClassTokens(3) \subseteq tokens THEN 3
    ELSE IF ClassTokens(2) \subseteq tokens THEN 2
    ELSE IF ClassTokens(1) \subseteq tokens THEN 1 ELSE 0

VARIABLE advertised     \* a function over the members that advertised

NegotiateInit == advertised = << >>

Put(map, key, value) ==
    [k \in DOMAIN map \cup {key} |-> IF k = key THEN value ELSE map[k]]

Without(map, key) == [k \in DOMAIN map \ {key} |-> map[k]]

Advertise(member, tokens) ==
    advertised' = Put(advertised, member, tokens)

\* declare_class adds to what the member advertised before
DeclareClass(member, k) ==
    advertised' = Put(advertised, member,
          ClassTokens(k) \cup IF member \in DOMAIN advertised THEN advertised[member] ELSE {})

Forget(member) ==
    advertised' = Without(advertised, member)

ResetForEpoch ==
    advertised' = << >>

GroupSupports(cap) ==
    DOMAIN advertised # {} /\ \A m \in DOMAIN advertised : cap \in advertised[m]

Missing(cap) == {m \in DOMAIN advertised : cap \notin advertised[m]}

\* union and intersection, the latter in the order the map yields its members
Union == UNION {advertised[m] : m \in DOMAIN advertised}

Intersection(order) ==
    LET acc[i \in 0 .. Len(order)] ==
            IF i = 0 THEN {} ELSE IF i = 1 THEN advertised[order[1]]
            ELSE acc[i - 1] \cap advertised[order[i]]
    IN  acc[Len(order)]

\* group_class: the loop over the members in the order the map yields them,
\* with its early return; 0 is None, 9 the class before the first member
GroupClass(order) ==
    LET acc[i \in 0 .. Len(order)] ==
            IF i = 0 THEN 9
            ELSE LET mc == FromTokens(advertised[order[i]])
                 IN  IF acc[i - 1] = 0 \/ mc = 0 THEN 0
                     ELSE IF mc < acc[i - 1] THEN mc ELSE acc[i - 1]
    IN  IF order = << >> THEN 0 ELSE acc[Len(order)]

Orders ==
    {order \in [1 .. Cardinality(DOMAIN advertised) -> DOMAIN advertised] :
        \A i, j \in DOMAIN order : order[i] = order[j] => i = j}

NegotiateNext ==
    \/ \E m \in Member, tokens \in SUBSET (ClassTokens(3) \cup Tokens) : Advertise(m, tokens)
    \/ \E m \in Member, k \in 1 .. 3 : DeclareClass(m, k)
    \/ \E m \in Member : Forget(m)
    \/ ResetForEpoch

NegotiateSpec == NegotiateInit /\ [][NegotiateNext]_advertised

------------------------------------------------------------------------------
(* Properties *)

\* The negotiated class is the highest whose tokens the whole group supports,
\* whatever tokens were advertised and in whatever order the map is walked: the
\* class never promises a protocol that some member lacks.
ClassIsHighest ==
    \A order \in Orders : LET class == GroupClass(order) IN
        \A k \in 1 .. 3 : class >= k <=> \A t \in ClassTokens(k) : GroupSupports(t)

\* The three ways to ask about a capability agree: it is in the intersection iff
\* the group supports it iff it is advertised and no member lacks it.
QueriesAgree ==
    \A order \in Orders : LET common == Intersection(order) IN
        \A t \in ClassTokens(3) \cup Tokens :
            /\ t \in common <=> GroupSupports(t)
            /\ GroupSupports(t) <=> t \in Union /\ Missing(t) = {}

\* What a member learns from the negotiator is true of the group: the class it
\* computes and the answers about single capabilities (CapabilitiesNegotiator).
ClassIsSupported == ClassIsHighest /\ QueriesAgree

==============================================================================
