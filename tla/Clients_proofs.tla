---------------------------- MODULE Clients_proofs ----------------------------
(* Proofs about GtpClient and GspClient.  What the bounded filters of the two  *)
(* promise: RepeatsAreSpread for Chat, ViewsFollowApplied for Signals.  And    *)
(* that the members of a Chat, however often they crash and whatever their     *)
(* nodes refuse, lose no message that its sender retains: ResyncLosesNothing   *)
(* and WatermarksAreHonest.                                                    *)
EXTENDS Chat, Signals, TLAPS

------------------------------------------------------------------------------
(* The bounded filter of GTP and GSP *)

\* A sequence, whatever its elements.
IsSeq(s) == s \in Seq({s[i] : i \in DOMAIN s})

LEMMA SeqOfAny ==
    ASSUME NEW S, NEW s \in Seq(S)
    PROVE  IsSeq(s)
<1>1. /\ Len(s) \in Nat /\ DOMAIN s = 1 .. Len(s) /\ s = [i \in 1 .. Len(s) |-> s[i]]
      /\ \A i \in 1 .. Len(s) : s[i] \in {s[j] : j \in DOMAIN s}
  OBVIOUS
<1>2. s \in Seq({s[i] : i \in DOMAIN s})
  BY <1>1
<1>3. QED
  BY <1>2, Zenon DEF IsSeq

LEMMA AppendAny ==
    ASSUME NEW s, IsSeq(s), NEW x
    PROVE  /\ IsSeq(Append(s, x)) /\ Len(s) \in Nat /\ DOMAIN s = 1 .. Len(s)
           /\ Len(Append(s, x)) = Len(s) + 1 /\ DOMAIN Append(s, x) = 1 .. Len(s) + 1
           /\ Append(s, x)[Len(s) + 1] = x
           /\ \A i \in 1 .. Len(s) : Append(s, x)[i] = s[i]
<1> DEFINE S == {s[i] : i \in DOMAIN s} \cup {x}
<1>1. s \in Seq({s[i] : i \in DOMAIN s})
  BY Zenon DEF IsSeq
<1>2. s \in Seq(S)
  <2>1. {s[i] : i \in DOMAIN s} \subseteq S
    OBVIOUS
  <2> HIDE DEF S
  <2>2. QED
    BY <1>1, <2>1
<1>3. x \in S
  OBVIOUS
<1> HIDE DEF S
<1>4. /\ Append(s, x) \in Seq(S) /\ Len(Append(s, x)) = Len(s) + 1
      /\ DOMAIN Append(s, x) = 1 .. Len(s) + 1 /\ Append(s, x)[Len(s) + 1] = x
      /\ \A i \in 1 .. Len(s) : Append(s, x)[i] = s[i]
      /\ Len(s) \in Nat /\ DOMAIN s = 1 .. Len(s)
  BY <1>2, <1>3
<1>5. IsSeq(Append(s, x))
  BY <1>4, SeqOfAny, Zenon
<1>6. QED
  BY <1>4, <1>5, Zenon

LEMMA TailAny ==
    ASSUME NEW s, IsSeq(s), s # << >>
    PROVE  /\ IsSeq(Tail(s)) /\ Len(s) \in Nat \ {0} /\ DOMAIN s = 1 .. Len(s)
           /\ Len(Tail(s)) = Len(s) - 1 /\ DOMAIN Tail(s) = 1 .. Len(s) - 1
           /\ Head(s) = s[1]
           /\ \A i \in 1 .. Len(s) - 1 : Tail(s)[i] = s[i + 1]
<1> DEFINE S == {s[i] : i \in DOMAIN s}
<1>1. s \in Seq(S)
  BY Zenon DEF IsSeq
<1> HIDE DEF S
<1>2. /\ Tail(s) \in Seq(S) /\ Len(s) \in Nat \ {0} /\ DOMAIN s = 1 .. Len(s)
      /\ Len(Tail(s)) = Len(s) - 1 /\ DOMAIN Tail(s) = 1 .. Len(s) - 1
      /\ Head(s) = s[1] /\ \A i \in 1 .. Len(s) - 1 : Tail(s)[i] = s[i + 1]
  BY <1>1
<1>3. QED
  BY <1>2, SeqOfAny, Zenon

\* The set and the queue hold the same items, each once, and not more than cap.
FilterOK(seen, cap) ==
    /\ IsSeq(seen.order) /\ Len(seen.order) <= cap
    /\ seen.set = {seen.order[i] : i \in DOMAIN seen.order}
    /\ \A i, j \in DOMAIN seen.order : seen.order[i] = seen.order[j] => i = j

LEMMA EmptyFilter ==
    ASSUME NEW cap \in Nat
    PROVE  FilterOK(EmptySeen, cap)
BY DEF FilterOK, EmptySeen, IsSeq

Longer(seen, item) == Append(seen.order, item)
Dropped(seen, cap) == IF Len(seen.order) = cap THEN 1 ELSE 0

\* insert adds a new item behind the others; a full filter forgets the first.
LEMMA InsertEffect ==
    ASSUME NEW seen, NEW cap \in Nat, FilterOK(seen, cap), NEW item, item \notin seen.set
    PROVE  /\ FilterOK(Insert(seen, item, cap), cap)
           /\ Len(Insert(seen, item, cap).order) = Len(seen.order) + 1 - Dropped(seen, cap)
           /\ \A i \in 1 .. Len(Insert(seen, item, cap).order) :
                 Insert(seen, item, cap).order[i]
                     = Longer(seen, item)[i + Dropped(seen, cap)]
<1> DEFINE new == Insert(seen, item, cap)
           more == Append(seen.order, item)
           n == Len(seen.order)
<1>1. /\ IsSeq(more) /\ n \in Nat /\ DOMAIN seen.order = 1 .. n /\ Len(more) = n + 1
      /\ DOMAIN more = 1 .. n + 1 /\ more[n + 1] = item
      /\ \A i \in 1 .. n : more[i] = seen.order[i]
      /\ n <= cap /\ IsSeq(seen.order)
  BY AppendAny DEF FilterOK
<1>2. \A i, j \in 1 .. n + 1 : more[i] = more[j] => i = j
  <2>1. \A i \in 1 .. n : more[i] # item
    BY <1>1 DEF FilterOK
  <2>2. \A i \in 1 .. n + 1 : i \in 1 .. n \/ i = n + 1
    BY <1>1
  <2>3. \A i, j \in 1 .. n : more[i] = more[j] => i = j
    BY <1>1, Zenon DEF FilterOK
  <2>4. QED
    BY <1>1, <2>1, <2>2, <2>3, Zenon
<1>3. seen.set \cup {item} = {more[i] : i \in 1 .. n + 1}
  <2>1. seen.set = {seen.order[i] : i \in 1 .. n}
    BY <1>1, Zenon DEF FilterOK
  <2>2. \A i \in 1 .. n : i \in 1 .. n + 1
    BY <1>1
  <2>3. \A i \in 1 .. n + 1 : i \in 1 .. n \/ i = n + 1
    BY <1>1
  <2>4. n + 1 \in 1 .. n + 1
    BY <1>1
  <2>5. QED
    BY <1>1, <2>1, <2>2, <2>3, <2>4, Zenon
<1> HIDE DEF more, n
<1>4. CASE n = cap
  <2>1. more # << >> /\ n + 1 > cap
    BY <1>1, <1>4
  <2>2. new = [set |-> (seen.set \cup {item}) \ {Head(more)}, order |-> Tail(more)]
    BY <1>1, <2>1, Zenon DEF Insert, more
  <2>3. /\ IsSeq(Tail(more)) /\ Len(Tail(more)) = n /\ DOMAIN Tail(more) = 1 .. n
        /\ Head(more) = more[1] /\ \A i \in 1 .. n : Tail(more)[i] = more[i + 1]
    BY <1>1, <2>1, TailAny
  <2>4. \A i \in 1 .. n : i + 1 \in 1 .. n + 1 /\ i + 1 # 1
    BY <1>1
  <2>5. \A i \in 1 .. n + 1 : i # 1 => i - 1 \in 1 .. n /\ (i - 1) + 1 = i
    BY <1>1
  <2>6. 1 \in 1 .. n + 1
    BY <1>1
  <2>7. (seen.set \cup {item}) \ {Head(more)} = {Tail(more)[i] : i \in 1 .. n}
    <3>1. ASSUME NEW i \in 1 .. n PROVE Tail(more)[i] \in (seen.set \cup {item}) \ {Head(more)}
      BY <1>2, <1>3, <2>3, <2>4, <2>6
    <3>2. ASSUME NEW x \in (seen.set \cup {item}) \ {Head(more)}
          PROVE  x \in {Tail(more)[i] : i \in 1 .. n}
      <4>1. PICK i \in 1 .. n + 1 : x = more[i]
        BY <1>3, Zenon
      <4>2. i # 1
        BY <2>3, <4>1, Zenon
      <4>3. i - 1 \in 1 .. n /\ Tail(more)[i - 1] = x
        BY <2>3, <2>5, <4>1, <4>2, Zenon
      <4>4. QED
        BY <4>3, Zenon
    <3>3. QED
      BY <3>1, <3>2, Zenon
  <2>8. \A i, j \in 1 .. n : Tail(more)[i] = Tail(more)[j] => i = j
    <3>1. ASSUME NEW i \in 1 .. n, NEW j \in 1 .. n, Tail(more)[i] = Tail(more)[j] PROVE i = j
      <4>1. i + 1 = j + 1
        BY <1>2, <2>3, <2>4, <3>1
      <4>2. QED
        BY <4>1
    <3>2. QED
      BY <3>1, Zenon
  <2> HIDE DEF new
  <2>9. new.set = (seen.set \cup {item}) \ {Head(more)} /\ new.order = Tail(more)
    BY <2>2, Zenon
  <2>10. FilterOK(new, cap)
    <3>1. new.set = {Tail(more)[i] : i \in DOMAIN Tail(more)}
      BY <2>3, <2>7, <2>9, Zenon
    <3>2. Len(Tail(more)) <= cap
      BY <1>1, <2>3, Zenon
    <3>3. \A i, j \in DOMAIN Tail(more) : Tail(more)[i] = Tail(more)[j] => i = j
      BY <2>3, <2>8, Zenon
    <3>4. new.order = Tail(more) /\ IsSeq(Tail(more))
      BY <2>3, <2>9, Zenon
    <3>5. QED
      BY <3>1, <3>2, <3>3, <3>4 DEF FilterOK
  <2>11. Len(new.order) = n + 1 - 1 /\ \A i \in 1 .. Len(new.order) : new.order[i] = more[i + 1]
    BY <1>1, <2>3, <2>9
  <2>12. QED
    BY <1>4, <2>10, <2>11, Zenon DEF new, more, n, Dropped, Longer
<1>5. CASE n # cap
  <2>1. ~ (n + 1 > cap)
    BY <1>1, <1>5
  <2>2. new = [set |-> seen.set \cup {item}, order |-> more]
    BY <1>1, <2>1, Zenon DEF Insert, more
  <2>3. new.set = {more[i] : i \in 1 .. n + 1} /\ new.order = more
    BY <1>3, <2>2
  <2> HIDE DEF new
  <2>4. FilterOK(new, cap)
    BY <1>1, <1>2, <2>1, <2>3 DEF FilterOK
  <2>5. Len(new.order) = n + 1 - 0 /\ \A i \in 1 .. Len(new.order) : new.order[i] = more[i + 0]
    BY <1>1, <2>3
  <2>6. QED
    BY <1>5, <2>4, <2>5, Zenon DEF new, more, n, Dropped, Longer
<1>6. QED
  BY <1>4, <1>5, Zenon

------------------------------------------------------------------------------
(* GTP: a text is shown again only after it was evicted *)

\* Equal entries of the list of shown messages are more than cap apart.
Spread(list, cap) ==
    \A i, j \in DOMAIN list : i < j /\ list[i] = list[j] => j - i > cap

\* What the filter of a client holds is the end of the list of messages shown,
\* all of the client's epoch, and everything of that epoch unless it is full.
Remembers(client, list, e, cap) ==
    LET order == client.seen.order
        n == Len(order)
        k == Len(list) - n
    IN  /\ client = [seen |-> client.seen, epoch |-> client.epoch]
        /\ FilterOK(client.seen, cap)
        /\ client.epoch = {} \/ \E ce \in Nat : client.epoch = {ce} /\ ce <= e
        /\ IsSeq(list) /\ n <= Len(list)
        /\ \A i \in 1 .. n : order[i] = list[k + i].msg
        /\ \A i \in k + 1 .. Len(list) : list[i].epoch \in client.epoch
        /\ n < cap => \A i \in 1 .. k : list[i].epoch \notin client.epoch
        /\ \A i \in DOMAIN list :
              list[i].epoch \in Nat /\ \E ce \in client.epoch : list[i].epoch <= ce
        /\ Spread(list, cap)

LEMMA NewRemembers ==
    ASSUME NEW e \in Nat, NEW cap \in Nat
    PROVE  Remembers(NewGtpClient, << >>, e, cap)
<1>1. FilterOK(EmptySeen, cap)
  BY EmptyFilter, Zenon
<1>2. EmptySeen.order = << >>
  BY Zenon DEF EmptySeen
<1>3. IsSeq(<< >>)
  BY DEF IsSeq
<1> DEFINE c == NewGtpClient
<1>4. c.seen = EmptySeen /\ c.epoch = {}
  BY Zenon DEF NewGtpClient
<1> HIDE DEF c
<1>5. c = [seen |-> c.seen, epoch |-> c.epoch]
  BY Zenon DEF NewGtpClient, c
<1>6. QED
  BY <1>1, <1>2, <1>3, <1>4, <1>5 DEF Remembers, Spread, c

\* sync_epoch, also when the node's epoch has moved on.
LEMMA SyncRemembers ==
    ASSUME NEW client, NEW list, NEW e \in Nat, NEW f \in Nat, e <= f, NEW cap \in Nat,
           Remembers(client, list, e, cap)
    PROVE  /\ Remembers(SyncGtpEpoch(client, f), list, f, cap)
           /\ SyncGtpEpoch(client, f).epoch = {f}
<1> DEFINE c == SyncGtpEpoch(client, f)
<1>1. CASE client.epoch = {f}
  <2>1. c = client
    BY <1>1, Zenon DEF SyncGtpEpoch
  <2>2. \E ce \in Nat : client.epoch = {ce} /\ ce <= f
    BY <1>1
  <2>3. Remembers(client, list, f, cap)
    BY <2>2, Zenon DEF Remembers
  <2>4. QED
    BY <1>1, <2>1, <2>3, Zenon
<1>2. CASE client.epoch # {f}
  <2>1. c = [seen |-> EmptySeen, epoch |-> {f}]
    BY <1>2, Zenon DEF SyncGtpEpoch
  <2>2. c.seen = EmptySeen /\ c.epoch = {f} /\ c = [seen |-> c.seen, epoch |-> c.epoch]
    BY <2>1
  <2> HIDE DEF c
  <2>3. FilterOK(EmptySeen, cap) /\ Len(EmptySeen.order) = 0
    BY EmptyFilter, Zenon DEF EmptySeen
  <2>4. /\ IsSeq(list) /\ Spread(list, cap) /\ Len(list) \in Nat /\ DOMAIN list = 1 .. Len(list)
    BY AppendAny, Zenon DEF Remembers
  <2>5. \A i \in DOMAIN list : list[i].epoch \in Nat /\ list[i].epoch < f
    <3>1. ASSUME NEW i \in DOMAIN list PROVE list[i].epoch \in Nat /\ list[i].epoch < f
      <4>1. PICK ce \in client.epoch : list[i].epoch \in Nat /\ list[i].epoch <= ce
        BY Zenon DEF Remembers
      <4>2. ce \in Nat /\ ce <= e /\ client.epoch = {ce}
        BY <4>1, Zenon DEF Remembers
      <4>3. QED
        BY <1>2, <4>1, <4>2
    <3>2. QED
      BY <3>1, Zenon
  <2>6. /\ \A i \in 1 .. Len(list) - 0 : list[i].epoch \notin c.epoch
        /\ \A i \in DOMAIN list : list[i].epoch \in Nat /\ \E ce \in c.epoch : list[i].epoch <= ce
    BY <2>2, <2>4, <2>5
  <2>7. \E ce \in Nat : c.epoch = {ce} /\ ce <= f
    BY <2>2
  <2>8. \A i \in (Len(list) - 0) + 1 .. Len(list) : list[i].epoch \in c.epoch
    BY <2>4
  <2>9. QED
    BY <2>2, <2>3, <2>4, <2>6, <2>7, <2>8 DEF Remembers, c
<1>3. QED
  BY <1>1, <1>2, Zenon

\* accept: a message that is not in the filter is shown and remembered.
LEMMA AcceptRemembers ==
    ASSUME NEW client, NEW list, NEW e \in Nat, NEW cap \in Nat,
           Remembers(client, list, e, cap), NEW msg
    PROVE  Remembers(Accept(client, msg, e, cap),
                     IF IsNew(client, msg, e) THEN Append(list, [msg |-> msg, epoch |-> e])
                     ELSE list, e, cap)
<1> DEFINE s == SyncGtpEpoch(client, e)
           a == Accept(client, msg, e, cap)
           entry == [msg |-> msg, epoch |-> e]
           new == Append(list, entry)
           order == s.seen.order
           n == Len(order)
           k == Len(list) - n
<1>1. Remembers(s, list, e, cap) /\ s.epoch = {e}
  <2>1. e <= e
    OBVIOUS
  <2>2. QED
    BY <2>1, SyncRemembers, Zenon
<1>2. a = [s EXCEPT !.seen = Insert(s.seen, msg, cap)]
  BY Zenon DEF Accept
<1>3. IsNew(client, msg, e) <=> msg \notin s.seen.set
  BY Zenon DEF IsNew
<1>4. /\ s = [seen |-> s.seen, epoch |-> s.epoch]
      /\ FilterOK(s.seen, cap) /\ IsSeq(list) /\ n <= Len(list) /\ Spread(list, cap)
      /\ \A i \in 1 .. n : order[i] = list[k + i].msg
      /\ \A i \in k + 1 .. Len(list) : list[i].epoch \in s.epoch
      /\ n < cap => \A i \in 1 .. k : list[i].epoch \notin s.epoch
      /\ \A i \in DOMAIN list :
            list[i].epoch \in Nat /\ \E ce \in s.epoch : list[i].epoch <= ce
  BY <1>1, Zenon DEF Remembers
<1> HIDE DEF s, a
<1>5. CASE msg \in s.seen.set
  <2>1. Insert(s.seen, msg, cap) = s.seen
    BY <1>5, Zenon DEF Insert
  <2>2. a = s
    BY <1>2, <1>4, <2>1, Zenon
  <2>3. QED
    BY <1>1, <1>3, <1>5, <2>2, Zenon DEF a
<1>6. CASE msg \notin s.seen.set
  <2> DEFINE ins == Insert(s.seen, msg, cap)
             d == Dropped(s.seen, cap)
             more == Longer(s.seen, msg)
  <2>1. /\ FilterOK(ins, cap) /\ Len(ins.order) = n + 1 - d
        /\ \A i \in 1 .. Len(ins.order) : ins.order[i] = more[i + d]
    <3>1. FilterOK(s.seen, cap)
      BY <1>4, Zenon
    <3>2. FilterOK(ins, cap)
      BY <1>6, <3>1, InsertEffect, Zenon
    <3>3. Len(ins.order) = n + 1 - d
      BY <1>6, <3>1, InsertEffect, Zenon
    <3>4. ASSUME NEW i \in 1 .. Len(ins.order) PROVE ins.order[i] = more[i + d]
      BY <1>6, <3>1, InsertEffect
    <3>5. QED
      BY <3>2, <3>3, <3>4, Zenon
  <2>2. a = [seen |-> ins, epoch |-> {e}]
    BY <1>1, <1>2, <1>4, Zenon
  <2>3. a.seen = ins /\ a.epoch = {e} /\ a = [seen |-> a.seen, epoch |-> a.epoch]
    BY <2>2, Zenon
  <2>4. /\ IsSeq(new) /\ Len(list) \in Nat /\ DOMAIN list = 1 .. Len(list)
        /\ Len(new) = Len(list) + 1 /\ DOMAIN new = 1 .. Len(list) + 1
        /\ new[Len(list) + 1] = entry /\ \A i \in 1 .. Len(list) : new[i] = list[i]
    BY <1>4, AppendAny
  <2>5. /\ n \in Nat /\ DOMAIN order = 1 .. n /\ more[n + 1] = msg
        /\ \A i \in 1 .. n : more[i] = order[i]
        /\ s.seen.set = {order[i] : i \in DOMAIN order} /\ n <= cap
    BY <1>4, AppendAny DEF FilterOK, Longer
  <2>6. k \in Nat /\ n <= Len(list) /\ k = Len(list) - n /\ d \in {0, 1} /\ (d = 0 <=> n < cap)
    BY <1>4, <2>4, <2>5 DEF Dropped
  <2>7. entry.msg = msg /\ entry.epoch = e
    OBVIOUS
  <2> HIDE DEF ins, entry, new, more, n, k, d, order
  <2>8. Len(new) - (n + 1 - d) = k + d /\ n + 1 - d <= Len(new)
    BY <2>4, <2>5, <2>6
  <2>9. ASSUME NEW i \in 1 .. n + 1 - d
        PROVE  ins.order[i] = new[(k + d) + i].msg
    <3>1. i + d \in 1 .. n + 1 /\ (k + d) + i = k + (i + d)
      BY <2>5, <2>6
    <3>5. ins.order[i] = more[i + d]
      BY <2>1, Zenon
    <3>2. CASE i + d = n + 1
      <4>1. (k + d) + i = Len(list) + 1
        BY <2>6, <2>4, <2>5, <3>1, <3>2
      <4>2. QED
        BY <2>4, <2>5, <2>7, <3>1, <3>2, <3>5, <4>1, Zenon
    <3>3. CASE i + d # n + 1
      <4>1. i + d \in 1 .. n /\ k + (i + d) \in 1 .. Len(list)
        BY <2>6, <2>4, <2>5, <3>1, <3>3
      <4>2. more[i + d] = order[i + d] /\ order[i + d] = list[k + (i + d)].msg
        BY <1>4, <2>5, <4>1, Zenon DEF n, k, order
      <4>3. QED
        BY <2>4, <3>1, <3>5, <4>1, <4>2, Zenon
    <3>4. QED
      BY <3>2, <3>3, Zenon
  <2>10. ASSUME n + 1 - d < cap, NEW i \in 1 .. k + d
         PROVE  new[i].epoch \notin {e}
    <3>1. d = 0 /\ i \in 1 .. k /\ i \in 1 .. Len(list)
      BY <2>4, <2>5, <2>6, <2>10
    <3>2. list[i].epoch \notin {e}
      BY <1>1, <1>4, <2>6, <3>1, Zenon DEF n, k, order
    <3>3. QED
      BY <2>4, <3>1, <3>2, Zenon
  <2>11. ASSUME NEW i \in 1 .. Len(list) + 1
         PROVE  new[i].epoch \in Nat /\ new[i].epoch <= e
    <3>1. CASE i = Len(list) + 1
      BY <2>4, <2>7, <3>1
    <3>2. CASE i # Len(list) + 1
      <4>1. i \in 1 .. Len(list)
        BY <2>4, <3>2
      <4>2. QED
        BY <1>1, <1>4, <2>4, <4>1, Zenon
    <3>3. QED
      BY <3>1, <3>2, Zenon
  <2>12. Spread(new, cap)
    <3>1. SUFFICES ASSUME NEW i \in 1 .. Len(list) + 1, NEW j \in 1 .. Len(list) + 1, i < j,
                          new[i] = new[j]
                   PROVE  j - i > cap
      BY <2>4, Zenon DEF Spread
    <3>2. i \in 1 .. Len(list)
      BY <2>4, <3>1
    <3>3. CASE j # Len(list) + 1
      <4>1. j \in 1 .. Len(list)
        BY <2>4, <3>3
      <4>2. QED
        BY <1>4, <2>4, <3>1, <3>2, <4>1, Zenon DEF Spread
    <3>4. CASE j = Len(list) + 1
      <4>1. list[i].msg = msg /\ list[i].epoch = e
        BY <2>4, <2>7, <3>1, <3>2, <3>4, Zenon
      <4>2. ~ (i > k)
        <5>1. ASSUME i > k PROVE FALSE
          <6>1. i - k \in 1 .. n /\ k + (i - k) = i
            BY <2>4, <2>5, <2>6, <3>2, <5>1
          <6>2. order[i - k] = list[i].msg
            <7>1. order[i - k] = list[k + (i - k)].msg
              BY <1>4, <6>1, Zenon DEF n, k, order
            <7>2. QED
              BY <6>1, <7>1, Zenon
          <6>3. msg \in s.seen.set
            BY <2>5, <4>1, <6>1, <6>2, Zenon
          <6>4. QED
            BY <1>6, <6>3, Zenon
        <5>2. QED
          BY <5>1, Zenon
      <4>3. i \in 1 .. k
        BY <2>6, <3>2, <4>2
      <4>4. ~ (n < cap)
        BY <1>1, <1>4, <4>1, <4>3, Zenon DEF n, k, order
      <4>5. QED
        BY <2>4, <2>5, <2>6, <3>4, <4>3, <4>4
    <3>5. QED
      BY <3>3, <3>4, Zenon
  <2>15. ASSUME NEW i \in (k + d) + 1 .. Len(list) + 1
         PROVE  new[i].epoch = e
    <3>1. CASE i = Len(list) + 1
      BY <2>4, <2>7, <3>1, Zenon
    <3>2. CASE i # Len(list) + 1
      <4>1. i \in 1 .. Len(list) /\ i \in k + 1 .. Len(list)
        BY <2>4, <2>6, <3>2
      <4>2. list[i].epoch \in {e}
        BY <1>1, <1>4, <4>1, Zenon DEF n, k, order
      <4>3. QED
        BY <2>4, <4>1, <4>2, Zenon
    <3>3. QED
      BY <3>1, <3>2, Zenon
  <2>13. Remembers(a, new, e, cap)
    <3>1. Len(ins.order) = n + 1 - d /\ Len(new) - Len(ins.order) = k + d
      BY <2>1, <2>8, Zenon
    <3>2. \A i \in 1 .. Len(ins.order) : ins.order[i] = new[(Len(new) - Len(ins.order)) + i].msg
      BY <2>9, <3>1, Zenon
    <3>3. Len(ins.order) < cap =>
            \A i \in 1 .. Len(new) - Len(ins.order) : new[i].epoch \notin a.epoch
      BY <2>3, <2>10, <3>1, Zenon
    <3>4. \A i \in DOMAIN new :
            new[i].epoch \in Nat /\ \E ce \in a.epoch : new[i].epoch <= ce
      BY <2>3, <2>4, <2>11, Zenon
    <3>5. \E ce \in Nat : a.epoch = {ce} /\ ce <= e
      BY <2>3
    <3>6. Len(ins.order) <= Len(new) /\ IsSeq(new)
      BY <2>1, <2>4, <2>8, Zenon
    <3>7. \A i \in (Len(new) - Len(ins.order)) + 1 .. Len(new) : new[i].epoch \in a.epoch
      BY <2>3, <2>4, <2>15, <3>1, Zenon
    <3>8. QED
      BY <2>1, <2>3, <2>12, <3>2, <3>3, <3>4, <3>5, <3>6, <3>7, Zenon DEF Remembers
  <2>14. QED
    BY <1>3, <1>6, <2>13, Zenon DEF a, new, entry
<1>7. QED
  BY <1>5, <1>6, Zenon

\* Every member's client remembers what it has shown.
TextInv ==
    /\ text_epoch \in [User -> Nat] /\ DOMAIN gtp = User /\ DOMAIN shown = User
    /\ gtp = [m \in User |-> gtp[m]] /\ shown = [m \in User |-> shown[m]]
    /\ \A m \in User : Remembers(gtp[m], shown[m], text_epoch[m], GtpSeenCap)

LEMMA TextInit == ASSUME ChatInit PROVE TextInv
<1>1. GtpSeenCap \in Nat /\ 1 \in Nat
  BY ChatAssumption, Zenon
<1>2. /\ gtp = [m \in User |-> NewGtpClient] /\ shown = [m \in User |-> << >>]
      /\ text_epoch = [m \in User |-> 1]
  BY Zenon DEF ChatInit
<1>3. \A m \in User : gtp[m] = NewGtpClient /\ shown[m] = << >> /\ text_epoch[m] = 1
  BY <1>2, Zenon
<1>4. \A m \in User : Remembers(gtp[m], shown[m], text_epoch[m], GtpSeenCap)
  BY <1>1, <1>3, NewRemembers, Zenon
<1>5. QED
  BY <1>2, <1>4, Zenon DEF TextInv

\* GtpClient::send of a member that writes.
LEMMA BroadcastText ==
    ASSUME TextInv, NEW s \in Writer, NEW msg, Broadcast(s, msg)
    PROVE  TextInv'
<1>1. s \in User /\ GtpSeenCap \in Nat
  BY ChatAssumption, Zenon
<1>2. /\ gtp' = [gtp EXCEPT ![s] = SyncGtpEpoch(gtp[s], text_epoch[s])]
      /\ text_epoch' = text_epoch /\ shown' = shown
  BY Zenon DEF Broadcast
<1>3. text_epoch[s] \in Nat /\ Remembers(gtp[s], shown[s], text_epoch[s], GtpSeenCap)
  BY <1>1, Zenon DEF TextInv
<1>4. Remembers(SyncGtpEpoch(gtp[s], text_epoch[s]), shown[s], text_epoch[s], GtpSeenCap)
  BY <1>1, <1>3, SyncRemembers
<1>5. ASSUME NEW m \in User PROVE Remembers(gtp[m], shown[m], text_epoch[m], GtpSeenCap)'
  <2>1. gtp'[m] = IF m = s THEN SyncGtpEpoch(gtp[s], text_epoch[s]) ELSE gtp[m]
    BY <1>1, <1>2, Zenon DEF TextInv
  <2>2. Remembers(gtp'[m], shown[m], text_epoch[m], GtpSeenCap)
    BY <1>4, <2>1, Zenon DEF TextInv
  <2>3. QED
    BY <1>2, <2>2, Zenon
<1>6. DOMAIN gtp' = User /\ gtp' = [m \in User |-> gtp'[m]]
  BY <1>2, Zenon DEF TextInv
<1>7. QED
  BY <1>2, <1>5, <1>6, Zenon DEF TextInv

\* GtpClient::accept, of a live message or of a replayed one.
LEMMA TakeInText ==
    ASSUME TextInv, NEW m \in User, NEW p, NEW msg, TakeIn(m, p, msg)
    PROVE  TextInv'
<1> DEFINE c == Accept(gtp[m], msg, text_epoch[m], GtpSeenCap)
           entry == [msg |-> msg, epoch |-> text_epoch[m]]
           l == IF IsNew(gtp[m], msg, text_epoch[m]) THEN Append(shown[m], entry) ELSE shown[m]
<1>1. GtpSeenCap \in Nat
  BY ChatAssumption, Zenon
<1>2. /\ gtp' = [gtp EXCEPT ![m] = c] /\ text_epoch' = text_epoch
      /\ IF IsNew(gtp[m], msg, text_epoch[m])
         THEN shown' = [shown EXCEPT ![m] = Append(shown[m], entry)] ELSE shown' = shown
  BY Zenon DEF TakeIn
<1>3. text_epoch[m] \in Nat /\ Remembers(gtp[m], shown[m], text_epoch[m], GtpSeenCap)
  BY Zenon DEF TextInv
<1>4. Remembers(c, l, text_epoch[m], GtpSeenCap)
  BY <1>1, <1>3, AcceptRemembers, Zenon
<1>5. \A k \in User : gtp'[k] = IF k = m THEN c ELSE gtp[k]
  BY <1>2, Zenon DEF TextInv
<1>6. \A k \in User : shown'[k] = IF k = m THEN l ELSE shown[k]
  BY <1>2, Zenon DEF TextInv
<1> HIDE DEF c, l, entry
<1>7. ASSUME NEW k \in User PROVE Remembers(gtp[k], shown[k], text_epoch[k], GtpSeenCap)'
  <2>1. Remembers(gtp'[k], shown'[k], text_epoch[k], GtpSeenCap)
    BY <1>4, <1>5, <1>6, Zenon DEF TextInv
  <2>2. QED
    BY <1>2, <2>1, Zenon
<1>8. /\ DOMAIN gtp' = User /\ gtp' = [k \in User |-> gtp'[k]]
      /\ DOMAIN shown' = User /\ shown' = [k \in User |-> shown'[k]]
  BY <1>2, Zenon DEF TextInv
<1>9. QED
  BY <1>2, <1>7, <1>8, Zenon DEF TextInv

\* A node that has advanced, and a member that has lost its memory.
LEMMA AdvanceText ==
    ASSUME TextInv, NEW m \in User, AdvanceUser(m)
    PROVE  TextInv'
<1>1. gtp' = gtp /\ shown' = shown /\ text_epoch' = [text_epoch EXCEPT ![m] = text_epoch[m] + 1]
  BY Zenon DEF AdvanceUser
<1>2. \A k \in User : text_epoch'[k] \in Nat /\ text_epoch[k] \in Nat /\ text_epoch[k] <= text_epoch'[k]
  BY <1>1 DEF TextInv
<1>3. ASSUME NEW k \in User PROVE Remembers(gtp[k], shown[k], text_epoch'[k], GtpSeenCap)
  <2>1. Remembers(gtp[k], shown[k], text_epoch[k], GtpSeenCap)
    BY Zenon DEF TextInv
  <2> DEFINE e == text_epoch[k] f == text_epoch'[k]
  <2>2. e \in Nat /\ f \in Nat /\ e <= f
    BY <1>2, Zenon
  <2> HIDE DEF e, f
  <2>3. \A ce \in Nat : ce <= e => ce <= f
    BY <2>2
  <2>4. Remembers(gtp[k], shown[k], f, GtpSeenCap)
    BY <2>1, <2>3, Zenon DEF Remembers, e
  <2>5. QED
    BY <2>4, Zenon DEF f
<1>4. text_epoch' \in [User -> Nat]
  BY <1>1 DEF TextInv
<1>5. QED
  BY <1>1, <1>3, <1>4, Zenon DEF TextInv

LEMMA CrashText ==
    ASSUME TextInv, NEW m \in User, Crash(m)
    PROVE  TextInv'
<1>1. /\ gtp' = [gtp EXCEPT ![m] = NewGtpClient] /\ shown' = [shown EXCEPT ![m] = << >>]
      /\ text_epoch' = text_epoch
  BY Zenon DEF Crash
<1>2. GtpSeenCap \in Nat /\ text_epoch[m] \in Nat
  BY ChatAssumption, Zenon DEF TextInv
<1>3. Remembers(NewGtpClient, << >>, text_epoch[m], GtpSeenCap)
  BY <1>2, NewRemembers, Zenon
<1>8. DOMAIN gtp = User /\ DOMAIN shown = User
  BY Zenon DEF TextInv
<1>4. /\ gtp'[m] = NewGtpClient /\ shown'[m] = << >>
      /\ \A k \in User \ {m} : gtp'[k] = gtp[k] /\ shown'[k] = shown[k]
  BY <1>1, <1>8, Zenon
<1>5. ASSUME NEW k \in User PROVE Remembers(gtp[k], shown[k], text_epoch[k], GtpSeenCap)'
  <2>1. Remembers(gtp[k], shown[k], text_epoch[k], GtpSeenCap)
    BY Zenon DEF TextInv
  <2>2. Remembers(gtp'[k], shown'[k], text_epoch[k], GtpSeenCap)
    <3>1. CASE k = m
      BY <1>3, <1>4, <3>1, Zenon
    <3>2. CASE k # m
      BY <1>4, <2>1, <3>2, Zenon
    <3>3. QED
      BY <3>1, <3>2, Zenon
  <2>3. QED
    BY <1>1, <2>2, Zenon
<1>6. /\ DOMAIN gtp' = User /\ gtp' = [k \in User |-> gtp'[k]]
      /\ DOMAIN shown' = User /\ shown' = [k \in User |-> shown'[k]]
  BY <1>1, Zenon DEF TextInv
<1>7. QED
  BY <1>1, <1>5, <1>6, Zenon DEF TextInv

LEMMA UnchangedText ==
    ASSUME TextInv, UNCHANGED <<gtp, shown, text_epoch>>
    PROVE  TextInv'
BY Zenon DEF TextInv

LEMMA TextStep == ASSUME TextInv, [ChatNext]_chatvars PROVE TextInv'
<1>1. ASSUME NEW s \in Writer, SendText(s) PROVE TextInv'
  BY <1>1, BroadcastText, Zenon DEF SendText
<1>2. ASSUME NEW s \in Writer, NEW mid \in 1 .. MaxMid, Resend(s, mid) PROVE TextInv'
  BY <1>2, BroadcastText, Zenon DEF Resend
<1>3. ASSUME NEW m \in User, NEW p \in User, Receive(m, p) PROVE TextInv'
  BY <1>3, TakeInText, Zenon DEF Receive
<1>4. ASSUME NEW m \in User, SaveMark(m) \/ Rejoin(m) \/ Ask(m) PROVE TextInv'
  BY <1>4, UnchangedText, Zenon DEF SaveMark, Rejoin, Ask
<1>5. ASSUME NEW m \in User, NEW p \in User, Refuse(m, p) \/ Answer(p, m) PROVE TextInv'
  BY <1>5, UnchangedText, Zenon DEF Refuse, Answer
<1>6. CASE UNCHANGED chatvars
  BY <1>6, UnchangedText, Zenon DEF chatvars
<1>7. QED
  BY <1>1, <1>2, <1>3, <1>4, <1>5, <1>6, AdvanceText, CrashText, Zenon DEF ChatNext

\* A text that is repeated, by its sender or by a resynchronisation, is shown
\* again in its epoch only after GtpSeenCap others, whatever the members do.
THEOREM RepeatsAreSpread == ChatSpec => []ShownAgainOnlyAfterEviction
<1>1. ChatInit => TextInv
  BY TextInit, Zenon
<1>2. TextInv /\ [ChatNext]_chatvars => TextInv'
  BY TextStep, Zenon
<1>3. TextInv => ShownAgainOnlyAfterEviction
  BY Zenon DEF TextInv, Remembers, Spread, ShownAgainOnlyAfterEviction
<1>4. QED
  BY <1>1, <1>2, <1>3, PTL DEF ChatSpec

------------------------------------------------------------------------------
(* GSP: which signals are applied, and the view they make *)

AmongLast(list, item, e, cap) ==
    \E j \in DOMAIN list :
        j + cap > Len(list) /\ list[j].msg = item /\ list[j].epoch = e

\* The filter of a client that knows its epoch holds the items that are among
\* the last cap of the list and of the epoch.
LEMMA FilterExact ==
    ASSUME NEW client, NEW list, NEW e \in Nat, NEW cap \in Nat,
           Remembers(client, list, e, cap), client.epoch = {e}, NEW item
    PROVE  item \in client.seen.set <=> AmongLast(list, item, e, cap)
<1> DEFINE order == client.seen.order
           n == Len(order)
           k == Len(list) - n
<1>1. /\ FilterOK(client.seen, cap) /\ IsSeq(list) /\ n <= Len(list)
      /\ \A i \in 1 .. n : order[i] = list[k + i].msg
      /\ \A i \in k + 1 .. Len(list) : list[i].epoch \in {e}
      /\ n < cap => \A i \in 1 .. k : list[i].epoch \notin {e}
  BY Zenon DEF Remembers
<1>2. Len(list) \in Nat /\ DOMAIN list = 1 .. Len(list)
  BY <1>1, AppendAny, Zenon
<1>3. /\ n \in Nat /\ n <= cap /\ DOMAIN order = 1 .. n
      /\ client.seen.set = {order[i] : i \in DOMAIN order}
  BY <1>1, AppendAny, Zenon DEF FilterOK
<1>4. k \in Nat /\ k + n = Len(list)
  BY <1>1, <1>2, <1>3
<1> HIDE DEF order, n, k
<1>5. ASSUME item \in client.seen.set
      PROVE  \E j \in DOMAIN list :
                j + cap > Len(list) /\ list[j].msg = item /\ list[j].epoch = e
  <2>1. PICK i \in 1 .. n : order[i] = item
    BY <1>3, <1>5, Zenon
  <2>2. k + i \in DOMAIN list /\ (k + i) + cap > Len(list) /\ k + i \in k + 1 .. Len(list)
    BY <1>2, <1>3, <1>4
  <2>3. list[k + i].msg = item /\ list[k + i].epoch = e
    BY <1>1, <2>1, <2>2, Zenon
  <2>4. QED
    BY <2>2, <2>3, Zenon
<1>6. ASSUME NEW j \in DOMAIN list, j + cap > Len(list), list[j].msg = item, list[j].epoch = e
      PROVE  item \in client.seen.set
  <2>1. j \in 1 .. k \/ (j - k \in 1 .. n /\ k + (j - k) = j)
    BY <1>2, <1>3, <1>4
  <2>2. CASE j \in 1 .. k
    <3>1. n < cap
      BY <1>2, <1>3, <1>4, <1>6, <2>2
    <3>2. QED
      BY <1>1, <1>6, <2>2, <3>1, Zenon
  <2>3. CASE j - k \in 1 .. n /\ k + (j - k) = j
    <3>1. order[j - k] = list[k + (j - k)].msg
      BY <1>1, <2>3, Zenon
    <3>2. order[j - k] = item
      BY <1>6, <2>3, <3>1, Zenon
    <3>3. QED
      BY <1>3, <2>3, <3>2, Zenon
  <2>4. QED
    BY <2>1, <2>2, <2>3, Zenon
<1>7. QED
  BY <1>5, <1>6, Zenon DEF AmongLast

------------------------------------------------------------------------------
(* The filter of a GspClient is that of a GtpClient *)

Window(client) == [seen |-> client.seen, epoch |-> client.epoch]

GspShape(client) ==
    client = [seen |-> client.seen, muted |-> client.muted, members |-> client.members,
              epoch |-> client.epoch]

SyncShape(client, epoch, synced) ==
    /\ GspShape(synced) /\ Window(synced) = SyncGtpEpoch(Window(client), epoch)
    /\ synced.members = client.members

LEMMA SyncWindow ==
    ASSUME NEW client, GspShape(client), NEW epoch
    PROVE  SyncShape(client, epoch, SyncGspEpoch(client, epoch))
<1>1. PICK a, b, c, d : client = [seen |-> a, muted |-> b, members |-> c, epoch |-> d]
  BY Zenon DEF GspShape
<1>2. CASE d = {epoch}
  BY <1>1, <1>2 DEF SyncShape, SyncGspEpoch, SyncGtpEpoch, Window, GspShape
<1>3. CASE d # {epoch}
  BY <1>1, <1>3, Zenon DEF SyncShape, SyncGspEpoch, SyncGtpEpoch, Window, GspShape
<1>4. QED
  BY <1>2, <1>3

\* What an applied signal does to the membership set, and that it does no more
EffectShape(client, f, after) ==
    /\ GspShape(after) /\ Window(after) = Window(client)
    /\ f.signal = "Join" => after.members = client.members \cup {f.sender}
    /\ f.signal = "Leave" => after.members = client.members \ {f.sender}
    /\ f.signal \notin {"Join", "Leave"} => after.members = client.members

LEMMA EffectFields ==
    ASSUME NEW client, GspShape(client), NEW f
    PROVE  EffectShape(client, f, Effect(client, f))
<1>1. PICK a, b, c, d : client = [seen |-> a, muted |-> b, members |-> c, epoch |-> d]
  BY Zenon DEF GspShape
<1>2. CASE f.signal = "Join"
  BY <1>1, <1>2 DEF EffectShape, Effect, Window, GspShape
<1>3. CASE f.signal = "Leave"
  BY <1>1, <1>3, Zenon DEF EffectShape, Effect, Window, GspShape
<1>4. CASE f.signal = "Mute"
  BY <1>1, <1>4 DEF EffectShape, Effect, Window, GspShape
<1>5. CASE f.signal = "Unmute"
  BY <1>1, <1>5 DEF EffectShape, Effect, Window, GspShape
<1>6. CASE f.signal \notin {"Join", "Leave", "Mute", "Unmute"}
  BY <1>1, <1>6 DEF EffectShape, Effect, Window, GspShape
<1>7. QED
  BY <1>2, <1>3, <1>4, <1>5, <1>6

\* accept of a signal that takes effect: its id goes through the filter as a
\* message of a GtpClient does.
AppliedShape(client, f, epoch, cap, after) ==
    /\ GspShape(after) /\ Window(after) = Accept(Window(client), f.id, epoch, cap)
    /\ f.signal = "Join" => after.members = client.members \cup {f.sender}
    /\ f.signal = "Leave" => after.members = client.members \ {f.sender}
    /\ f.signal \notin {"Join", "Leave"} => after.members = client.members

LEMMA AppliedFields ==
    ASSUME NEW client, GspShape(client), NEW f, NEW epoch, NEW cap,
           TakesEffect(client, f, epoch)
    PROVE  AppliedShape(client, f, epoch, cap, AcceptSignal(client, f, epoch, cap))
<1> DEFINE synced == SyncGspEpoch(client, epoch)
           marked == [synced EXCEPT !.seen = Insert(synced.seen, f.id, cap)]
           after == AcceptSignal(client, f, epoch, cap)
<1>1. SyncShape(client, epoch, synced)
  BY SyncWindow, Zenon
<1>2. after = Effect(marked, f)
  BY Zenon DEF AcceptSignal
<1> HIDE DEF synced
<1>3. PICK a, b, c, d : synced = [seen |-> a, muted |-> b, members |-> c, epoch |-> d]
  BY <1>1, Zenon DEF SyncShape, GspShape
<1>4. marked = [seen |-> Insert(a, f.id, cap), muted |-> b, members |-> c, epoch |-> d]
  BY <1>3
<1>5. /\ GspShape(marked) /\ marked.members = c
      /\ Window(marked) = [seen |-> Insert(a, f.id, cap), epoch |-> d]
  <2> HIDE DEF marked
  <2>1. QED
    BY <1>4, Zenon DEF GspShape, Window
<1>6. Window(marked) = Accept(Window(client), f.id, epoch, cap)
  <2>1. SyncGtpEpoch(Window(client), epoch) = [seen |-> a, epoch |-> d]
    BY <1>1, <1>3, Zenon DEF SyncShape, Window
  <2>2. Accept(Window(client), f.id, epoch, cap) = [seen |-> Insert(a, f.id, cap), epoch |-> d]
    BY <2>1 DEF Accept
  <2>3. QED
    BY <1>5, <2>2, Zenon
<1>7. marked.members = client.members
  BY <1>1, <1>3, <1>5, Zenon DEF SyncShape
<1> HIDE DEF marked, after
<1>8. EffectShape(marked, f, after)
  BY <1>2, <1>5, EffectFields, Zenon
<1>9. AppliedShape(client, f, epoch, cap, after)
  BY <1>6, <1>7, <1>8, Zenon DEF EffectShape, AppliedShape
<1>10. QED
  BY <1>9, Zenon DEF after

LEMMA TakesEffectIsNew ==
    ASSUME NEW client, GspShape(client), NEW f, NEW epoch
    PROVE  TakesEffect(client, f, epoch)
             <=> ValidArgs(f) /\ f.id \notin SyncGtpEpoch(Window(client), epoch).seen.set
<1>1. Window(SyncGspEpoch(client, epoch)) = SyncGtpEpoch(Window(client), epoch)
  BY SyncWindow, Zenon DEF SyncShape
<1>2. SyncGspEpoch(client, epoch).seen = SyncGtpEpoch(Window(client), epoch).seen
  <2> DEFINE a == SyncGspEpoch(client, epoch)
             b == SyncGtpEpoch(Window(client), epoch)
  <2>1. Window(a) = b
    BY <1>1, Zenon
  <2> HIDE DEF a, b
  <2>2. a.seen = b.seen
    BY <2>1, Zenon DEF Window
  <2>3. QED
    BY <2>2, Zenon DEF a, b
<1>3. QED
  BY <1>2, Zenon DEF TakesEffect

------------------------------------------------------------------------------
(* The signals that were heard, and which of them were applied *)

Ids(hs, ps) ==
    [k \in DOMAIN ps |-> [msg |-> hs[ps[k]].id, epoch |-> hs[ps[k]].epoch]]

Kept(ps, k, i, cap) ==
    /\ ps[k] < i
    /\ k + cap \in DOMAIN ps => ps[k + cap] >= i

\* The i-th signal is applied exactly when it should be.
Exact(hs, ps, i, cap) ==
    (\E k \in DOMAIN ps : ps[k] = i)
    <=> /\ ValidArgs(hs[i])
        /\ \A k \in DOMAIN ps : SameRequest(hs[ps[k]], hs[i]) => ~ Kept(ps, k, i, cap)

JoinedLast(hs, ps, s) ==
    \E k \in DOMAIN ps :
        /\ hs[ps[k]].sender = s /\ hs[ps[k]].signal = "Join"
        /\ \A j \in DOMAIN ps :
              hs[ps[j]].sender = s /\ hs[ps[j]].signal = "Leave" => j < k

\* Positions in hs, in order
Positions(hs, ps) ==
    /\ IsSeq(hs) /\ IsSeq(ps)
    /\ \A k \in DOMAIN ps : ps[k] \in DOMAIN hs

ViewOK(client, hs, ps, e, cap) ==
    /\ GspShape(client) /\ Positions(hs, ps)
    /\ Remembers(Window(client), Ids(hs, ps), e, cap)
    /\ \A i \in DOMAIN hs : Exact(hs, ps, i, cap)
    /\ \A s \in Signaller : s \in client.members <=> JoinedLast(hs, ps, s)

LEMMA NewView ==
    ASSUME NEW e \in Nat, NEW cap \in Nat
    PROVE  ViewOK(NewGspClient, << >>, << >>, e, cap)
<1> DEFINE c == NewGspClient
<1>1. c = [seen |-> EmptySeen, muted |-> {}, members |-> {}, epoch |-> {}]
  BY Zenon DEF NewGspClient
<1>2. Window(c) = NewGtpClient /\ GspShape(c) /\ c.members = {}
  <2> HIDE DEF c
  <2>1. QED
    BY <1>1, Zenon DEF Window, NewGtpClient, GspShape
<1> HIDE DEF c
<1>3. IsSeq(<< >>) /\ DOMAIN << >> = {}
  BY DEF IsSeq
<1>4. Ids(<< >>, << >>) = << >>
  BY DEF Ids
<1>5. Remembers(Window(c), Ids(<< >>, << >>), e, cap)
  BY <1>2, <1>4, NewRemembers, Zenon
<1>6. QED
  BY <1>2, <1>3, <1>5, Zenon DEF ViewOK, Positions, JoinedLast, c

\* One more signal is heard; the old ones and their positions stay.
LEMMA HearsOne ==
    ASSUME NEW hs, NEW ps, Positions(hs, ps), NEW f
    PROVE  /\ Positions(Append(hs, f), ps) /\ Ids(Append(hs, f), ps) = Ids(hs, ps)
           /\ Len(hs) \in Nat /\ DOMAIN hs = 1 .. Len(hs)
           /\ DOMAIN Append(hs, f) = DOMAIN hs \cup {Len(hs) + 1}
           /\ Append(hs, f)[Len(hs) + 1] = f
           /\ \A i \in DOMAIN hs : Append(hs, f)[i] = hs[i]
<1> DEFINE more == Append(hs, f)
<1>1. /\ IsSeq(more) /\ Len(hs) \in Nat /\ DOMAIN hs = 1 .. Len(hs)
      /\ DOMAIN more = 1 .. Len(hs) + 1 /\ more[Len(hs) + 1] = f
      /\ \A i \in 1 .. Len(hs) : more[i] = hs[i]
  BY AppendAny DEF Positions
<1> HIDE DEF more
<1>2. DOMAIN more = DOMAIN hs \cup {Len(hs) + 1}
  BY <1>1
<1>3. Positions(more, ps)
  BY <1>1, <1>2, Zenon DEF Positions
<1>4. \A k \in DOMAIN ps : more[ps[k]] = hs[ps[k]]
  BY <1>1, Zenon DEF Positions
<1>5. Ids(more, ps) = Ids(hs, ps)
  BY <1>4, Zenon DEF Ids
<1>6. QED
  BY <1>1, <1>2, <1>3, <1>5, Zenon DEF more

\* ... and is applied.
OneMore(hs, ps, f, more, longer) ==
    /\ Positions(more, longer)
    /\ Ids(more, longer) = Append(Ids(hs, ps), [msg |-> f.id, epoch |-> f.epoch])
    /\ Len(ps) \in Nat /\ DOMAIN ps = 1 .. Len(ps)
    /\ DOMAIN longer = DOMAIN ps \cup {Len(ps) + 1}
    /\ longer[Len(ps) + 1] = Len(hs) + 1
    /\ \A k \in DOMAIN ps : longer[k] = ps[k]
    /\ IsSeq(Ids(hs, ps)) /\ Len(Ids(hs, ps)) = Len(ps)

LEMMA AppliesOne ==
    ASSUME NEW hs, NEW ps, Positions(hs, ps), NEW f
    PROVE  OneMore(hs, ps, f, Append(hs, f), Append(ps, Len(hs) + 1))
<1> DEFINE more == Append(hs, f)
           n == Len(hs) + 1
           longer == Append(ps, n)
           entry == [msg |-> f.id, epoch |-> f.epoch]
           old == Ids(hs, ps)
<1>1. /\ Positions(more, ps) /\ DOMAIN more = DOMAIN hs \cup {n} /\ more[n] = f
      /\ \A i \in DOMAIN hs : more[i] = hs[i]
  BY HearsOne
<1>2. /\ IsSeq(longer) /\ Len(ps) \in Nat /\ DOMAIN ps = 1 .. Len(ps)
      /\ DOMAIN longer = 1 .. Len(ps) + 1 /\ longer[Len(ps) + 1] = n
      /\ \A k \in 1 .. Len(ps) : longer[k] = ps[k]
  BY AppendAny DEF Positions
<1> HIDE DEF more, n, longer
<1>3. DOMAIN longer = DOMAIN ps \cup {Len(ps) + 1}
  BY <1>2
<1>4. Positions(more, longer)
  BY <1>1, <1>2, <1>3, Zenon DEF Positions
<1>5. old = [k \in 1 .. Len(ps) |-> old[k]]
  BY <1>2, Zenon DEF Ids
<1>6. IsSeq(old) /\ Len(old) = Len(ps)
  <2> HIDE DEF old
  <2>1. DOMAIN old = 1 .. Len(ps) /\ \A k \in 1 .. Len(ps) : old[k] \in {old[i] : i \in DOMAIN old}
    BY <1>5
  <2>2. old \in Seq({old[i] : i \in DOMAIN old}) /\ Len(old) = Len(ps)
    BY <1>2, <1>5, <2>1
  <2>3. QED
    BY <2>2, Zenon DEF IsSeq
<1>7. /\ IsSeq(Append(old, entry)) /\ DOMAIN Append(old, entry) = 1 .. Len(ps) + 1
      /\ Append(old, entry)[Len(ps) + 1] = entry
      /\ \A k \in 1 .. Len(ps) : Append(old, entry)[k] = old[k]
  <2> HIDE DEF old, entry
  <2>1. QED
    BY <1>6, AppendAny
<1>8. ASSUME NEW k \in 1 .. Len(ps) + 1 PROVE Ids(more, longer)[k] = Append(old, entry)[k]
  <2>1. Ids(more, longer)[k] = [msg |-> more[longer[k]].id, epoch |-> more[longer[k]].epoch]
    BY <1>2, Zenon DEF Ids
  <2>2. CASE k = Len(ps) + 1
    BY <1>1, <1>2, <1>7, <2>1, <2>2, Zenon
  <2>3. CASE k # Len(ps) + 1
    <3>1. k \in 1 .. Len(ps) /\ k \in DOMAIN ps
      BY <1>2, <2>3
    <3>2. more[longer[k]] = hs[ps[k]]
      BY <1>1, <1>2, <3>1, Zenon DEF Positions
    <3>3. old[k] = [msg |-> hs[ps[k]].id, epoch |-> hs[ps[k]].epoch]
      BY <3>1, Zenon DEF Ids
    <3>4. QED
      BY <1>7, <2>1, <3>1, <3>2, <3>3, Zenon
  <2>4. QED
    BY <2>2, <2>3, Zenon
<1>9. Ids(more, longer) = Append(old, entry)
  <2> DEFINE a == Ids(more, longer)
             b == Append(old, entry)
  <2>1. a = [k \in 1 .. Len(ps) + 1 |-> a[k]]
    BY <1>2, Zenon DEF Ids
  <2>2. b = [k \in 1 .. Len(ps) + 1 |-> b[k]]
    <3> HIDE DEF b
    <3>1. b \in Seq({b[i] : i \in DOMAIN b}) /\ DOMAIN b = 1 .. Len(ps) + 1
      BY <1>7, Zenon DEF IsSeq, b
    <3>2. QED
      BY <3>1
  <2>3. \A k \in 1 .. Len(ps) + 1 : a[k] = b[k]
    BY <1>8, Zenon
  <2> HIDE DEF a, b
  <2>4. a = b
    BY <2>1, <2>2, <2>3, Zenon
  <2>5. QED
    BY <2>4, Zenon DEF a, b
<1>10. QED
  BY <1>2, <1>3, <1>4, <1>6, <1>9, Zenon DEF OneMore, more, longer, n

\* accept looks at the last cap signals applied in the epoch.
LEMMA AppliedUnlessRecent ==
    ASSUME NEW client, NEW hs, NEW ps, NEW e \in Nat, NEW cap \in Nat,
           ViewOK(client, hs, ps, e, cap), NEW f, f.epoch = e
    PROVE  TakesEffect(client, f, e)
             <=> /\ ValidArgs(f)
                 /\ \A k \in DOMAIN ps :
                       SameRequest(hs[ps[k]], f) => ~ (k + cap > Len(ps))
<1> DEFINE w == SyncGtpEpoch(Window(client), e)
           list == Ids(hs, ps)
<1>1. GspShape(client) /\ Positions(hs, ps) /\ Remembers(Window(client), list, e, cap)
  BY Zenon DEF ViewOK
<1>2. Remembers(w, list, e, cap) /\ w.epoch = {e}
  <2>1. e <= e
    OBVIOUS
  <2>2. QED
    BY <1>1, <2>1, SyncRemembers, Zenon
<1>3. Len(list) = Len(ps)
  BY <1>1, AppliesOne, Zenon DEF OneMore
<1>4. /\ DOMAIN list = DOMAIN ps
      /\ \A k \in DOMAIN ps : list[k].msg = hs[ps[k]].id /\ list[k].epoch = hs[ps[k]].epoch
  BY Zenon DEF Ids
<1>5. TakesEffect(client, f, e) <=> ValidArgs(f) /\ f.id \notin w.seen.set
  BY <1>1, TakesEffectIsNew, Zenon
<1> HIDE DEF w, list
<1>6. f.id \in w.seen.set <=> AmongLast(list, f.id, e, cap)
  BY <1>2, FilterExact, Zenon
<1>7. \A k \in DOMAIN ps :
          SameRequest(hs[ps[k]], f) <=> list[k].msg = f.id /\ list[k].epoch = e
  BY <1>4, Zenon DEF SameRequest
<1>8. f.id \in w.seen.set
        <=> \E j \in DOMAIN ps : SameRequest(hs[ps[j]], f) /\ j + cap > Len(ps)
  BY <1>3, <1>4, <1>6, <1>7, Zenon DEF AmongLast
<1>9. QED
  BY <1>5, <1>8, Zenon

\* A signal that is not applied changes nothing of the view.
LEMMA HeardView ==
    ASSUME NEW client, NEW hs, NEW ps, NEW e \in Nat, NEW cap \in Nat,
           ViewOK(client, hs, ps, e, cap), NEW f, f.epoch = e,
           ~ TakesEffect(client, f, e)
    PROVE  ViewOK(AcceptSignal(client, f, e, cap), Append(hs, f), ps, e, cap)
<1> DEFINE after == AcceptSignal(client, f, e, cap)
           more == Append(hs, f)
           n == Len(hs) + 1
<1>1. /\ GspShape(client) /\ Positions(hs, ps)
      /\ Remembers(Window(client), Ids(hs, ps), e, cap)
      /\ \A i \in DOMAIN hs : Exact(hs, ps, i, cap)
      /\ \A s \in Signaller : s \in client.members <=> JoinedLast(hs, ps, s)
  BY Zenon DEF ViewOK
<1>2. after = SyncGspEpoch(client, e)
  BY Zenon DEF AcceptSignal
<1>3. SyncShape(client, e, after)
  BY <1>1, <1>2, SyncWindow, Zenon
<1> HIDE DEF after
<1>4. /\ Positions(more, ps) /\ Ids(more, ps) = Ids(hs, ps)
      /\ Len(hs) \in Nat /\ DOMAIN hs = 1 .. Len(hs)
      /\ DOMAIN more = DOMAIN hs \cup {n} /\ more[n] = f
      /\ \A i \in DOMAIN hs : more[i] = hs[i]
  BY <1>1, HearsOne
<1>5. \A k \in DOMAIN ps : ps[k] \in DOMAIN hs /\ more[ps[k]] = hs[ps[k]]
  BY <1>1, <1>4, Zenon DEF Positions
<1>6. \A i \in DOMAIN hs : i < n /\ i # n
  BY <1>4
<1>7. Len(ps) \in Nat /\ DOMAIN ps = 1 .. Len(ps)
  BY <1>1, AppliesOne, Zenon DEF OneMore
<1> HIDE DEF more, n
<1>8. Remembers(Window(after), Ids(more, ps), e, cap)
  <2>1. e <= e
    OBVIOUS
  <2>2. Remembers(SyncGtpEpoch(Window(client), e), Ids(hs, ps), e, cap)
    BY <1>1, <2>1, SyncRemembers, Zenon
  <2>3. QED
    BY <1>3, <1>4, <2>2, Zenon DEF SyncShape
<1>9. \A i \in DOMAIN hs : Exact(more, ps, i, cap)
  BY <1>1, <1>4, <1>5, Zenon DEF Exact
<1>10. Exact(more, ps, n, cap)
  <2>1. ~ \E k \in DOMAIN ps : ps[k] = n
    BY <1>5, <1>6, Zenon
  <2>2. \/ ~ ValidArgs(f)
        \/ \E k \in DOMAIN ps : SameRequest(hs[ps[k]], f) /\ k + cap > Len(ps)
    BY AppliedUnlessRecent, Zenon
  <2>3. ASSUME NEW k \in DOMAIN ps, k + cap > Len(ps) PROVE Kept(ps, k, n, cap)
    <3>1. k + cap \notin DOMAIN ps
      BY <1>7, <2>3
    <3>2. QED
      BY <1>5, <1>6, <3>1, Zenon DEF Kept
  <2>4. QED
    BY <1>4, <1>5, <2>1, <2>2, <2>3, Zenon DEF Exact
<1>11. \A s \in Signaller : s \in after.members <=> JoinedLast(more, ps, s)
  <2>1. ASSUME NEW s PROVE JoinedLast(more, ps, s) <=> JoinedLast(hs, ps, s)
    <3>1. JoinedLast(hs, ps, s) => JoinedLast(more, ps, s)
      BY <1>5, Zenon DEF JoinedLast
    <3>2. JoinedLast(more, ps, s) => JoinedLast(hs, ps, s)
      BY <1>5, Zenon DEF JoinedLast
    <3>3. QED
      BY <3>1, <3>2, Zenon
  <2>2. QED
    BY <1>1, <1>3, <2>1, Zenon DEF SyncShape
<1>14. \A i \in DOMAIN more : Exact(more, ps, i, cap)
  BY <1>4, <1>9, <1>10, Zenon
<1>15. GspShape(after) /\ Positions(more, ps)
  BY <1>3, <1>4, Zenon DEF SyncShape
<1>12. ViewOK(after, more, ps, e, cap)
  BY <1>8, <1>11, <1>14, <1>15, Zenon DEF ViewOK
<1>13. QED
  BY <1>12, Zenon DEF after, more

\* The view after one more applied signal
JoinedThen(hs, ps, f, s) ==
    \/ f.sender = s /\ f.signal = "Join"
    \/ JoinedLast(hs, ps, s) /\ ~ (f.sender = s /\ f.signal = "Leave")

ThenApplied(hs, ps, f, more, longer, last) ==
    /\ DOMAIN longer = DOMAIN ps \cup {last} /\ more[longer[last]] = f
    /\ \A k \in DOMAIN ps : more[longer[k]] = hs[ps[k]] /\ k < last /\ ~ (last < k)
    /\ ~ (last < last)

LEMMA JoinedAfter ==
    ASSUME NEW hs, NEW ps, NEW f, NEW more, NEW longer, NEW last, NEW s,
           ThenApplied(hs, ps, f, more, longer, last)
    PROVE  JoinedLast(more, longer, s) <=> JoinedThen(hs, ps, f, s)
<1>5. /\ DOMAIN longer = DOMAIN ps \cup {last} /\ more[longer[last]] = f
      /\ \A k \in DOMAIN ps : more[longer[k]] = hs[ps[k]] /\ k < last /\ ~ (last < k)
      /\ ~ (last < last)
  BY Zenon DEF ThenApplied
<1>1. CASE f.sender = s /\ f.signal = "Join"
  <2>1. f.signal # "Leave"
    BY <1>1
  <2>2. \A j \in DOMAIN longer :
            more[longer[j]].sender = s /\ more[longer[j]].signal = "Leave" => j < last
    BY <1>5, <2>1, Zenon
  <2>3. QED
    BY <1>1, <1>5, <2>2, Zenon DEF JoinedLast, JoinedThen
<1>2. CASE f.sender = s /\ f.signal = "Leave"
  <2>1. f.signal # "Join"
    BY <1>2
  <2>2. ~ JoinedLast(more, longer, s)
    <3>1. SUFFICES ASSUME JoinedLast(more, longer, s) PROVE FALSE
      OBVIOUS
    <3>2. PICK k \in DOMAIN longer :
              more[longer[k]].signal = "Join" /\ last < k
      BY <1>2, <1>5, <3>1, Zenon DEF JoinedLast
    <3>3. QED
      BY <1>5, <2>1, <3>2, Zenon
  <2>3. QED
    BY <1>2, <2>1, <2>2, Zenon DEF JoinedThen
<1>3. CASE ~ (f.sender = s /\ f.signal \in {"Join", "Leave"})
  <2>1. \A k \in DOMAIN longer : more[longer[k]].sender = s
            /\ more[longer[k]].signal \in {"Join", "Leave"} => k \in DOMAIN ps
    BY <1>3, <1>5, Zenon
  <2>2. JoinedLast(more, longer, s) <=> JoinedLast(hs, ps, s)
    <3>1. ASSUME JoinedLast(more, longer, s) PROVE JoinedLast(hs, ps, s)
      BY <1>5, <2>1, <3>1, Zenon DEF JoinedLast
    <3>2. ASSUME JoinedLast(hs, ps, s) PROVE JoinedLast(more, longer, s)
      BY <1>5, <2>1, <3>2, Zenon DEF JoinedLast
    <3>3. QED
      BY <3>1, <3>2, Zenon
  <2>3. QED
    BY <1>3, <2>2, Zenon DEF JoinedThen
<1>4. QED
  BY <1>1, <1>2, <1>3, Zenon

\* A signal that is applied
LEMMA AppliedView ==
    ASSUME NEW client, NEW hs, NEW ps, NEW e \in Nat, NEW cap \in Nat,
           ViewOK(client, hs, ps, e, cap), NEW f, f.epoch = e,
           TakesEffect(client, f, e)
    PROVE  ViewOK(AcceptSignal(client, f, e, cap), Append(hs, f),
                  Append(ps, Len(hs) + 1), e, cap)
<1> DEFINE after == AcceptSignal(client, f, e, cap)
           more == Append(hs, f)
           n == Len(hs) + 1
           longer == Append(ps, n)
           last == Len(ps) + 1
<1>1. /\ GspShape(client) /\ Positions(hs, ps)
      /\ Remembers(Window(client), Ids(hs, ps), e, cap)
      /\ \A i \in DOMAIN hs : Exact(hs, ps, i, cap)
      /\ \A s \in Signaller : s \in client.members <=> JoinedLast(hs, ps, s)
  BY Zenon DEF ViewOK
<1>2. AppliedShape(client, f, e, cap, after)
  BY <1>1, AppliedFields, Zenon
<1>3. /\ Len(hs) \in Nat /\ DOMAIN hs = 1 .. Len(hs)
      /\ DOMAIN more = DOMAIN hs \cup {n} /\ more[n] = f
      /\ \A i \in DOMAIN hs : more[i] = hs[i]
  BY <1>1, HearsOne
<1>4. /\ Positions(more, longer)
      /\ Ids(more, longer) = Append(Ids(hs, ps), [msg |-> f.id, epoch |-> f.epoch])
      /\ Len(ps) \in Nat /\ DOMAIN ps = 1 .. Len(ps)
      /\ DOMAIN longer = DOMAIN ps \cup {last}
      /\ longer[last] = n
      /\ \A k \in DOMAIN ps : longer[k] = ps[k]
  <2>1. OneMore(hs, ps, f, more, longer)
    BY <1>1, AppliesOne, Zenon
  <2> HIDE DEF more, longer
  <2>2. QED
    BY <2>1, Zenon DEF OneMore
<1>5. \A k \in DOMAIN ps : ps[k] \in DOMAIN hs /\ more[longer[k]] = hs[ps[k]]
  BY <1>1, <1>3, <1>4, Zenon DEF Positions
<1>6. /\ \A i \in DOMAIN hs : i < n /\ i # n /\ n >= i /\ ~ (n < i) /\ ~ (i >= n)
      /\ ~ (n < n) /\ n >= n
  BY <1>3
<1>7. /\ \A k \in DOMAIN ps : k < last /\ ~ (last < k) /\ k # last
      /\ ~ (last < last)
  BY <1>4
<1>8. Remembers(Window(after), Ids(more, longer), e, cap)
  <2>1. IsNew(Window(client), f.id, e)
    BY <1>1, TakesEffectIsNew, Zenon DEF IsNew
  <2>2. Remembers(Accept(Window(client), f.id, e, cap),
                  Append(Ids(hs, ps), [msg |-> f.id, epoch |-> e]), e, cap)
    BY <1>1, <2>1, AcceptRemembers, Zenon
  <2>3. QED
    BY <1>2, <1>4, <2>2, Zenon DEF AppliedShape
<1> HIDE DEF after, more, n, longer, last
<1>9. ASSUME NEW i \in DOMAIN hs PROVE Exact(more, longer, i, cap)
  <2>1. (\E k \in DOMAIN longer : longer[k] = i) <=> (\E k \in DOMAIN ps : ps[k] = i)
    BY <1>4, <1>6, Zenon
  <2>2. ~ Kept(longer, last, i, cap)
    BY <1>4, <1>6, Zenon DEF Kept
  <2>3. ASSUME NEW k \in DOMAIN ps
        PROVE  Kept(longer, k, i, cap) <=> Kept(ps, k, i, cap)
    BY <1>4, <1>6, Zenon DEF Kept
  <2>4. Exact(hs, ps, i, cap)
    BY <1>1, Zenon
  <2>5. more[i] = hs[i] /\ \A k \in DOMAIN ps : more[longer[k]] = hs[ps[k]]
    BY <1>3, <1>5, Zenon
  <2>6. (\A k \in DOMAIN longer :
             SameRequest(more[longer[k]], more[i]) => ~ Kept(longer, k, i, cap))
        <=> (\A k \in DOMAIN ps : SameRequest(hs[ps[k]], hs[i]) => ~ Kept(ps, k, i, cap))
    BY <1>4, <2>2, <2>3, <2>5, Zenon
  <2>7. QED
    BY <2>1, <2>4, <2>5, <2>6, Zenon DEF Exact
<1>10. Exact(more, longer, n, cap)
  <2>1. \E k \in DOMAIN longer : longer[k] = n
    BY <1>4, Zenon
  <2>2. /\ ValidArgs(f)
        /\ \A k \in DOMAIN ps : SameRequest(hs[ps[k]], f) => ~ (k + cap > Len(ps))
    BY AppliedUnlessRecent, Zenon
  <2>3. ~ Kept(longer, last, n, cap)
    BY <1>4, <1>6, Zenon DEF Kept
  <2>4. ASSUME NEW k \in DOMAIN ps, ~ (k + cap > Len(ps)) PROVE ~ Kept(longer, k, n, cap)
    <3>1. k + cap \in DOMAIN ps
      BY <1>4, <2>4
    <3>2. k + cap \in DOMAIN longer /\ ~ (longer[k + cap] >= n)
      BY <1>4, <1>5, <1>6, <3>1, Zenon
    <3>3. QED
      BY <3>2, Zenon DEF Kept
  <2>5. \A k \in DOMAIN longer :
            SameRequest(more[longer[k]], f) => ~ Kept(longer, k, n, cap)
    BY <1>4, <1>5, <2>2, <2>3, <2>4, Zenon
  <2>6. more[n] = f
    BY <1>3, Zenon
  <2>7. QED
    BY <2>1, <2>2, <2>5, <2>6, Zenon DEF Exact
<1>11. ASSUME NEW s \in Signaller PROVE s \in after.members <=> JoinedLast(more, longer, s)
  <2>1. more[longer[last]] = f
    BY <1>3, <1>4, Zenon
  <2>2. JoinedLast(more, longer, s) <=> JoinedThen(hs, ps, f, s)
    <3>1. ThenApplied(hs, ps, f, more, longer, last)
      BY <1>4, <1>5, <1>7, <2>1, Zenon DEF ThenApplied
    <3>2. QED
      BY <3>1, JoinedAfter, Zenon
  <2>3. s \in client.members <=> JoinedLast(hs, ps, s)
    BY <1>1, Zenon
  <2>4. s \in after.members
          <=> \/ f.sender = s /\ f.signal = "Join"
              \/ s \in client.members /\ ~ (f.sender = s /\ f.signal = "Leave")
    <3>1. CASE f.signal = "Join"
      <4>1. f.signal # "Leave"
        BY <3>1
      <4>2. QED
        BY <1>2, <3>1, <4>1, Zenon DEF AppliedShape
    <3>2. CASE f.signal = "Leave"
      <4>1. f.signal # "Join"
        BY <3>2
      <4>2. QED
        BY <1>2, <3>2, <4>1, Zenon DEF AppliedShape
    <3>3. CASE f.signal \notin {"Join", "Leave"}
      BY <1>2, <3>3, Zenon DEF AppliedShape
    <3>4. QED
      BY <3>1, <3>2, <3>3, Zenon
  <2>5. QED
    BY <2>2, <2>3, <2>4, Zenon DEF JoinedThen
<1>14. \A i \in DOMAIN more : Exact(more, longer, i, cap)
  BY <1>3, <1>9, <1>10, Zenon
<1>15. GspShape(after) /\ Positions(more, longer)
  BY <1>2, <1>4, Zenon DEF AppliedShape
<1>12. ViewOK(after, more, longer, e, cap)
  BY <1>8, <1>11, <1>14, <1>15, Zenon DEF ViewOK
<1>13. QED
  BY <1>12, Zenon DEF after, more, longer, n

\* The node of an observer has moved on.
LEMMA AdvancedView ==
    ASSUME NEW client, NEW hs, NEW ps, NEW e \in Nat, NEW cap \in Nat,
           ViewOK(client, hs, ps, e, cap)
    PROVE  ViewOK(client, hs, ps, e + 1, cap)
<1>1. \A ce \in Nat : ce <= e => ce <= e + 1
  OBVIOUS
<1>2. Remembers(Window(client), Ids(hs, ps), e, cap)
  BY Zenon DEF ViewOK
<1>3. Remembers(Window(client), Ids(hs, ps), e + 1, cap)
  BY <1>1, <1>2, Zenon DEF Remembers
<1>4. QED
  BY <1>3, Zenon DEF ViewOK

SignalInv ==
    /\ signal_epoch \in [Signaller \cup Observer -> Nat]
    /\ gsp = [r \in Observer |-> gsp[r]] /\ heard = [r \in Observer |-> heard[r]]
    /\ applied = [r \in Observer |-> applied[r]]
    /\ \A r \in Observer :
          ViewOK(gsp[r], heard[r], applied[r], signal_epoch[r], GspSeenCap)

LEMMA SignalInit == ASSUME SignalsInit PROVE SignalInv
<1>1. GspSeenCap \in Nat /\ 1 \in Nat
  BY SignalsAssumption, Zenon
<1>2. /\ gsp = [r \in Observer |-> NewGspClient] /\ heard = [r \in Observer |-> << >>]
      /\ applied = [r \in Observer |-> << >>]
      /\ signal_epoch = [m \in Signaller \cup Observer |-> 1]
  BY Zenon DEF SignalsInit
<1>3. \A r \in Observer : /\ gsp[r] = NewGspClient /\ heard[r] = << >>
                          /\ applied[r] = << >> /\ signal_epoch[r] = 1
  BY <1>2, Zenon
<1>4. \A r \in Observer :
          ViewOK(gsp[r], heard[r], applied[r], signal_epoch[r], GspSeenCap)
  BY <1>1, <1>3, NewView, Zenon
<1>5. QED
  BY <1>2, <1>4, Zenon DEF SignalInv

LEMMA AcceptNextKeeps ==
    ASSUME SignalInv, NEW r \in Observer, NEW s, AcceptNext(r, s)
    PROVE  SignalInv'
<1> DEFINE f == issued[s][pos[r][s] + 1]
           e == signal_epoch[r]
           c == AcceptSignal(gsp[r], f, e, GspSeenCap)
           hs == Append(heard[r], f)
           ps == IF TakesEffect(gsp[r], f, e) THEN Append(applied[r], Len(heard[r]) + 1)
                 ELSE applied[r]
<1>1. /\ f.epoch = e /\ signal_epoch' = signal_epoch
      /\ gsp' = [gsp EXCEPT ![r] = c] /\ heard' = [heard EXCEPT ![r] = hs]
      /\ applied' = [applied EXCEPT ![r] = ps]
  BY Zenon DEF AcceptNext
<1>2. GspSeenCap \in Nat /\ e \in Nat
  BY SignalsAssumption, Zenon DEF SignalInv
<1>3. ViewOK(gsp[r], heard[r], applied[r], e, GspSeenCap)
  BY Zenon DEF SignalInv
<1> HIDE DEF f, e
<1>4. ViewOK(c, hs, ps, e, GspSeenCap)
  <2>1. CASE TakesEffect(gsp[r], f, e)
    BY <1>1, <1>2, <1>3, <2>1, AppliedView, Zenon
  <2>2. CASE ~ TakesEffect(gsp[r], f, e)
    BY <1>1, <1>2, <1>3, <2>2, HeardView, Zenon
  <2>3. QED
    BY <2>1, <2>2, Zenon
<1> HIDE DEF c, hs, ps
<1>5. DOMAIN gsp = Observer /\ DOMAIN heard = Observer /\ DOMAIN applied = Observer
  BY Zenon DEF SignalInv
<1>6. /\ gsp'[r] = c /\ heard'[r] = hs /\ applied'[r] = ps
      /\ \A q \in Observer \ {r} :
            gsp'[q] = gsp[q] /\ heard'[q] = heard[q] /\ applied'[q] = applied[q]
  BY <1>1, <1>5, Zenon
<1>7. ASSUME NEW q \in Observer
      PROVE  ViewOK(gsp'[q], heard'[q], applied'[q], signal_epoch[q], GspSeenCap)
  <2>1. CASE q = r
    BY <1>4, <1>6, <2>1, Zenon DEF e
  <2>2. CASE q # r
    BY <1>6, <2>2, Zenon DEF SignalInv
  <2>3. QED
    BY <2>1, <2>2, Zenon
<1>8. /\ gsp' = [q \in Observer |-> gsp'[q]] /\ heard' = [q \in Observer |-> heard'[q]]
      /\ applied' = [q \in Observer |-> applied'[q]]
  BY <1>1, <1>5, Zenon
<1>9. signal_epoch \in [Signaller \cup Observer -> Nat]
  BY Zenon DEF SignalInv
<1>10. QED
  BY <1>1, <1>7, <1>8, <1>9, Zenon DEF SignalInv

LEMMA AdvanceMemberKeeps ==
    ASSUME SignalInv, NEW m \in Signaller \cup Observer, AdvanceMember(m)
    PROVE  SignalInv'
<1>1. /\ signal_epoch' = [signal_epoch EXCEPT ![m] = signal_epoch[m] + 1]
      /\ UNCHANGED <<gsp, heard, applied>>
  BY Zenon DEF AdvanceMember
<1>2. signal_epoch \in [Signaller \cup Observer -> Nat] /\ GspSeenCap \in Nat
  BY SignalsAssumption, Zenon DEF SignalInv
<1>3. signal_epoch' \in [Signaller \cup Observer -> Nat]
  BY <1>1, <1>2
<1>4. ASSUME NEW r \in Observer
      PROVE  ViewOK(gsp[r], heard[r], applied[r], signal_epoch'[r], GspSeenCap)
  <2>1. ViewOK(gsp[r], heard[r], applied[r], signal_epoch[r], GspSeenCap)
    BY Zenon DEF SignalInv
  <2>2. signal_epoch[r] \in Nat
    BY <1>2, Zenon
  <2>3. signal_epoch'[r] = signal_epoch[r] \/ signal_epoch'[r] = signal_epoch[r] + 1
    BY <1>1, <1>2, Zenon
  <2>4. QED
    BY <1>2, <2>1, <2>2, <2>3, AdvancedView, Zenon
<1>5. QED
  BY <1>1, <1>3, <1>4, Zenon DEF SignalInv

LEMMA SignalStep == ASSUME SignalInv, [SignalsNext]_signalvars PROVE SignalInv'
<1>1. CASE UNCHANGED <<signal_epoch, gsp, heard, applied>>
  BY <1>1, Zenon DEF SignalInv
<1>2. CASE UNCHANGED signalvars
  BY <1>1, <1>2, Zenon DEF signalvars
<1>3. ASSUME NEW s, NEW signal, NEW target, NEW id, NEW keys,
             SendSignal(s, signal, id, keys, target)
      PROVE  SignalInv'
  BY <1>1, <1>3, Zenon DEF SendSignal
<1>4. ASSUME NEW r, NEW s, DropNext(r, s) PROVE SignalInv'
  BY <1>1, <1>4, Zenon DEF DropNext
<1>5. QED
  BY <1>2, <1>3, <1>4, AcceptNextKeeps, AdvanceMemberKeeps, Zenon DEF SignalsNext

\* For any number of members, epochs and signals and any ids, those of two
\* senders the same or not: the client of an observer applies a well-formed
\* signal unless its id is one of the last GspSeenCap applied in the epoch, and
\* its membership set is what the applied signals of each member determine.
THEOREM ViewsFollowApplied == SignalsSpec => []ViewIsAppliedRequests
<1>1. SignalsInit => SignalInv
  BY SignalInit, Zenon
<1>2. SignalInv /\ [SignalsNext]_signalvars => SignalInv'
  BY SignalStep, Zenon
<1>3. SignalInv => ViewIsAppliedRequests
  <2>1. ASSUME NEW r, NEW i
        PROVE  Exact(heard[r], applied[r], i, GspSeenCap)
                 <=> ((\E k \in DOMAIN applied[r] : applied[r][k] = i)
                      <=> /\ ValidArgs(heard[r][i])
                          /\ \A k \in DOMAIN applied[r] :
                                SameRequest(heard[r][applied[r][k]], heard[r][i])
                                => ~ Remembered(r, k, i))
    BY Zenon DEF Exact, Kept, Remembered
  <2>2. ASSUME NEW r, NEW s
        PROVE  JoinedLast(heard[r], applied[r], s) <=> LatestIsJoin(r, s)
    BY Zenon DEF JoinedLast, LatestIsJoin
  <2>3. QED
    BY <2>1, <2>2, Zenon DEF SignalInv, ViewOK, ViewIsAppliedRequests
<1>4. QED
  BY <1>1, <1>2, <1>3, PTL DEF SignalsSpec

------------------------------------------------------------------------------
(* GTP: what since returns *)

\* The condition of MessageHistory::since.
After(msg, watermark) == \A hw \in watermark[msg.sender] : msg.mid > hw

INSTANCE WellFoundedInduction

LEMMA Least ==
    ASSUME NEW T \in SUBSET Nat, T # {}
    PROVE  \E x \in T : \A y \in T : x <= y
<1> DEFINE R == OpToRel(<, Nat)
<1>1. IsWellFoundedOn(R, Nat)
  BY NatLessThanWellFounded, Zenon
<1>2. PICK x \in T : \A y \in T : ~ (<<y, x>> \in R)
  BY <1>1, WFMin, Zenon
<1>3. ASSUME NEW y \in T PROVE ~ (y < x)
  <2>1. y < x => <<y, x>> \in R
    BY Zenon DEF OpToRel
  <2>2. QED
    BY <1>2, <2>1, Zenon
<1>4. QED
  BY <1>3

LEMMA Induct ==
    ASSUME NEW S \in SUBSET Nat, 0 \in S, \A n \in S : n + 1 \in S
    PROVE  S = Nat
<1> SUFFICES ASSUME Nat \ S # {} PROVE FALSE
  BY Zenon
<1>1. PICK x \in Nat \ S : \A y \in Nat \ S : x <= y
  BY Least, Zenon
<1>2. x # 0 /\ x - 1 \in Nat
  BY <1>1
<1>3. QED
  BY <1>1, <1>2

\* One round of the filter of MessageHistory::since.
Round(h, w, f, n) ==
    IF n = 0 THEN << >>
    ELSE IF After(h[n], w) THEN Append(f[n - 1], h[n])
    ELSE f[n - 1]

LEMMA Rounds ==
    ASSUME NEW h, NEW w, NEW N \in Nat
    PROVE  \E f : f = [n \in 0 .. N |-> Round(h, w, f, n)]
<1> DEFINE Done == {k \in Nat : \E f : f = [n \in 0 .. k |-> Round(h, w, f, n)]}
<1>1. 0 \in Done
  <2> DEFINE f == [n \in 0 .. 0 |-> << >>]
  <2>1. f = [n \in 0 .. 0 |-> Round(h, w, f, n)]
    <3>1. \A n \in 0 .. 0 : n = 0
      OBVIOUS
    <3>2. QED
      BY <3>1, Zenon DEF Round
  <2> HIDE DEF f
  <2>2. QED
    BY <2>1, Zenon
<1>2. ASSUME NEW k \in Done PROVE k + 1 \in Done
  <2>1. PICK f : f = [n \in 0 .. k |-> Round(h, w, f, n)]
    OBVIOUS
  <2> DEFINE g == [n \in 0 .. k + 1 |-> Round(h, w, f, n)]
  <2>2. \A n \in 0 .. k : f[n] = g[n]
    <3>1. \A n \in 0 .. k : f[n] = Round(h, w, f, n)
      BY <2>1, Zenon
    <3>2. \A n \in 0 .. k : n \in 0 .. k + 1
      OBVIOUS
    <3>3. QED
      BY <3>1, <3>2, Zenon
  <2>3. ASSUME NEW n \in 0 .. k + 1 PROVE Round(h, w, f, n) = Round(h, w, g, n)
    <3>1. n = 0 \/ n - 1 \in 0 .. k
      OBVIOUS
    <3>2. n = 0 \/ f[n - 1] = g[n - 1]
      BY <2>2, <3>1, Zenon
    <3> HIDE DEF g
    <3>3. QED
      BY <3>2, Zenon DEF Round
  <2>4. g = [n \in 0 .. k + 1 |-> Round(h, w, g, n)]
    BY <2>3, Zenon
  <2> HIDE DEF g
  <2>5. k + 1 \in Nat
    OBVIOUS
  <2>6. QED
    BY <2>4, <2>5, Zenon
<1>3. Done \in SUBSET Nat
  OBVIOUS
<1> HIDE DEF Done
<1>4. Done = Nat
  BY <1>1, <1>2, <1>3, Induct, Zenon
<1>5. QED
  BY <1>4, Zenon DEF Done

\* since returns the retained messages that are after the watermark, and no other.
LEMMA SinceFilters ==
    ASSUME NEW T, NEW w, NEW h \in Seq(T)
    PROVE  /\ Since(h, w) \in Seq({x \in T : After(x, w)})
           /\ \A x : Contains(h, x) /\ After(x, w) => Contains(Since(h, w), x)
<1> DEFINE N == Len(h)
           f == CHOOSE g : g = [n \in 0 .. N |-> Round(h, w, g, n)]
           U == {x \in T : After(x, w)}
<1>1. Since(h, w) = f[N]
  BY Zenon DEF Since, Round, After
<1>2. N \in Nat /\ DOMAIN h = 1 .. N /\ \A n \in 1 .. N : h[n] \in T
  OBVIOUS
<1>3. f = [n \in 0 .. N |-> Round(h, w, f, n)]
  BY <1>2, Rounds, Zenon
<1> HIDE DEF f, N
<1>4. \A n \in 0 .. N : f[n] = Round(h, w, f, n)
  BY <1>3, Zenon
<1> DEFINE Good(n) == /\ f[n] \in Seq(U)
                      /\ \A i \in 1 .. n : After(h[i], w) => \E j \in DOMAIN f[n] : f[n][j] = h[i]
           S == {n \in Nat : n <= N => Good(n)}
<1>5. 0 \in S
  <2>1. f[0] = << >>
    BY <1>2, <1>4 DEF Round
  <2> HIDE DEF U
  <2>2. << >> \in Seq(U) /\ \A i \in 1 .. 0 : FALSE
    OBVIOUS
  <2>3. Good(0)
    BY <2>1, <2>2, Zenon
  <2>4. QED
    BY <2>3, Zenon
<1>6. ASSUME NEW n \in S PROVE n + 1 \in S
  <2>1. SUFFICES ASSUME n + 1 <= N PROVE Good(n + 1)
    BY <1>6
  <2>2. n \in Nat /\ n <= N /\ n + 1 \in 0 .. N /\ n + 1 # 0 /\ (n + 1) - 1 = n /\ n + 1 \in 1 .. N
    BY <1>2, <2>1
  <2>3. Good(n)
    BY <2>2, Zenon
  <2>4. f[n + 1] = IF After(h[n + 1], w) THEN Append(f[n], h[n + 1]) ELSE f[n]
    BY <1>4, <2>2, Zenon DEF Round
  <2>5. h[n + 1] \in T
    BY <1>2, <2>2, Zenon
  <2>6. \A i \in 1 .. n + 1 : i \in 1 .. n \/ i = n + 1
    BY <2>2
  <2>7. CASE After(h[n + 1], w)
    <3> DEFINE q == f[n] r == f[n + 1] x == h[n + 1]
    <3>1. r = Append(q, x) /\ q \in Seq(U) /\ x \in U
      BY <2>3, <2>4, <2>5, <2>7, Zenon
    <3> HIDE DEF q, r, x, U
    <3>2. /\ r \in Seq(U) /\ DOMAIN r = 1 .. Len(q) + 1 /\ r[Len(q) + 1] = x
          /\ \A j \in DOMAIN q : j \in DOMAIN r /\ r[j] = q[j]
          /\ Len(q) + 1 \in DOMAIN r
      BY <3>1
    <3>3. ASSUME NEW i \in 1 .. n + 1, After(h[i], w) PROVE \E j \in DOMAIN r : r[j] = h[i]
      <4>1. CASE i = n + 1
        BY <3>2, <4>1, Zenon DEF x
      <4>2. CASE i \in 1 .. n
        BY <2>3, <3>2, <3>3, <4>2, Zenon DEF q
      <4>3. QED
        BY <2>6, <4>1, <4>2, Zenon
    <3>4. QED
      BY <3>2, <3>3, Zenon DEF r
  <2>8. CASE ~ After(h[n + 1], w)
    BY <2>3, <2>4, <2>6, <2>8, Zenon
  <2>9. QED
    BY <2>7, <2>8, Zenon
<1>7. S \in SUBSET Nat
  OBVIOUS
<1> HIDE DEF S, U
<1>8. S = Nat
  BY <1>5, <1>6, <1>7, Induct, Zenon
<1>9. Good(N)
  BY <1>2, <1>8 DEF S
<1>10. QED
  BY <1>1, <1>2, <1>9, Zenon DEF Contains, U

------------------------------------------------------------------------------
(* GTP: the buffer, the watermark and the frames under way *)

\* push drops the oldest message at most, and adds no other than its own.
LEMMA PushKeeps ==
    ASSUME NEW T, NEW h \in Seq(T), NEW msg \in T, NEW cap \in Nat \ {0}
    PROVE  /\ Push(h, msg, cap) \in Seq(T)
           /\ \A x : Contains(Push(h, msg, cap), x) => Contains(h, x) \/ x = msg
<1>1. CASE Contains(h, msg)
  BY <1>1, Zenon DEF Push
<1>2. ASSUME NEW q \in Seq(T)
      PROVE  /\ Append(q, msg) \in Seq(T)
             /\ \A x : Contains(Append(q, msg), x) => Contains(q, x) \/ x = msg
  <2>1. Append(q, msg) \in Seq(T) /\ DOMAIN Append(q, msg) = 1 .. Len(q) + 1
    BY <1>2
  <2>2. \A i \in 1 .. Len(q) + 1 : Append(q, msg)[i] = msg \/ (i \in DOMAIN q /\ Append(q, msg)[i] = q[i])
    BY <1>2
  <2>3. QED
    BY <2>1, <2>2, Zenon DEF Contains
<1>3. CASE ~ Contains(h, msg) /\ Len(h) # cap
  BY <1>2, <1>3, Zenon DEF Push
<1>4. CASE ~ Contains(h, msg) /\ Len(h) = cap
  <2>1. Tail(h) \in Seq(T) /\ \A x : Contains(Tail(h), x) => Contains(h, x)
    <3>1. h # << >> /\ Len(h) \in Nat
      BY <1>4, Zenon
    <3>2. Tail(h) \in Seq(T) /\ \A i \in DOMAIN Tail(h) : i + 1 \in DOMAIN h /\ Tail(h)[i] = h[i + 1]
      BY <3>1
    <3>3. QED
      BY <3>2, Zenon DEF Contains
  <2>2. Push(h, msg, cap) = Append(Tail(h), msg)
    BY <1>4, Zenon DEF Push
  <2>3. QED
    BY <1>2, <2>1, <2>2, Zenon
<1>5. QED
  BY <1>1, <1>3, <1>4, Zenon

Message == [sender : Writer, mid : Nat \ {0}]

\* The messages that have been sent
Sent(last) == {x \in Message : x.mid <= last[x.sender]}

WatermarkType == [Writer -> SUBSET Nat]

\* observe: what it does to the other senders, and to the later messages
LEMMA ObserveFacts ==
    ASSUME NEW w \in WatermarkType, NEW msg \in Message
    PROVE  /\ Observe(w, msg) \in WatermarkType
           /\ \A s \in Writer : s # msg.sender => Observe(w, msg)[s] = w[s]
           /\ \A hw \in Observe(w, msg)[msg.sender] : hw \in w[msg.sender] \/ hw = msg.mid
           /\ \E hw \in Observe(w, msg)[msg.sender] : msg.mid <= hw
<1> DEFINE t == msg.sender
           v == IF \E hw \in w[t] : msg.mid <= hw THEN w[t] ELSE {msg.mid}
<1>1. t \in Writer /\ msg.mid \in Nat /\ msg.mid <= msg.mid
  BY DEF Message
<1>2. Observe(w, msg) = [w EXCEPT ![t] = v]
  BY Zenon DEF Observe
<1>3. v \in SUBSET Nat
  BY <1>1, Zenon DEF WatermarkType
<1>4. Observe(w, msg)[t] = v /\ \A s \in Writer : s # t => Observe(w, msg)[s] = w[s]
  BY <1>1, <1>2, Zenon DEF WatermarkType
<1>5. Observe(w, msg) \in WatermarkType
  BY <1>1, <1>2, <1>3, Zenon DEF WatermarkType
<1>6. (\A hw \in v : hw \in w[t] \/ hw = msg.mid) /\ \E hw \in v : msg.mid <= hw
  BY <1>1, Zenon
<1>7. QED
  BY <1>4, <1>5, <1>6, Zenon

\* A message stays after the watermark when an earlier one is observed.
LEMMA ObserveEarlier ==
    ASSUME NEW w \in WatermarkType, NEW msg \in Message, NEW x \in Message, After(x, w),
           x.sender = msg.sender => msg.mid < x.mid
    PROVE  After(x, Observe(w, msg))
<1>1. CASE x.sender = msg.sender
  <2>1. \A hw \in Observe(w, msg)[x.sender] : hw \in w[x.sender] \/ hw = msg.mid
    BY <1>1, ObserveFacts, Zenon
  <2>2. x.mid \in Nat /\ msg.mid \in Nat /\ x.mid > msg.mid
    BY <1>1 DEF Message
  <2>3. QED
    BY <2>1, <2>2, Zenon DEF After
<1>2. CASE x.sender # msg.sender
  <2>1. x.sender \in Writer
    BY Zenon DEF Message
  <2>2. Observe(w, msg)[x.sender] = w[x.sender]
    BY <1>2, <2>1, ObserveFacts, Zenon
  <2>3. QED
    BY <2>2, Zenon DEF After
<1>3. QED
  BY <1>1, <1>2, Zenon

FrameType(S) == [msg : S, epoch : Nat, replayed : BOOLEAN]

\* x is in the queue, and no later message of its sender is in front of it
Ahead(q, x) ==
    \E k \in DOMAIN q :
        /\ q[k].msg = x
        /\ \A i \in DOMAIN q : i < k /\ q[i].msg.sender = x.sender => q[i].msg.mid < x.mid

\* x is in the queue as part of an answer
Answered(q, x) == \E k \in DOMAIN q : q[k].msg = x /\ q[k].replayed

\* The queue after one more frame
LEMMA QueueAppend ==
    ASSUME NEW T, NEW q \in Seq(T), NEW f \in T, NEW x
    PROVE  /\ Append(q, f) \in Seq(T)
           /\ Ahead(q, x) => Ahead(Append(q, f), x)
           /\ Answered(q, x) => Answered(Append(q, f), x)
           /\ /\ f.msg = x
              /\ \A i \in DOMAIN q : q[i].msg.sender = x.sender => q[i].msg.mid < x.mid
              => Ahead(Append(q, f), x)
<1> DEFINE r == Append(q, f)
           n == Len(q) + 1
<1>1. /\ r \in Seq(T) /\ DOMAIN r = DOMAIN q \cup {n} /\ r[n] = f
      /\ \A i \in DOMAIN q : r[i] = q[i] /\ ~ (n < i)
      /\ ~ (n < n)
  OBVIOUS
<1> HIDE DEF r, n
<1>2. ASSUME Ahead(q, x) PROVE Ahead(r, x)
  <2>1. PICK k \in DOMAIN q :
            /\ q[k].msg = x
            /\ \A i \in DOMAIN q : i < k /\ q[i].msg.sender = x.sender => q[i].msg.mid < x.mid
    BY <1>2, Zenon DEF Ahead
  <2>2. k \in DOMAIN r /\ r[k].msg = x
    BY <1>1, <2>1, Zenon
  <2>3. ASSUME NEW i \in DOMAIN r, i < k, r[i].msg.sender = x.sender PROVE r[i].msg.mid < x.mid
    <3>1. i # n
      BY <1>1, <2>3, Zenon
    <3>2. i \in DOMAIN q /\ r[i] = q[i]
      BY <1>1, <3>1, Zenon
    <3>3. QED
      BY <2>1, <2>3, <3>2, Zenon
  <2>4. QED
    BY <2>2, <2>3, Zenon DEF Ahead
<1>3. ASSUME Answered(q, x) PROVE Answered(r, x)
  BY <1>1, <1>3, Zenon DEF Answered
<1>4. ASSUME f.msg = x,
             \A i \in DOMAIN q : q[i].msg.sender = x.sender => q[i].msg.mid < x.mid
      PROVE  Ahead(r, x)
  <2>1. \A i \in DOMAIN r : i < n /\ r[i].msg.sender = x.sender => r[i].msg.mid < x.mid
    BY <1>1, <1>4, Zenon
  <2>2. QED
    BY <1>1, <1>4, <2>1, Zenon DEF Ahead
<1>5. QED
  BY <1>1, <1>2, <1>3, <1>4, Zenon DEF r

\* The queue without its first frame
LEMMA QueueTail ==
    ASSUME NEW T, NEW q \in Seq(T), q # << >>, NEW x, Head(q).msg # x
    PROVE  /\ Ahead(q, x) => Ahead(Tail(q), x)
           /\ Answered(q, x) => Answered(Tail(q), x)
           /\ Ahead(q, x) /\ Head(q).msg.sender = x.sender => Head(q).msg.mid < x.mid
<1> DEFINE r == Tail(q)
<1>1. /\ Head(q) = q[1] /\ 1 \in DOMAIN q
      /\ \A k \in DOMAIN q : k = 1 \/ (k - 1 \in DOMAIN r /\ r[k - 1] = q[k] /\ 1 < k)
      /\ \A i \in DOMAIN r : i + 1 \in DOMAIN q /\ r[i] = q[i + 1] /\ i \in Nat
      /\ \A k \in DOMAIN q : k \in Nat
  OBVIOUS
<1> HIDE DEF r
<1>2. ASSUME Ahead(q, x)
      PROVE  Ahead(r, x) /\ (q[1].msg.sender = x.sender => q[1].msg.mid < x.mid)
  <2>1. PICK k \in DOMAIN q :
            /\ q[k].msg = x
            /\ \A i \in DOMAIN q : i < k /\ q[i].msg.sender = x.sender => q[i].msg.mid < x.mid
    BY <1>2, Zenon DEF Ahead
  <2>2. k - 1 \in DOMAIN r /\ r[k - 1] = q[k] /\ 1 < k
    BY <1>1, <2>1, Zenon
  <2>3. \A i \in DOMAIN r : i < k - 1 => i + 1 < k
    BY <1>1
  <2>4. ASSUME NEW i \in DOMAIN r, i < k - 1, r[i].msg.sender = x.sender PROVE r[i].msg.mid < x.mid
    <3>1. i + 1 \in DOMAIN q /\ r[i] = q[i + 1] /\ i + 1 < k
      BY <1>1, <2>3, <2>4, Zenon
    <3>2. QED
      BY <2>1, <2>4, <3>1, Zenon
  <2>5. Ahead(r, x)
    BY <2>1, <2>2, <2>4, Zenon DEF Ahead
  <2>6. QED
    BY <1>1, <2>1, <2>2, <2>5, Zenon
<1>3. ASSUME Answered(q, x) PROVE Answered(r, x)
  BY <1>1, <1>3, Zenon DEF Answered
<1>4. QED
  BY <1>1, <1>2, <1>3, Zenon DEF r

LEMMA SeqOfFunction ==
    ASSUME NEW T, NEW n \in Nat, NEW r \in [1 .. n -> T]
    PROVE  r \in Seq(T)
OBVIOUS

\* The answer of a peer behind what is already under way
AnswerFrames(retained, epoch) ==
    [i \in DOMAIN retained |-> TextFrame(retained[i], epoch, TRUE)]

LEMMA QueueAnswer ==
    ASSUME NEW S, NEW q \in Seq(FrameType(S)), NEW retained \in Seq(S), NEW epoch \in Nat
    PROVE  /\ q \o AnswerFrames(retained, epoch) \in Seq(FrameType(S))
           /\ \A x : Contains(retained, x) => Answered(q \o AnswerFrames(retained, epoch), x)
<1> DEFINE r == AnswerFrames(retained, epoch)
           n == Len(retained)
<1>1. n \in Nat /\ DOMAIN retained = 1 .. n /\ \A i \in 1 .. n : retained[i] \in S
  OBVIOUS
<1>2. \A i \in 1 .. n : /\ r[i] \in FrameType(S) /\ r[i].msg = retained[i] /\ r[i].replayed
  BY <1>1, Zenon DEF AnswerFrames, TextFrame, FrameType
<1>3. r = [i \in 1 .. n |-> r[i]]
  BY <1>1, Zenon DEF AnswerFrames
<1> HIDE DEF r, n
<1>4. r \in Seq(FrameType(S)) /\ DOMAIN r = 1 .. n
  <2>1. r \in [1 .. n -> FrameType(S)]
    BY <1>2, <1>3, Zenon
  <2>2. QED
    BY <1>1, <2>1, SeqOfFunction, Zenon
<1>5. /\ q \o r \in Seq(FrameType(S))
      /\ \A i \in DOMAIN r : Len(q) + i \in DOMAIN (q \o r) /\ (q \o r)[Len(q) + i] = r[i]
  <2>1. PICK T : T = FrameType(S)
    BY Zenon
  <2>2. r \in Seq(T) /\ q \in Seq(T)
    BY <1>4, <2>1, Zenon
  <2>3. /\ q \o r \in Seq(T)
        /\ \A i \in DOMAIN r : Len(q) + i \in DOMAIN (q \o r) /\ (q \o r)[Len(q) + i] = r[i]
    BY <2>2
  <2>4. QED
    BY <2>1, <2>3, Zenon
<1>6. ASSUME NEW x, Contains(retained, x) PROVE Answered(q \o r, x)
  <2>1. PICK i \in 1 .. n : retained[i] = x
    BY <1>1, <1>6, Zenon DEF Contains
  <2>2. /\ Len(q) + i \in DOMAIN (q \o r) /\ (q \o r)[Len(q) + i] = r[i]
        /\ r[i].msg = x /\ r[i].replayed
    BY <1>2, <1>4, <1>5, <2>1, Zenon
  <2>3. QED
    BY <2>2, Zenon DEF Answered
<1>7. QED
  BY <1>5, <1>6, Zenon DEF r

------------------------------------------------------------------------------
(* GTP: resynchronisation loses nothing that is retained *)

\* The states of the exchange, without what only concerns the duplicate filter
ChatTypes ==
    /\ last_mid \in [Writer -> Nat]
    /\ history \in [User -> Seq(Sent(last_mid))]
    /\ chan \in [User -> [User -> Seq(FrameType(Sent(last_mid)))]]
    /\ mark \in [User -> WatermarkType] /\ saved_mark \in [User -> WatermarkType]
    /\ text_epoch \in [User -> Nat]
    /\ up \in SUBSET User /\ missed \in SUBSET User
    /\ asked \in [User -> SUBSET User] /\ ever \in [User -> SUBSET Message]

\* A watermark is of messages that were sent, and a member's own passes over
\* all its messages.
Honest(w, last) ==
    /\ \A m \in User : \A s \in Writer : \A hw \in w[m][s] : hw <= last[s]
    /\ \A x \in Sent(last) : ~ After(x, w[x.sender])

\* Nobody is sent its own message.
Foreign(c) == \A m, p \in User : \A i \in DOMAIN c[m][p] : c[m][p][i].msg.sender # m

\* m has still to accept x, which its sender retains.
Lacks(m, x) == x.sender # m /\ Contains(history[x.sender], x) /\ x \notin ever[m]

\* x is under way from its sender, in order
Coming(m, x) == Ahead(chan[m][x.sender], x) /\ After(x, mark[m])

\* m is down, awaits the answer of x's sender, has to ask, or has x in an answer
Owed(m, x) ==
    \/ m \notin up
    \/ x.sender \in asked[m]
    \/ m \in missed
    \/ Answered(chan[m][x.sender], x)

Recoverable(m, x) == After(x, saved_mark[m]) /\ (Coming(m, x) \/ Owed(m, x))

ResyncInv ==
    /\ ChatTypes
    /\ Honest(mark, last_mid) /\ Honest(saved_mark, last_mid)
    /\ Foreign(chan)
    /\ \A m \in User : \A x \in Message : Lacks(m, x) => Recoverable(m, x)

LEMMA SentFacts ==
    ASSUME NEW last, NEW x \in Sent(last)
    PROVE  x \in Message /\ x.sender \in Writer /\ x.sender \in User
           /\ x.mid \in Nat /\ x.mid <= last[x.sender]
BY ChatAssumption, Zenon DEF Sent, Message

\* Functions of two members, after one update
LEMMA UpdateTwo ==
    ASSUME NEW T, NEW c \in [User -> [User -> T]], NEW m \in User, NEW p \in User, NEW v \in T
    PROVE  /\ [c EXCEPT ![m][p] = v] \in [User -> [User -> T]]
           /\ [c EXCEPT ![m][p] = v][m][p] = v
           /\ \A k, q \in User : k # m \/ q # p => [c EXCEPT ![m][p] = v][k][q] = c[k][q]
OBVIOUS

\* The exchange starts in the invariant.
LEMMA ResyncStart == ChatInit => ResyncInv
<1> SUFFICES ASSUME ChatInit PROVE ResyncInv
  OBVIOUS
<1>1. Sent(last_mid) = {}
  <2>1. ASSUME NEW x \in Sent(last_mid) PROVE FALSE
    <3>1. x.sender \in Writer /\ x.mid \in Nat \ {0} /\ x.mid <= last_mid[x.sender]
      BY <2>1, Zenon DEF Sent, Message
    <3>2. last_mid[x.sender] = 0
      BY <3>1, Zenon DEF ChatInit
    <3>3. QED
      BY <3>1, <3>2
  <2>2. QED
    BY <2>1, Zenon
<1>2. PICK T, F : T = Sent(last_mid) /\ F = FrameType(Sent(last_mid))
  BY Zenon
<1>3. << >> \in Seq(T) /\ << >> \in Seq(F)
  OBVIOUS
<1>4. last_mid \in [Writer -> Nat] /\ text_epoch \in [User -> Nat]
  BY DEF ChatInit
<1>5. history \in [User -> Seq(T)] /\ chan \in [User -> [User -> Seq(F)]]
  BY <1>3, Zenon DEF ChatInit
<1>6. /\ mark \in [User -> WatermarkType] /\ saved_mark \in [User -> WatermarkType]
      /\ \A m \in User : \A s \in Writer : mark[m][s] = {} /\ saved_mark[m][s] = {}
  <2>1. NewWatermark(Writer) \in WatermarkType /\ \A s \in Writer : NewWatermark(Writer)[s] = {}
    BY Zenon DEF NewWatermark, WatermarkType
  <2>2. mark = [m \in User |-> NewWatermark(Writer)] /\ saved_mark = mark
    BY Zenon DEF ChatInit
  <2>3. QED
    BY <2>1, <2>2, Zenon
<1>7. /\ up \in SUBSET User /\ missed \in SUBSET User
      /\ asked \in [User -> SUBSET User] /\ ever \in [User -> SUBSET Message]
  BY Zenon DEF ChatInit
<1>8. ChatTypes
  BY <1>2, <1>4, <1>5, <1>6, <1>7, Zenon DEF ChatTypes
<1>9. Honest(mark, last_mid) /\ Honest(saved_mark, last_mid)
  BY <1>1, <1>6, Zenon DEF Honest
<1>10. \A m, p \in User : chan[m][p] = << >> /\ history[m] = << >>
  BY Zenon DEF ChatInit
<1>11. Foreign(chan)
  BY <1>10 DEF Foreign
<1>12. ASSUME NEW m \in User, NEW x \in Message PROVE ~ Lacks(m, x)
  <2>1. x.sender \in User
    BY ChatAssumption, Zenon DEF Message
  <2>2. history[x.sender] = << >>
    BY <1>10, <2>1, Zenon
  <2>3. QED
    BY <2>2 DEF Lacks, Contains
<1>13. QED
  BY <1>8, <1>9, <1>11, <1>12, Zenon DEF ResyncInv

LEMMA ChannelType ==
    ASSUME ResyncInv, NEW m \in User, NEW p \in User
    PROVE  /\ chan[m][p] \in Seq(FrameType(Sent(last_mid)))
           /\ \A i \in DOMAIN chan[m][p] : chan[m][p][i].msg.sender # m
<1>1. chan \in [User -> [User -> Seq(FrameType(Sent(last_mid)))]] /\ Foreign(chan)
  BY Zenon DEF ResyncInv, ChatTypes
<1>2. QED
  BY <1>1, Zenon DEF Foreign

\* What is needed of the invariant about one member and one message
LEMMA LackFacts ==
    ASSUME ResyncInv, NEW m \in User, NEW x \in Message
    PROVE  /\ x.sender \in Writer /\ x.sender \in User /\ x.mid \in Nat
           /\ mark[m] \in WatermarkType /\ saved_mark[m] \in WatermarkType
           /\ chan[m][x.sender] \in Seq(FrameType(Sent(last_mid)))
           /\ Lacks(m, x) => Recoverable(m, x)
<1>1. x.sender \in Writer /\ x.sender \in User /\ x.mid \in Nat
  BY ChatAssumption, Zenon DEF Message
<1>2. mark[m] \in WatermarkType /\ saved_mark[m] \in WatermarkType
  BY Zenon DEF ResyncInv, ChatTypes
<1>3. Lacks(m, x) => Recoverable(m, x)
  BY Zenon DEF ResyncInv
<1>4. QED
  BY <1>1, <1>2, <1>3, ChannelType, Zenon

------------------------------------------------------------------------------
(* Steps that move no message *)

\* One more clause for the steps that leave the messages where they are
Quiet ==
    /\ UNCHANGED <<history, last_mid, ever, chan, mark>>
    /\ text_epoch' \in [User -> Nat]
    /\ up' \in SUBSET User /\ missed' \in SUBSET User /\ asked' \in [User -> SUBSET User]

LEMMA QuietKeeps ==
    ASSUME ResyncInv, Quiet, saved_mark' \in [User -> WatermarkType],
           Honest(saved_mark', last_mid),
           \A m \in User : \A x \in Message :
               Lacks(m, x) /\ Recoverable(m, x) => After(x, saved_mark'[m]),
           \A m \in User : \A x \in Message :
               Lacks(m, x) /\ Owed(m, x) => m \notin up' \/ x.sender \in asked'[m] \/ m \in missed'
                                              \/ Answered(chan[m][x.sender], x)
    PROVE  ResyncInv'
<1>1. ChatTypes'
  BY Zenon DEF Quiet, ResyncInv, ChatTypes
<1>2. Honest(mark', last_mid') /\ Honest(saved_mark', last_mid') /\ Foreign(chan')
  BY Zenon DEF Quiet, ResyncInv
<1>3. ASSUME NEW m \in User, NEW x \in Message, Lacks(m, x)' PROVE Recoverable(m, x)'
  <2>1. Lacks(m, x)
    BY <1>3, Zenon DEF Quiet, Lacks
  <2>2. Recoverable(m, x)
    BY <2>1, Zenon DEF ResyncInv
  <2>3. After(x, saved_mark'[m])
    BY <2>1, <2>2, Zenon
  <2>4. Coming(m, x) => Coming(m, x)'
    BY Zenon DEF Quiet, Coming
  <2>5. Owed(m, x) => Owed(m, x)'
    <3>1. chan' = chan
      BY Zenon DEF Quiet
    <3>2. QED
      BY <2>1, <3>1, Zenon DEF Owed
  <2>6. QED
    BY <2>2, <2>3, <2>4, <2>5, Zenon DEF Recoverable
<1>4. QED
  BY <1>1, <1>2, <1>3, Zenon DEF ResyncInv

LEMMA AdvanceUserKeeps == ASSUME ResyncInv, NEW k \in User, AdvanceUser(k) PROVE ResyncInv'
<1>1. text_epoch' \in [User -> Nat]
  BY DEF AdvanceUser, ResyncInv, ChatTypes
<1>2. UNCHANGED <<history, last_mid, ever, chan, mark, saved_mark, up, missed, asked>>
  BY Zenon DEF AdvanceUser
<1>3. Quiet
  BY <1>1, <1>2, Zenon DEF Quiet, ResyncInv, ChatTypes
<1>4. saved_mark' \in [User -> WatermarkType] /\ Honest(saved_mark', last_mid)
  BY <1>2, Zenon DEF ResyncInv, ChatTypes
<1>5. \A m \in User : \A x \in Message : Recoverable(m, x) => After(x, saved_mark'[m])
  BY <1>2, Zenon DEF Recoverable
<1>6. \A m \in User : \A x \in Message :
          Owed(m, x) => m \notin up' \/ x.sender \in asked'[m] \/ m \in missed'
                          \/ Answered(chan[m][x.sender], x)
  BY <1>2, Zenon DEF Owed
<1>7. QED
  BY <1>3, <1>4, <1>5, <1>6, QuietKeeps, Zenon

\* Rejoin and Ask: m's peers owe it an answer, and everyone else is as before.
LEMMA AsksKeeps ==
    ASSUME ResyncInv, NEW k \in User, Rejoin(k) \/ Ask(k) PROVE ResyncInv'
<1>1. UNCHANGED <<history, last_mid, ever, chan, mark, saved_mark, text_epoch>>
  BY Zenon DEF Rejoin, Ask
<1>2. /\ asked' = [asked EXCEPT ![k] = User \ {k}]
      /\ (up' = up \cup {k} /\ missed' = missed) \/ (up' = up /\ missed' = missed \ {k})
  BY Zenon DEF Rejoin, Ask
<1>3. /\ asked' \in [User -> SUBSET User] /\ asked'[k] = User \ {k}
      /\ \A m \in User : m # k => asked'[m] = asked[m] /\ (m \in up' => m \in up)
                                   /\ (m \in missed => m \in missed')
  BY <1>2, Zenon DEF ResyncInv, ChatTypes
<1>4. up' \in SUBSET User /\ missed' \in SUBSET User
  BY <1>2, Zenon DEF ResyncInv, ChatTypes
<1>5. Quiet
  BY <1>1, <1>3, <1>4, Zenon DEF Quiet, ResyncInv, ChatTypes
<1>6. saved_mark' \in [User -> WatermarkType] /\ Honest(saved_mark', last_mid)
  BY <1>1, Zenon DEF ResyncInv, ChatTypes
<1>7. \A m \in User : \A x \in Message : Recoverable(m, x) => After(x, saved_mark'[m])
  BY <1>1, Zenon DEF Recoverable
<1>8. ASSUME NEW m \in User, NEW x \in Message, Lacks(m, x), Owed(m, x)
      PROVE  m \notin up' \/ x.sender \in asked'[m] \/ m \in missed' \/ Answered(chan[m][x.sender], x)
  <2>1. x.sender \in User /\ x.sender # m
    BY <1>8, ChatAssumption, Zenon DEF Lacks, Message
  <2>2. CASE m = k
    BY <1>3, <2>1, <2>2, Zenon
  <2>3. CASE m # k
    BY <1>3, <1>8, <2>3, Zenon DEF Owed
  <2>4. QED
    BY <2>2, <2>3, Zenon
<1>9. QED
  BY <1>5, <1>6, <1>7, <1>8, QuietKeeps, Zenon

\* A member that is settled is owed nothing.
LEMMA SettledOwesNothing ==
    ASSUME ResyncInv, NEW m \in User, NEW x \in Message, Settled(m) PROVE ~ Owed(m, x)
<1>1. x.sender \in User
  BY ChatAssumption, Zenon DEF Message
<1>2. m \in up /\ m \notin missed /\ asked[m] = {}
      /\ \A i \in DOMAIN chan[m][x.sender] : ~ chan[m][x.sender][i].replayed
  BY <1>1, Zenon DEF Settled, Idle
<1>3. QED
  BY <1>2, Zenon DEF Owed, Answered

LEMMA SaveMarkKeeps == ASSUME ResyncInv, NEW k \in User, SaveMark(k) PROVE ResyncInv'
<1>1. /\ UNCHANGED <<history, last_mid, ever, chan, mark, text_epoch, up, missed, asked>>
      /\ saved_mark' = [saved_mark EXCEPT ![k] = mark[k]] /\ Settled(k)
  BY Zenon DEF SaveMark
<1>2. Quiet
  BY <1>1, Zenon DEF Quiet, ResyncInv, ChatTypes
<1>3. /\ saved_mark' \in [User -> WatermarkType] /\ saved_mark'[k] = mark[k]
      /\ \A m \in User : m # k => saved_mark'[m] = saved_mark[m]
  BY <1>1, Zenon DEF ResyncInv, ChatTypes
<1>4. Honest(saved_mark', last_mid)
  <2>1. \A m \in User : saved_mark'[m] = mark[m] \/ saved_mark'[m] = saved_mark[m]
    BY <1>3, Zenon
  <2>2. \A x \in Sent(last_mid) : x.sender \in User
    BY SentFacts, Zenon
  <2>3. QED
    BY <2>1, <2>2, Zenon DEF ResyncInv, Honest
<1>5. ASSUME NEW m \in User, NEW x \in Message, Recoverable(m, x) PROVE After(x, saved_mark'[m])
  <2>1. CASE m = k
    BY <1>1, <1>3, <1>5, <2>1, SettledOwesNothing, Zenon DEF Recoverable, Coming
  <2>2. CASE m # k
    BY <1>3, <1>5, <2>2, Zenon DEF Recoverable
  <2>3. QED
    BY <2>1, <2>2, Zenon
<1>6. \A m \in User : \A x \in Message :
          Owed(m, x) => m \notin up' \/ x.sender \in asked'[m] \/ m \in missed'
                          \/ Answered(chan[m][x.sender], x)
  BY <1>1, Zenon DEF Owed
<1>7. QED
  BY <1>2, <1>3, <1>4, <1>5, <1>6, QuietKeeps, Zenon

------------------------------------------------------------------------------
(* Steps that take a frame off a channel *)

SameBut(k, p) == \A m, q \in User : m # k \/ q # p => chan'[m][q] = chan[m][q]

\* The channels after the first frame of one of them was taken
LEMMA Taken ==
    ASSUME ResyncInv, NEW k \in User, NEW p \in User, chan[k][p] # << >>,
           chan' = [chan EXCEPT ![k][p] = Tail(@)]
    PROVE  /\ chan' \in [User -> [User -> Seq(FrameType(Sent(last_mid)))]]
           /\ chan'[k][p] = Tail(chan[k][p])
           /\ SameBut(k, p) /\ Foreign(chan')
           /\ Head(chan[k][p]).msg \in Sent(last_mid) /\ Head(chan[k][p]).msg.sender # k
<1> DEFINE S == Sent(last_mid)
           c == chan[k][p]
<1>1. chan \in [User -> [User -> Seq(FrameType(S))]] /\ c \in Seq(FrameType(S)) /\ c # << >>
  <2>1. chan \in [User -> [User -> Seq(FrameType(S))]]
    BY Zenon DEF ResyncInv, ChatTypes
  <2>2. QED
    BY <2>1, ChannelType, Zenon
<1>2. /\ Tail(c) \in Seq(FrameType(S)) /\ Head(c) = c[1] /\ 1 \in DOMAIN c /\ c[1] \in FrameType(S)
      /\ \A i \in DOMAIN Tail(c) : i + 1 \in DOMAIN c /\ Tail(c)[i] = c[i + 1]
  <2>1. PICK T : T = FrameType(S)
    BY Zenon
  <2>2. c \in Seq(T) /\ c # << >>
    BY <1>1, <2>1, Zenon
  <2> HIDE DEF c
  <2>3. /\ Tail(c) \in Seq(T) /\ Head(c) = c[1] /\ 1 \in DOMAIN c /\ c[1] \in T
        /\ \A i \in DOMAIN Tail(c) : i + 1 \in DOMAIN c /\ Tail(c)[i] = c[i + 1]
    BY <2>2
  <2>4. QED
    BY <2>1, <2>3, Zenon
<1>3. chan' = [chan EXCEPT ![k][p] = Tail(c)]
  OBVIOUS
<1>4. /\ chan' \in [User -> [User -> Seq(FrameType(S))]] /\ chan'[k][p] = Tail(c)
      /\ \A m, q \in User : m # k \/ q # p => chan'[m][q] = chan[m][q]
  <2>1. PICK T : T = Seq(FrameType(S))
    BY Zenon
  <2>2. chan \in [User -> [User -> T]] /\ Tail(c) \in T
    BY <1>1, <1>2, <2>1, Zenon
  <2>3. PICK v : v = Tail(c)
    BY Zenon
  <2>4. /\ chan' \in [User -> [User -> T]] /\ chan'[k][p] = v
        /\ \A m, q \in User : m # k \/ q # p => chan'[m][q] = chan[m][q]
    BY <1>3, <2>2, <2>3, UpdateTwo
  <2>5. QED
    BY <2>1, <2>3, <2>4, Zenon
<1>5. Foreign(chan)
  BY Zenon DEF ResyncInv
<1>6. ASSUME NEW m \in User, NEW q \in User, NEW i \in DOMAIN chan'[m][q]
      PROVE  chan'[m][q][i].msg.sender # m
  <2>1. CASE m = k /\ q = p
    <3>1. chan'[m][q] = Tail(c)
      BY <1>4, <2>1, Zenon
    <3>2. i + 1 \in DOMAIN c /\ chan'[m][q][i] = c[i + 1]
      BY <1>2, <1>6, <3>1, Zenon
    <3>3. \A j \in DOMAIN c : c[j].msg.sender # k
      BY <1>5, Zenon DEF Foreign
    <3>4. QED
      BY <2>1, <3>2, <3>3, Zenon
  <2>2. CASE m # k \/ q # p
    <3>1. chan'[m][q] = chan[m][q]
      BY <1>4, <2>2, Zenon
    <3>2. \A j \in DOMAIN chan[m][q] : chan[m][q][j].msg.sender # m
      BY <1>5, Zenon DEF Foreign
    <3>3. QED
      BY <1>6, <3>1, <3>2, Zenon
  <2>3. QED
    BY <2>1, <2>2, Zenon
<1>7. Foreign(chan')
  BY <1>6, Zenon DEF Foreign
<1>8. c[1].msg \in S /\ c[1].msg.sender # k
  BY <1>2, <1>5, Zenon DEF Foreign, FrameType
<1>9. QED
  BY <1>2, <1>4, <1>7, <1>8, Zenon DEF SameBut

\* A message that is not the one taken is where it was.
LEMMA TakenOther ==
    ASSUME ResyncInv, NEW k \in User, NEW p \in User, chan[k][p] # << >>,
           chan' = [chan EXCEPT ![k][p] = Tail(@)],
           NEW m \in User, NEW x \in Message, m # k \/ p # x.sender \/ Head(chan[k][p]).msg # x
    PROVE  /\ Ahead(chan[m][x.sender], x) => Ahead(chan'[m][x.sender], x)
           /\ Answered(chan[m][x.sender], x) => Answered(chan'[m][x.sender], x)
           /\ Ahead(chan[m][x.sender], x) /\ m = k /\ p = x.sender
                 /\ Head(chan[k][p]).msg.sender = x.sender => Head(chan[k][p]).msg.mid < x.mid
<1>1. x.sender \in User
  BY LackFacts, Zenon
<1>2. CASE m = k /\ p = x.sender
  <2>1. PICK q : q = chan[k][p]
    BY Zenon
  <2>2. q \in Seq(FrameType(Sent(last_mid))) /\ q # << >> /\ Head(q).msg # x
    BY <1>2, <2>1, ChannelType, Zenon
  <2>3. chan'[m][x.sender] = Tail(q) /\ chan[m][x.sender] = q
    <3>1. chan'[k][p] = Tail(chan[k][p])
      BY Taken, Zenon
    <3>2. QED
      BY <1>2, <2>1, <3>1, Zenon
  <2>4. /\ Ahead(q, x) => Ahead(Tail(q), x)
        /\ Answered(q, x) => Answered(Tail(q), x)
        /\ Ahead(q, x) /\ Head(q).msg.sender = x.sender => Head(q).msg.mid < x.mid
    BY <2>2, QueueTail, Zenon
  <2>5. QED
    BY <2>1, <2>3, <2>4, Zenon
<1>3. CASE m # k \/ p # x.sender
  <2>1. chan'[m][x.sender] = chan[m][x.sender]
    <3>1. SameBut(k, p)
      BY Taken, Zenon
    <3>2. QED
      BY <1>1, <1>3, <3>1, Zenon DEF SameBut
  <2>2. QED
    BY <1>3, <2>1, Zenon
<1>4. QED
  BY <1>2, <1>3, Zenon

\* A frame that the node refuses puts the member under the obligation to ask.
LEMMA RefuseKeeps ==
    ASSUME ResyncInv, NEW k \in User, NEW p \in User, Refuse(k, p) PROVE ResyncInv'
<1>1. /\ chan[k][p] # << >> /\ chan' = [chan EXCEPT ![k][p] = Tail(@)]
      /\ missed' = missed \cup {k}
      /\ UNCHANGED <<history, mark, saved_mark, text_epoch, last_mid, up, asked, ever>>
  BY DEF Refuse
<1>2. chan' \in [User -> [User -> Seq(FrameType(Sent(last_mid)))]] /\ Foreign(chan')
  BY <1>1, Taken, Zenon
<1>3. missed' \in SUBSET User
  BY <1>1, Zenon DEF ResyncInv, ChatTypes
<1>4. ChatTypes'
  BY <1>1, <1>2, <1>3, Zenon DEF ResyncInv, ChatTypes
<1>5. Honest(mark', last_mid') /\ Honest(saved_mark', last_mid')
  BY <1>1, Zenon DEF ResyncInv
<1>6. ASSUME NEW m \in User, NEW x \in Message, Lacks(m, x)' PROVE Recoverable(m, x)'
  <2>1. Recoverable(m, x)
    BY <1>1, <1>6, Zenon DEF ResyncInv, Lacks
  <2>2. After(x, saved_mark'[m])
    BY <1>1, <2>1, Zenon DEF Recoverable
  <2>3. CASE m = k
    BY <1>1, <2>2, <2>3, Zenon DEF Recoverable, Owed
  <2>4. CASE m # k
    <3>1. /\ Ahead(chan[m][x.sender], x) => Ahead(chan'[m][x.sender], x)
          /\ Answered(chan[m][x.sender], x) => Answered(chan'[m][x.sender], x)
      BY <1>1, <2>4, TakenOther, Zenon
    <3>2. Coming(m, x) => Coming(m, x)'
      BY <1>1, <3>1, Zenon DEF Coming
    <3>3. Owed(m, x) => Owed(m, x)'
      BY <1>1, <3>1, Zenon DEF Owed
    <3>4. QED
      BY <2>1, <2>2, <3>2, <3>3, Zenon DEF Recoverable
  <2>5. QED
    BY <2>3, <2>4, Zenon
<1>7. QED
  BY <1>2, <1>4, <1>5, <1>6, Zenon DEF ResyncInv

\* A watermark that observes a message that was sent
Bounded(w, last) == \A m \in User : \A s \in Writer : \A hw \in w[m][s] : hw <= last[s]

Observes(v, w, k, msg, last) ==
    /\ v \in [User -> WatermarkType] /\ Bounded(v, last)
    /\ v[k] = Observe(w[k], msg) /\ \A m \in User : m # k => v[m] = w[m]

LEMMA BoundedObserve ==
    ASSUME NEW last, NEW w \in [User -> WatermarkType], Bounded(w, last),
           NEW k \in User, NEW msg \in Sent(last)
    PROVE  Observes([w EXCEPT ![k] = Observe(w[k], msg)], w, k, msg, last)
<1> DEFINE o == Observe(w[k], msg)
           v == [w EXCEPT ![k] = o]
<1>1. msg \in Message /\ msg.sender \in Writer /\ msg.mid <= last[msg.sender]
  BY SentFacts, Zenon
<1>2. w[k] \in WatermarkType
  OBVIOUS
<1>3. /\ o \in WatermarkType
      /\ \A s \in Writer : s # msg.sender => o[s] = w[k][s]
      /\ \A hw \in o[msg.sender] : hw \in w[k][msg.sender] \/ hw = msg.mid
  BY <1>1, <1>2, ObserveFacts, Zenon
<1> HIDE DEF o
<1>4. /\ v \in [User -> WatermarkType] /\ v[k] = o
      /\ \A m \in User : m # k => v[m] = w[m]
  BY <1>3, Zenon
<1> HIDE DEF v
<1>5. ASSUME NEW m \in User, NEW s \in Writer, NEW hw \in v[m][s] PROVE hw <= last[s]
  <2>1. CASE m # k
    BY <1>4, <1>5, <2>1, Zenon DEF Bounded
  <2>2. CASE m = k /\ s # msg.sender
    BY <1>3, <1>4, <1>5, <2>2, Zenon DEF Bounded
  <2>3. CASE m = k /\ s = msg.sender
    BY <1>1, <1>3, <1>4, <1>5, <2>3, Zenon DEF Bounded
  <2>4. QED
    BY <2>1, <2>2, <2>3, Zenon
<1>6. QED
  <2>1. Observes(v, w, k, msg, last)
    BY <1>4, <1>5, Zenon DEF o, Bounded, Observes
  <2>2. QED
    BY <2>1, Zenon DEF v, o

LEMMA HonestObserve ==
    ASSUME NEW last \in [Writer -> Nat], NEW w \in [User -> WatermarkType], Honest(w, last),
           NEW k \in User, NEW msg \in Sent(last), msg.sender # k
    PROVE  LET v == [w EXCEPT ![k] = Observe(w[k], msg)]
           IN  v \in [User -> WatermarkType] /\ Honest(v, last)
<1> DEFINE v == [w EXCEPT ![k] = Observe(w[k], msg)]
<1>1. Bounded(w, last)
  BY Zenon DEF Honest, Bounded
<1>2. /\ v \in [User -> WatermarkType] /\ Bounded(v, last)
      /\ v[k] = Observe(w[k], msg) /\ \A m \in User : m # k => v[m] = w[m]
  <2>1. Observes(v, w, k, msg, last)
    BY <1>1, BoundedObserve, Zenon
  <2> HIDE DEF v
  <2>2. QED
    BY <2>1, Zenon DEF Observes
<1> HIDE DEF v
<1>3. ASSUME NEW x \in Sent(last) PROVE ~ After(x, v[x.sender])
  <2>1. x.sender \in User /\ x.sender \in Writer /\ ~ After(x, w[x.sender])
    BY <1>3, SentFacts, Zenon DEF Honest
  <2>2. CASE x.sender # k
    BY <1>2, <2>1, <2>2, Zenon
  <2>3. CASE x.sender = k
    <3>1. msg \in Message /\ w[k] \in WatermarkType
      BY SentFacts, Zenon
    <3>2. Observe(w[k], msg)[k] = w[k][k]
      BY <2>1, <2>3, <3>1, ObserveFacts, Zenon
    <3>3. QED
      BY <1>2, <2>1, <2>3, <3>2, Zenon DEF After
  <2>4. QED
    BY <2>2, <2>3, Zenon
<1>4. Honest(v, last)
  BY <1>2, <1>3, Zenon DEF Honest, Bounded
<1>5. QED
  BY <1>2, <1>4, Zenon DEF v

\* Histories and what was accepted, after a member took a message in
LEMMA TakenInHistory ==
    ASSUME ResyncInv, NEW k \in User, NEW msg \in Sent(last_mid), msg.sender # k,
           \/ history' = [history EXCEPT ![k] = Push(@, msg, HistoryCap)]
           \/ history' = history
    PROVE  /\ history' \in [User -> Seq(Sent(last_mid))]
           /\ \A x \in Message :
                 Contains(history'[x.sender], x) => Contains(history[x.sender], x)
<1> DEFINE h == Push(history[k], msg, HistoryCap)
<1>1. history \in [User -> Seq(Sent(last_mid))] /\ history[k] \in Seq(Sent(last_mid))
  BY Zenon DEF ResyncInv, ChatTypes
<1>2. CASE history' = history
  BY <1>1, <1>2, Zenon
<1>3. CASE history' = [history EXCEPT ![k] = h]
  <2>1. h \in Seq(Sent(last_mid)) /\ \A x : Contains(h, x) => Contains(history[k], x) \/ x = msg
    BY <1>1, ChatAssumption, PushKeeps, Zenon
  <2> HIDE DEF h
  <2>2. /\ history' \in [User -> Seq(Sent(last_mid))] /\ history'[k] = h
        /\ \A m \in User : m # k => history'[m] = history[m]
    BY <1>1, <1>3, <2>1, Zenon
  <2>3. ASSUME NEW x \in Message, Contains(history'[x.sender], x) PROVE Contains(history[x.sender], x)
    <3>1. x.sender \in User
      BY ChatAssumption, Zenon DEF Message
    <3>2. CASE x.sender = k
      BY <2>1, <2>2, <2>3, <3>2, Zenon
    <3>3. CASE x.sender # k
      BY <2>2, <2>3, <3>1, <3>3, Zenon
    <3>4. QED
      BY <3>2, <3>3, Zenon
  <2>4. QED
    BY <2>2, <2>3, Zenon
<1>4. QED
  BY <1>2, <1>3, Zenon

\* A frame that is accepted was not lacking, and passes over no message that is
\* under way from its sender.
LEMMA ReceiveKeeps ==
    ASSUME ResyncInv, NEW k \in User, NEW p \in User, Receive(k, p) PROVE ResyncInv'
<1>1. PICK msg : msg = Head(chan[k][p]).msg
  BY Zenon
<1>2. /\ chan[k][p] # << >> /\ chan' = [chan EXCEPT ![k][p] = Tail(@)]
      /\ TakeIn(k, p, msg) /\ UNCHANGED <<asked, missed>>
  BY <1>1, Zenon DEF Receive
<1>3. /\ mark' = [mark EXCEPT ![k] = IF msg.sender = p THEN Observe(mark[k], msg) ELSE mark[k]]
      /\ ever' = [ever EXCEPT ![k] = ever[k] \cup {msg}]
      /\ \/ history' = [history EXCEPT ![k] = Push(@, msg, HistoryCap)]
         \/ history' = history
      /\ UNCHANGED <<saved_mark, text_epoch, last_mid, up>>
  BY <1>2, Zenon DEF TakeIn
<1>4. /\ chan' \in [User -> [User -> Seq(FrameType(Sent(last_mid)))]] /\ Foreign(chan')
      /\ msg \in Sent(last_mid) /\ msg.sender # k
  BY <1>1, <1>2, Taken, Zenon
<1>5. msg \in Message
  BY <1>4, SentFacts, Zenon
<1>6. /\ history' \in [User -> Seq(Sent(last_mid))]
      /\ \A x \in Message : Contains(history'[x.sender], x) => Contains(history[x.sender], x)
  BY <1>3, <1>4, TakenInHistory, Zenon
<1>7. /\ ever' \in [User -> SUBSET Message] /\ msg \in ever'[k]
      /\ \A m \in User : \A x : x \in ever[m] => x \in ever'[m]
  <2>1. ever \in [User -> SUBSET Message]
    BY Zenon DEF ResyncInv, ChatTypes
  <2>2. ever' \in [User -> SUBSET Message] /\ ever'[k] = ever[k] \cup {msg}
        /\ \A m \in User : m # k => ever'[m] = ever[m]
    BY <1>3, <1>5, <2>1
  <2>3. QED
    BY <2>2, Zenon
<1>8. /\ last_mid \in [Writer -> Nat] /\ mark \in [User -> WatermarkType]
      /\ Honest(mark, last_mid) /\ mark[k] \in WatermarkType
  BY Zenon DEF ResyncInv, ChatTypes
<1>9. mark' \in [User -> WatermarkType] /\ Honest(mark', last_mid)
  <2>1. CASE msg.sender = p
    BY <1>3, <1>4, <1>8, <2>1, HonestObserve, Zenon
  <2>2. CASE msg.sender # p
    <3>1. mark' = mark
      BY <1>3, <1>8, <2>2, Zenon
    <3>2. QED
      BY <1>8, <3>1, Zenon
  <2>3. QED
    BY <2>1, <2>2, Zenon
<1>10. ChatTypes'
  BY <1>2, <1>3, <1>4, <1>6, <1>7, <1>9, Zenon DEF ResyncInv, ChatTypes
<1>11. ASSUME NEW m \in User, NEW x \in Message, Lacks(m, x)' PROVE Recoverable(m, x)'
  <2>1. Lacks(m, x)
    BY <1>6, <1>7, <1>11, Zenon DEF Lacks
  <2>2. Recoverable(m, x) /\ x.sender \in User
    BY <2>1, LackFacts, Zenon
  <2>3. m # k \/ msg # x
    BY <1>7, <1>11, Zenon DEF Lacks
  <2>4. /\ Ahead(chan[m][x.sender], x) => Ahead(chan'[m][x.sender], x)
        /\ Answered(chan[m][x.sender], x) => Answered(chan'[m][x.sender], x)
        /\ Ahead(chan[m][x.sender], x) /\ m = k /\ p = x.sender
              /\ msg.sender = x.sender => msg.mid < x.mid
    BY <1>1, <1>2, <2>3, TakenOther, Zenon
  <2>5. ASSUME Coming(m, x) PROVE After(x, mark'[m])
    <3>1. Ahead(chan[m][x.sender], x) /\ After(x, mark[m])
      BY <2>5, Zenon DEF Coming
    <3>2. CASE m # k \/ msg.sender # p
      <4>1. mark'[m] = mark[m]
        BY <1>3, <1>8, <3>2, Zenon
      <4>2. QED
        BY <3>1, <4>1, Zenon
    <3>3. CASE m = k /\ msg.sender = p
      <4>1. mark'[m] = Observe(mark[k], msg)
        BY <1>3, <1>8, <3>3, Zenon
      <4>2. x.sender = msg.sender => msg.mid < x.mid
        BY <2>4, <3>1, <3>3, Zenon
      <4>3. QED
        BY <1>5, <1>8, <3>1, <3>3, <4>1, <4>2, ObserveEarlier, Zenon
    <3>4. QED
      BY <3>2, <3>3, Zenon
  <2>6. Coming(m, x) => Coming(m, x)'
    BY <2>4, <2>5, Zenon DEF Coming
  <2>7. Owed(m, x) => Owed(m, x)'
    BY <1>2, <1>3, <2>4, Zenon DEF Owed
  <2>8. QED
    BY <1>3, <2>2, <2>6, <2>7, Zenon DEF Recoverable
<1>12. Honest(saved_mark', last_mid')
  BY <1>3, Zenon DEF ResyncInv
<1>13. QED
  BY <1>3, <1>4, <1>9, <1>10, <1>11, <1>12, Zenon DEF ResyncInv

------------------------------------------------------------------------------
(* Crashes and answers *)

\* A crash empties the channels to the member, which has to ask when it returns.
LEMMA CrashKeeps == ASSUME ResyncInv, NEW k \in User, Crash(k) PROVE ResyncInv'
<1>1. /\ up' = up \ {k} /\ history' = [history EXCEPT ![k] = << >>]
      /\ chan' = [chan EXCEPT ![k] = [q \in User |-> << >>]]
      /\ asked' = [asked EXCEPT ![k] = {}] /\ missed' = missed \ {k}
      /\ mark' = [mark EXCEPT ![k] = saved_mark[k]]
      /\ UNCHANGED <<saved_mark, text_epoch, last_mid, ever>>
  BY Zenon DEF Crash
<1>2. PICK T, F : T = Sent(last_mid) /\ F = FrameType(Sent(last_mid))
  BY Zenon
<1>3. << >> \in Seq(T) /\ << >> \in Seq(F) /\ \A i \in DOMAIN << >> : FALSE
  OBVIOUS
<1>4. history \in [User -> Seq(T)] /\ chan \in [User -> [User -> Seq(F)]]
  BY <1>2, Zenon DEF ResyncInv, ChatTypes
<1>5. /\ history' \in [User -> Seq(T)] /\ history'[k] = << >>
      /\ \A m \in User : m # k => history'[m] = history[m]
  BY <1>1, <1>3, <1>4, Zenon
<1>6. /\ chan' \in [User -> [User -> Seq(F)]] /\ \A q \in User : chan'[k][q] = << >>
      /\ \A m \in User : m # k => chan'[m] = chan[m]
  BY <1>1, <1>3, <1>4, Zenon
<1>7. /\ asked' \in [User -> SUBSET User]
      /\ \A m \in User : m # k => asked'[m] = asked[m]
      /\ up' \in SUBSET User /\ missed' \in SUBSET User
      /\ mark' \in [User -> WatermarkType] /\ mark'[k] = saved_mark[k]
      /\ \A m \in User : m # k => mark'[m] = mark[m]
  BY <1>1, Zenon DEF ResyncInv, ChatTypes
<1>8. ChatTypes'
  BY <1>1, <1>2, <1>5, <1>6, <1>7, Zenon DEF ResyncInv, ChatTypes
<1>9. Honest(saved_mark', last_mid')
  BY <1>1, Zenon DEF ResyncInv
<1>10. Honest(mark', last_mid')
  <2>1. \A m \in User : mark'[m] = mark[m] \/ mark'[m] = saved_mark[m]
    BY <1>7, Zenon
  <2>2. \A x \in Sent(last_mid) : x.sender \in User
    BY SentFacts, Zenon
  <2>3. QED
    BY <1>1, <2>1, <2>2, Zenon DEF ResyncInv, Honest
<1>11. Foreign(chan')
  BY <1>3, <1>6, Zenon DEF ResyncInv, Foreign
<1>12. ASSUME NEW m \in User, NEW x \in Message, Lacks(m, x)' PROVE Recoverable(m, x)'
  <2>1. x.sender \in User
    BY ChatAssumption, Zenon DEF Message
  <2>2. x.sender # k
    BY <1>3, <1>5, <1>12, Zenon DEF Lacks, Contains
  <2>3. Lacks(m, x)
    BY <1>1, <1>5, <1>12, <2>1, <2>2, Zenon DEF Lacks
  <2>4. Recoverable(m, x)
    BY <2>3, LackFacts, Zenon
  <2>5. After(x, saved_mark'[m])
    BY <1>1, <2>4, Zenon DEF Recoverable
  <2>6. CASE m = k
    BY <1>1, <2>5, <2>6, Zenon DEF Recoverable, Owed
  <2>7. CASE m # k
    <3>1. Coming(m, x) => Coming(m, x)'
      BY <1>6, <1>7, <2>7, Zenon DEF Coming
    <3>2. Owed(m, x) => Owed(m, x)'
      BY <1>1, <1>6, <1>7, <2>7, Zenon DEF Owed
    <3>3. QED
      BY <2>4, <2>5, <3>1, <3>2, Zenon DEF Recoverable
  <2>8. QED
    BY <2>6, <2>7, Zenon
<1>13. QED
  BY <1>8, <1>9, <1>10, <1>11, <1>12, Zenon DEF ResyncInv

\* What a peer answers: messages that were sent and are after the watermark
\* that was shipped, none of them the member's own.
LEMMA AnswerFacts ==
    ASSUME ResyncInv, NEW k \in User, NEW p \in User
    PROVE  LET retained == Since(history[p], saved_mark[k])
           IN  /\ retained \in Seq({x \in Sent(last_mid) : x.sender # k})
               /\ \A x : Contains(history[p], x) /\ After(x, saved_mark[k]) => Contains(retained, x)
<1> DEFINE retained == Since(history[p], saved_mark[k])
           T == {x \in Sent(last_mid) : After(x, saved_mark[k])}
           U == {x \in Sent(last_mid) : x.sender # k}
<1>1. history[p] \in Seq(Sent(last_mid))
  BY Zenon DEF ResyncInv, ChatTypes
<1>2. /\ retained \in Seq(T)
      /\ \A x : Contains(history[p], x) /\ After(x, saved_mark[k]) => Contains(retained, x)
  BY <1>1, SinceFilters, Zenon
<1>3. T \subseteq U
  BY Zenon DEF ResyncInv, Honest
<1> HIDE DEF retained, T, U
<1>4. retained \in Seq(U)
  BY <1>2, <1>3
<1>5. QED
  BY <1>2, <1>4, Zenon DEF retained, U

\* A queue that is lengthened by an answer keeps what is in it.
AnswerIn(c, S, k, retained) ==
    /\ c \in Seq(FrameType(S))
    /\ \A i \in DOMAIN c : c[i].msg.sender # k
    /\ \A x : Contains(retained, x) => Answered(c, x)

LEMMA QueueLonger ==
    ASSUME NEW S, NEW q \in Seq(FrameType(S)), NEW k, \A i \in DOMAIN q : q[i].msg.sender # k,
           NEW retained \in Seq({x \in S : x.sender # k}), NEW epoch \in Nat
    PROVE  AnswerIn(q \o AnswerFrames(retained, epoch), S, k, retained)
<1> DEFINE U == {x \in S : x.sender # k}
           r == AnswerFrames(retained, epoch)
<1>1. q \in Seq(FrameType(U))
  <2>1. \A i \in DOMAIN q : q[i] \in FrameType(S)
    <3>1. PICK T : T = FrameType(S)
      BY Zenon
    <3>2. \A i \in DOMAIN q : q[i] \in T
      BY <3>1
    <3>3. QED
      BY <3>1, <3>2, Zenon
  <2>2. \A i \in DOMAIN q : q[i] \in FrameType(U)
    <3>1. ASSUME NEW f \in FrameType(S), f.msg.sender # k PROVE f \in FrameType(U)
      BY <3>1, Zenon DEF FrameType
    <3>2. QED
      BY <2>1, <3>1, Zenon
  <2>3. PICK T : T = FrameType(U)
    BY Zenon
  <2>4. PICK T0 : T0 = FrameType(S)
    BY Zenon
  <2>5. q \in Seq(T0) /\ \A i \in DOMAIN q : q[i] \in T
    BY <2>2, <2>3, <2>4, Zenon
  <2>6. q \in Seq(T)
    BY <2>5
  <2>7. QED
    BY <2>3, <2>6, Zenon
<1>2. /\ q \o r \in Seq(FrameType(U)) /\ \A x : Contains(retained, x) => Answered(q \o r, x)
  BY <1>1, QueueAnswer, Zenon
<1>3. FrameType(U) \subseteq FrameType(S) /\ \A f \in FrameType(U) : f.msg.sender # k
  BY Zenon DEF FrameType
<1>4. /\ q \o r \in Seq(FrameType(S))
      /\ \A i \in DOMAIN (q \o r) : (q \o r)[i] \in FrameType(U)
  <2>1. PICK T : T = FrameType(U)
    BY Zenon
  <2>2. PICK T0 : T0 = FrameType(S)
    BY Zenon
  <2>3. PICK c : c = q \o r
    BY Zenon
  <2>4. c \in Seq(T) /\ T \subseteq T0
    BY <1>2, <1>3, <2>1, <2>2, <2>3, Zenon
  <2>5. c \in Seq(T0) /\ \A i \in DOMAIN c : c[i] \in T
    BY <2>4
  <2>6. QED
    BY <2>1, <2>2, <2>3, <2>5, Zenon
<1>5. QED
  BY <1>2, <1>3, <1>4, Zenon DEF AnswerIn

\* The answer of a message's sender has it; that of another peer changes nothing.
LEMMA AnswerKeeps ==
    ASSUME ResyncInv, NEW k \in User, NEW p \in User, Answer(p, k) PROVE ResyncInv'
<1>1. PICK retained : retained = Since(history[p], saved_mark[k])
  BY Zenon
<1>2. PICK c : c = chan[k][p] \o AnswerFrames(retained, text_epoch[p])
  BY Zenon
<1>3. /\ asked' = [asked EXCEPT ![k] = asked[k] \ {p}]
      /\ chan' = [chan EXCEPT ![k][p] = c]
      /\ UNCHANGED <<history, mark, saved_mark, text_epoch, last_mid, up, missed, ever>>
  BY <1>1, <1>2 DEF Answer, AnswerFrames
<1>4. /\ chan \in [User -> [User -> Seq(FrameType(Sent(last_mid)))]]
      /\ asked \in [User -> SUBSET User] /\ text_epoch[p] \in Nat
      /\ chan[k][p] \in Seq(FrameType(Sent(last_mid)))
      /\ \A i \in DOMAIN chan[k][p] : chan[k][p][i].msg.sender # k
  <2>1. /\ chan \in [User -> [User -> Seq(FrameType(Sent(last_mid)))]]
        /\ asked \in [User -> SUBSET User] /\ text_epoch[p] \in Nat
    BY Zenon DEF ResyncInv, ChatTypes
  <2>2. QED
    BY <2>1, ChannelType, Zenon
<1>5. /\ retained \in Seq({x \in Sent(last_mid) : x.sender # k})
      /\ \A x : Contains(history[p], x) /\ After(x, saved_mark[k]) => Contains(retained, x)
  BY <1>1, AnswerFacts, Zenon
<1>6. /\ c \in Seq(FrameType(Sent(last_mid)))
      /\ \A i \in DOMAIN c : c[i].msg.sender # k
      /\ \A x : Contains(retained, x) => Answered(c, x)
  <2>1. AnswerIn(c, Sent(last_mid), k, retained)
    BY <1>2, <1>4, <1>5, QueueLonger, Zenon
  <2>2. QED
    BY <2>1, Zenon DEF AnswerIn
<1>7. /\ chan' \in [User -> [User -> Seq(FrameType(Sent(last_mid)))]] /\ chan'[k][p] = c
      /\ \A m, q \in User : m # k \/ q # p => chan'[m][q] = chan[m][q]
  <2>1. PICK T : T = Seq(FrameType(Sent(last_mid)))
    BY Zenon
  <2>2. chan \in [User -> [User -> T]] /\ c \in T
    BY <1>4, <1>6, <2>1, Zenon
  <2>3. /\ chan' \in [User -> [User -> T]] /\ chan'[k][p] = c
        /\ \A m, q \in User : m # k \/ q # p => chan'[m][q] = chan[m][q]
    BY <1>3, <2>2, UpdateTwo
  <2>4. QED
    BY <2>1, <2>3, Zenon
<1>8. /\ asked' \in [User -> SUBSET User] /\ asked'[k] = asked[k] \ {p}
      /\ \A m \in User : m # k => asked'[m] = asked[m]
  BY <1>3, <1>4, Zenon
<1>9. ChatTypes'
  BY <1>3, <1>7, <1>8, Zenon DEF ResyncInv, ChatTypes
<1>10. Honest(mark', last_mid') /\ Honest(saved_mark', last_mid')
  BY <1>3, Zenon DEF ResyncInv
<1>11. Foreign(chan')
  <2>1. ASSUME NEW m \in User, NEW q \in User PROVE \A i \in DOMAIN chan'[m][q] : chan'[m][q][i].msg.sender # m
    <3>1. CASE m = k /\ q = p
      BY <1>6, <1>7, <3>1, Zenon
    <3>2. CASE m # k \/ q # p
      <4>1. chan'[m][q] = chan[m][q]
        BY <1>7, <3>2, Zenon
      <4>2. QED
        BY <4>1, Zenon DEF ResyncInv, Foreign
    <3>3. QED
      BY <3>1, <3>2, Zenon
  <2>2. QED
    BY <2>1, Zenon DEF Foreign
<1>12. ASSUME NEW m \in User, NEW x \in Message, Lacks(m, x)' PROVE Recoverable(m, x)'
  <2>1. x.sender \in User
    BY ChatAssumption, Zenon DEF Message
  <2>2. Lacks(m, x)
    BY <1>3, <1>12, Zenon DEF Lacks
  <2>3. Recoverable(m, x)
    BY <2>2, LackFacts, Zenon
  <2>4. After(x, saved_mark'[m])
    BY <1>3, <2>3, Zenon DEF Recoverable
  <2>5. CASE m = k /\ x.sender = p
    <3>1. Contains(history[p], x) /\ After(x, saved_mark[k])
      BY <2>2, <2>3, <2>5, Zenon DEF Lacks, Recoverable
    <3>2. Answered(chan'[m][x.sender], x)
      BY <1>5, <1>6, <1>7, <2>5, <3>1, Zenon
    <3>3. QED
      BY <2>4, <3>2, Zenon DEF Recoverable, Owed
  <2>6. CASE m # k \/ x.sender # p
    <3>1. chan'[m][x.sender] = chan[m][x.sender]
      BY <1>7, <2>1, <2>6, Zenon
    <3>2. x.sender \in asked[m] => x.sender \in asked'[m]
      BY <1>8, <2>6, Zenon
    <3>3. Coming(m, x) => Coming(m, x)'
      BY <1>3, <3>1, Zenon DEF Coming
    <3>4. Owed(m, x) => Owed(m, x)'
      BY <1>3, <3>1, <3>2, Zenon DEF Owed
    <3>5. QED
      BY <2>3, <2>4, <3>3, <3>4, Zenon DEF Recoverable
  <2>7. QED
    BY <2>5, <2>6, Zenon
<1>13. QED
  BY <1>9, <1>10, <1>11, <1>12, Zenon DEF ResyncInv

------------------------------------------------------------------------------
(* Sending *)

\* A frame to every other member that is up
Sends(s, msg) ==
    chan' = [m \in User |->
               IF m \in up \ {s}
               THEN [chan[m] EXCEPT ![s] = Append(chan[m][s], TextFrame(msg, text_epoch[s], FALSE))]
               ELSE chan[m]]

LEMMA SendsFacts ==
    ASSUME ResyncInv, NEW s \in Writer, NEW S, Sent(last_mid) \subseteq S,
           NEW msg \in S, msg.sender = s, Sends(s, msg)
    PROVE  /\ chan' \in [User -> [User -> Seq(FrameType(S))]]
           /\ Foreign(chan')
           /\ \A m \in User : \A x \in Message :
                 /\ Ahead(chan[m][x.sender], x) => Ahead(chan'[m][x.sender], x)
                 /\ Answered(chan[m][x.sender], x) => Answered(chan'[m][x.sender], x)
           /\ \A m \in up : m # s =>
                 chan'[m][s] = Append(chan[m][s], TextFrame(msg, text_epoch[s], FALSE))
<1> DEFINE f == TextFrame(msg, text_epoch[s], FALSE)
<1>1. s \in User
  BY ChatAssumption, Zenon
<1>2. f \in FrameType(S) /\ f.msg = msg
  BY <1>1, Zenon DEF ResyncInv, ChatTypes, TextFrame, FrameType
<1> HIDE DEF f
<1>3. FrameType(Sent(last_mid)) \subseteq FrameType(S)
  BY Zenon DEF FrameType
<1>4. ASSUME NEW m \in User, NEW p \in User PROVE chan[m][p] \in Seq(FrameType(S))
  <2>1. PICK T, T0, q : T = FrameType(S) /\ T0 = FrameType(Sent(last_mid)) /\ q = chan[m][p]
    BY Zenon
  <2>2. q \in Seq(T0) /\ T0 \subseteq T
    BY <1>3, <2>1, ChannelType, Zenon
  <2>3. q \in Seq(T)
    BY <2>2
  <2>4. QED
    BY <2>1, <2>3, Zenon
<1>5. chan \in [User -> [User -> Seq(FrameType(S))]]
  <2>1. chan \in [User -> [User -> Seq(FrameType(Sent(last_mid)))]]
    BY Zenon DEF ResyncInv, ChatTypes
  <2>2. ASSUME NEW m \in User PROVE chan[m] \in [User -> Seq(FrameType(S))]
    BY <1>4, <2>1, Zenon
  <2>3. QED
    BY <2>1, <2>2, Zenon
<1>6. ASSUME NEW m \in User
      PROVE  Append(chan[m][s], f) \in Seq(FrameType(S))
  BY <1>1, <1>2, <1>4, QueueAppend, Zenon
<1>7. chan' = [m \in User |-> IF m \in up \ {s} THEN [chan[m] EXCEPT ![s] = Append(chan[m][s], f)]
                              ELSE chan[m]]
  BY Zenon DEF Sends, f
<1>8. chan' \in [User -> [User -> Seq(FrameType(S))]]
  <2>1. ASSUME NEW m \in User PROVE [chan[m] EXCEPT ![s] = Append(chan[m][s], f)] \in [User -> Seq(FrameType(S))]
    <3>1. chan[m] \in [User -> Seq(FrameType(S))]
      BY <1>5, Zenon
    <3>2. QED
      BY <1>6, <3>1, Zenon
  <2>2. QED
    BY <1>5, <1>7, <2>1, Zenon
<1>9. ASSUME NEW m \in User, NEW p \in User
      PROVE  \/ chan'[m][p] = chan[m][p] /\ ~ (m \in up /\ m # s /\ p = s)
             \/ chan'[m][p] = Append(chan[m][p], f) /\ m # s
  <2>1. CASE m \in up \ {s}
    <3>1. chan'[m] = [chan[m] EXCEPT ![s] = Append(chan[m][s], f)] /\ chan[m] \in [User -> Seq(FrameType(S))]
      BY <1>5, <1>7, <2>1, Zenon
    <3>2. CASE p = s
      BY <1>1, <2>1, <3>1, <3>2, Zenon
    <3>3. CASE p # s
      BY <1>1, <3>1, <3>3, Zenon
    <3>4. QED
      BY <3>2, <3>3, Zenon
  <2>2. CASE m \notin up \ {s}
    BY <1>7, <2>2, Zenon
  <2>3. QED
    BY <2>1, <2>2, Zenon
<1>10. ASSUME NEW m \in User, NEW p \in User, NEW i \in DOMAIN chan'[m][p]
       PROVE  chan'[m][p][i].msg.sender # m
  <2>1. \A j \in DOMAIN chan[m][p] : chan[m][p][j].msg.sender # m
    BY Zenon DEF ResyncInv, Foreign
  <2>2. CASE chan'[m][p] = chan[m][p]
    BY <1>10, <2>1, <2>2, Zenon
  <2>3. CASE chan'[m][p] = Append(chan[m][p], f) /\ m # s
    <3>1. PICK q, T : q = chan[m][p] /\ T = FrameType(S)
      BY Zenon
    <3>2. q \in Seq(T) /\ f \in T
      BY <1>2, <1>4, <3>1, Zenon
    <3>3. \A j \in DOMAIN Append(q, f) : Append(q, f)[j] = f \/ (j \in DOMAIN q /\ Append(q, f)[j] = q[j])
      BY <3>2
    <3>4. i \in DOMAIN Append(q, f) /\ chan'[m][p] = Append(q, f)
      BY <1>10, <2>3, <3>1, Zenon
    <3>5. QED
      BY <1>2, <2>1, <2>3, <3>1, <3>3, <3>4, Zenon
  <2>4. QED
    BY <1>9, <2>2, <2>3, Zenon
<1>11. ASSUME NEW m \in User, NEW x \in Message
       PROVE  /\ Ahead(chan[m][x.sender], x) => Ahead(chan'[m][x.sender], x)
              /\ Answered(chan[m][x.sender], x) => Answered(chan'[m][x.sender], x)
  <2>1. PICK q : q = chan[m][x.sender]
    BY Zenon
  <2>2. q \in Seq(FrameType(S)) /\ x.sender \in User
    BY <1>4, <2>1, LackFacts, Zenon
  <2>3. /\ Ahead(q, x) => Ahead(Append(q, f), x)
        /\ Answered(q, x) => Answered(Append(q, f), x)
    BY <1>2, <2>2, QueueAppend, Zenon
  <2>4. QED
    BY <1>9, <2>1, <2>2, <2>3, Zenon
<1>12. ASSUME NEW m \in up, m # s PROVE chan'[m][s] = Append(chan[m][s], f)
  <2>1. m \in User
    BY Zenon DEF ResyncInv, ChatTypes
  <2>2. QED
    BY <1>1, <1>9, <1>12, <2>1, Zenon
<1>13. QED
  BY <1>8, <1>10, <1>11, <1>12, Zenon DEF Foreign, f

\* A repetition changes nothing but the ends of channels.
LEMMA ResendKeeps ==
    ASSUME ResyncInv, NEW s \in Writer, NEW mid \in 1 .. MaxMid, Resend(s, mid)
    PROVE  ResyncInv'
<1> DEFINE msg == [sender |-> s, mid |-> mid]
<1>1. msg \in Sent(last_mid) /\ msg.sender = s
  <2>1. mid \in Nat \ {0} /\ mid <= last_mid[s]
    BY DEF Resend
  <2>2. msg \in Message /\ msg.sender = s /\ msg.mid = mid
    BY <2>1, Zenon DEF Message
  <2>3. QED
    BY <2>1, <2>2, Zenon DEF Sent
<1>2. /\ Sends(s, msg)
      /\ UNCHANGED <<history, mark, saved_mark, last_mid, text_epoch, up, asked, missed, ever>>
  BY DEF Resend, Broadcast, Sends
<1> HIDE DEF msg
<1>3. /\ chan' \in [User -> [User -> Seq(FrameType(Sent(last_mid)))]] /\ Foreign(chan')
      /\ \A m \in User : \A x \in Message :
            /\ Ahead(chan[m][x.sender], x) => Ahead(chan'[m][x.sender], x)
            /\ Answered(chan[m][x.sender], x) => Answered(chan'[m][x.sender], x)
  BY <1>1, <1>2, SendsFacts, Zenon
<1>4. ChatTypes'
  BY <1>2, <1>3, Zenon DEF ResyncInv, ChatTypes
<1>5. Honest(mark', last_mid') /\ Honest(saved_mark', last_mid')
  BY <1>2, Zenon DEF ResyncInv
<1>6. ASSUME NEW m \in User, NEW x \in Message, Lacks(m, x)' PROVE Recoverable(m, x)'
  <2>1. Lacks(m, x)
    BY <1>2, <1>6, Zenon DEF Lacks
  <2>2. Recoverable(m, x)
    BY <2>1, LackFacts, Zenon
  <2>3. Coming(m, x) => Coming(m, x)'
    BY <1>2, <1>3, Zenon DEF Coming
  <2>4. Owed(m, x) => Owed(m, x)'
    BY <1>2, <1>3, Zenon DEF Owed
  <2>5. QED
    BY <1>2, <2>2, <2>3, <2>4, Zenon DEF Recoverable
<1>7. QED
  BY <1>3, <1>4, <1>5, <1>6, Zenon DEF ResyncInv

\* A sender's own watermark, when it sends its next message
NextMessage(last, next, s, msg) ==
    /\ last \in [Writer -> Nat] /\ next \in [Writer -> Nat]
    /\ last[s] <= next[s] /\ \A t \in Writer : t # s => next[t] = last[t]
    /\ msg \in Sent(next) /\ msg.sender = s /\ msg.mid = next[s]

LEMMA HonestSend ==
    ASSUME NEW last, NEW next, NEW w \in [User -> WatermarkType], Honest(w, last),
           NEW s \in Writer, NEW msg, NextMessage(last, next, s, msg)
    PROVE  LET v == [w EXCEPT ![s] = Observe(w[s], msg)]
           IN  v \in [User -> WatermarkType] /\ Honest(v, next)
<1> DEFINE v == [w EXCEPT ![s] = Observe(w[s], msg)]
<1>0. /\ last \in [Writer -> Nat] /\ next \in [Writer -> Nat]
      /\ last[s] <= next[s] /\ \A t \in Writer : t # s => next[t] = last[t]
      /\ msg \in Sent(next) /\ msg.sender = s /\ msg.mid = next[s]
  BY Zenon DEF NextMessage
<1>1. s \in User /\ w[s] \in WatermarkType /\ msg \in Message
  BY <1>0, ChatAssumption, SentFacts, Zenon
<1>2. Bounded(w, next)
  <2>1. ASSUME NEW m \in User, NEW t \in Writer, NEW hw \in w[m][t] PROVE hw <= next[t]
    <3>1. hw <= last[t]
      BY <2>1, Zenon DEF Honest
    <3>2. hw \in Nat
      BY <2>1, Zenon DEF WatermarkType
    <3>3. CASE t = s
      <4>1. hw <= last[s] /\ last[s] <= next[s] /\ last[s] \in Nat /\ next[s] \in Nat
        BY <1>0, <3>1, <3>3, Zenon
      <4>2. hw <= next[s]
        BY <3>2, <4>1
      <4>3. QED
        BY <3>3, <4>2, Zenon
    <3>4. CASE t # s
      BY <1>0, <3>1, <3>4, Zenon
    <3>5. QED
      BY <3>3, <3>4, Zenon
  <2>2. QED
    BY <2>1, Zenon DEF Bounded
<1>3. /\ v \in [User -> WatermarkType] /\ Bounded(v, next)
      /\ v[s] = Observe(w[s], msg) /\ \A m \in User : m # s => v[m] = w[m]
  <2>1. Observes(v, w, s, msg, next)
    BY <1>0, <1>1, <1>2, BoundedObserve, Zenon
  <2> HIDE DEF v
  <2>2. QED
    BY <2>1, Zenon DEF Observes
<1> HIDE DEF v
<1>4. ASSUME NEW x \in Sent(next) PROVE ~ After(x, v[x.sender])
  <2>1. x \in Message /\ x.sender \in Writer /\ x.sender \in User /\ x.mid \in Nat
        /\ x.mid <= next[x.sender]
    BY <1>4, SentFacts, Zenon
  <2>2. CASE x.sender # s
    <3>1. x \in Sent(last)
      BY <1>0, <2>1, <2>2, Zenon DEF Sent
    <3>2. QED
      BY <1>3, <2>1, <2>2, <3>1, Zenon DEF Honest
  <2>3. CASE x.sender = s
    <3>1. PICK hw \in v[s][s] : msg.mid <= hw
      BY <1>0, <1>1, <1>3, ObserveFacts, Zenon
    <3>2. hw \in Nat
      <4>1. v[s] \in WatermarkType
        BY <1>1, <1>3, Zenon
      <4>2. QED
        BY <3>1, <4>1, Zenon DEF WatermarkType
    <3>3. ~ (x.mid > hw)
      <4>1. x.mid \in Nat /\ next[s] \in Nat /\ x.mid <= next[s] /\ next[s] <= hw
        BY <1>0, <2>1, <2>3, <3>1, Zenon
      <4>2. QED
        BY <3>2, <4>1
    <3>4. QED
      BY <2>3, <3>1, <3>3, Zenon DEF After
  <2>4. QED
    BY <2>2, <2>3, Zenon
<1>5. Honest(v, next)
  BY <1>3, <1>4, Zenon DEF Honest, Bounded
<1>6. QED
  BY <1>3, <1>5, Zenon DEF v

\* A new message is under way to every member that is up, behind all others of
\* its sender; a member that is down has to ask.
LEMMA SendTextKeeps == ASSUME ResyncInv, NEW s \in Writer, SendText(s) PROVE ResyncInv'
<1>1. PICK msg : msg = [sender |-> s, mid |-> last_mid[s] + 1]
  BY Zenon
<1>2. /\ last_mid' = [last_mid EXCEPT ![s] = @ + 1]
      /\ history' = [history EXCEPT ![s] = Push(history[s], msg, HistoryCap)]
      /\ mark' = [mark EXCEPT ![s] = Observe(mark[s], msg)]
      /\ saved_mark' = [saved_mark EXCEPT ![s] = Observe(saved_mark[s], msg)]
      /\ Sends(s, msg)
      /\ UNCHANGED <<text_epoch, up, asked, missed, ever>>
  BY <1>1 DEF SendText, Broadcast, Sends
<1>3. s \in User
  BY ChatAssumption, Zenon
<1>4. /\ last_mid \in [Writer -> Nat] /\ last_mid' \in [Writer -> Nat]
      /\ last_mid'[s] = last_mid[s] + 1 /\ last_mid[s] <= last_mid'[s] /\ last_mid[s] < last_mid'[s]
      /\ \A t \in Writer : t # s => last_mid'[t] = last_mid[t]
  BY <1>2 DEF ResyncInv, ChatTypes
<1>5. msg \in Message /\ msg.sender = s /\ msg.mid = last_mid'[s] /\ msg.mid \in Nat
  BY <1>1, <1>4 DEF Message
<1>6. msg \in Sent(last_mid')
  BY <1>4, <1>5 DEF Sent
<1>7. Sent(last_mid) \subseteq Sent(last_mid')
  <2>1. ASSUME NEW x \in Sent(last_mid) PROVE x.mid <= last_mid'[x.sender]
    <3>1. x.sender \in Writer /\ x.mid \in Nat /\ x.mid <= last_mid[x.sender]
      BY <2>1, SentFacts, Zenon
    <3>2. CASE x.sender = s
      BY <1>4, <3>1, <3>2
    <3>3. CASE x.sender # s
      BY <1>4, <3>1, <3>3, Zenon
    <3>4. QED
      BY <3>2, <3>3, Zenon
  <2>2. QED
    BY <2>1, Zenon DEF Sent
<1>8. /\ chan' \in [User -> [User -> Seq(FrameType(Sent(last_mid')))]] /\ Foreign(chan')
      /\ \A m \in User : \A x \in Message :
            /\ Ahead(chan[m][x.sender], x) => Ahead(chan'[m][x.sender], x)
            /\ Answered(chan[m][x.sender], x) => Answered(chan'[m][x.sender], x)
      /\ \A m \in up : m # s =>
            chan'[m][s] = Append(chan[m][s], TextFrame(msg, text_epoch[s], FALSE))
  BY <1>2, <1>5, <1>6, <1>7, SendsFacts, Zenon
<1>9. /\ mark \in [User -> WatermarkType] /\ Honest(mark, last_mid)
      /\ saved_mark \in [User -> WatermarkType] /\ Honest(saved_mark, last_mid)
  BY Zenon DEF ResyncInv, ChatTypes
<1>10. ASSUME NEW w \in [User -> WatermarkType], Honest(w, last_mid)
       PROVE  LET v == [w EXCEPT ![s] = Observe(w[s], msg)]
              IN  v \in [User -> WatermarkType] /\ Honest(v, last_mid')
  <2>1. NextMessage(last_mid, last_mid', s, msg)
    BY <1>4, <1>5, <1>6, Zenon DEF NextMessage
  <2>2. QED
    BY <1>10, <2>1, HonestSend, Zenon
<1>11. /\ mark' \in [User -> WatermarkType] /\ Honest(mark', last_mid')
       /\ saved_mark' \in [User -> WatermarkType] /\ Honest(saved_mark', last_mid')
  BY <1>2, <1>9, <1>10, Zenon
<1>12. /\ history' \in [User -> Seq(Sent(last_mid'))]
       /\ \A x \in Message :
             Contains(history'[x.sender], x) => Contains(history[x.sender], x) \/ x = msg
  <2>1. ASSUME NEW m \in User PROVE history[m] \in Seq(Sent(last_mid'))
    <3>1. PICK T, T0, q : T = Sent(last_mid') /\ T0 = Sent(last_mid) /\ q = history[m]
      BY Zenon
    <3>2. history[m] \in Seq(Sent(last_mid))
      BY Zenon DEF ResyncInv, ChatTypes
    <3>3. q \in Seq(T0) /\ T0 \subseteq T
      BY <1>7, <3>1, <3>2, Zenon
    <3>4. q \in Seq(T)
      BY <3>3
    <3>5. QED
      BY <3>1, <3>4, Zenon
  <2>2. history \in [User -> Seq(Sent(last_mid'))]
    <3>1. history \in [User -> Seq(Sent(last_mid))]
      BY Zenon DEF ResyncInv, ChatTypes
    <3>2. QED
      BY <2>1, <3>1, Zenon
  <2>3. PICK h : h = Push(history[s], msg, HistoryCap)
    BY Zenon
  <2>4. h \in Seq(Sent(last_mid')) /\ \A x : Contains(h, x) => Contains(history[s], x) \/ x = msg
    BY <1>3, <1>6, <2>1, <2>3, ChatAssumption, PushKeeps, Zenon
  <2>5. /\ history' \in [User -> Seq(Sent(last_mid'))] /\ history'[s] = h
        /\ \A m \in User : m # s => history'[m] = history[m]
    BY <1>2, <1>3, <2>2, <2>3, <2>4, Zenon
  <2>6. \A x \in Message : x.sender \in User
    BY ChatAssumption, Zenon DEF Message
  <2>7. QED
    BY <2>4, <2>5, <2>6, Zenon
<1>13. ChatTypes'
  BY <1>2, <1>4, <1>8, <1>11, <1>12, Zenon DEF ResyncInv, ChatTypes
<1>14. ASSUME NEW m \in User, NEW x \in Message, Lacks(m, x)', x # msg PROVE Recoverable(m, x)'
  <2>1. Lacks(m, x)
    BY <1>2, <1>12, <1>14, Zenon DEF Lacks
  <2>2. Recoverable(m, x) /\ x.sender # m
    BY <2>1, LackFacts, Zenon DEF Lacks
  <2>3. x.sender = msg.sender /\ m = s => FALSE
    BY <1>5, <2>2, Zenon
  <2>4. ASSUME NEW w \in [User -> WatermarkType], After(x, w[m])
        PROVE  After(x, [w EXCEPT ![s] = Observe(w[s], msg)][m])
    <3>1. CASE m = s
      <4>1. w[s] \in WatermarkType /\ [w EXCEPT ![s] = Observe(w[s], msg)][m] = Observe(w[s], msg)
        BY <1>3, <3>1, Zenon
      <4>2. QED
        BY <1>5, <2>3, <2>4, <3>1, <4>1, ObserveEarlier, Zenon
    <3>2. CASE m # s
      BY <2>4, <3>2, Zenon
    <3>3. QED
      BY <3>1, <3>2, Zenon
  <2>5. After(x, saved_mark'[m])
    BY <1>2, <1>9, <2>2, <2>4, Zenon DEF Recoverable
  <2>6. Coming(m, x) => Coming(m, x)'
    BY <1>2, <1>8, <1>9, <2>4, Zenon DEF Coming
  <2>7. Owed(m, x) => Owed(m, x)'
    BY <1>2, <1>8, Zenon DEF Owed
  <2>8. QED
    BY <2>2, <2>5, <2>6, <2>7, Zenon DEF Recoverable
<1>15. ASSUME NEW m \in User, m # s PROVE Recoverable(m, msg)'
  <2>1. ASSUME NEW w \in [User -> WatermarkType], Honest(w, last_mid) PROVE After(msg, w[m])
    <3>1. ASSUME NEW hw \in w[m][s] PROVE msg.mid > hw
      <4>1. hw <= last_mid[s] /\ hw \in Nat
        BY <2>1, <3>1, Zenon DEF Honest, WatermarkType
      <4>2. QED
        BY <1>4, <1>5, <4>1
    <3>2. QED
      BY <1>5, <3>1, Zenon DEF After
  <2>2. mark'[m] = mark[m] /\ saved_mark'[m] = saved_mark[m]
    BY <1>2, <1>9, <1>15, Zenon
  <2>3. After(msg, saved_mark'[m]) /\ After(msg, mark'[m])
    BY <1>9, <2>1, <2>2, Zenon
  <2>4. CASE m \notin up
    BY <1>2, <2>3, <2>4, Zenon DEF Recoverable, Owed
  <2>5. CASE m \in up
    <3>1. PICK q, f : q = chan[m][s] /\ f = TextFrame(msg, text_epoch[s], FALSE)
      BY Zenon
    <3>2. q \in Seq(FrameType(Sent(last_mid)))
      BY <1>3, <3>1, ChannelType, Zenon
    <3>3. ASSUME NEW i \in DOMAIN q, q[i].msg.sender = s PROVE q[i].msg.mid < msg.mid
      <4>1. q[i] \in FrameType(Sent(last_mid))
        <5>1. PICK T : T = FrameType(Sent(last_mid))
          BY Zenon
        <5>2. q \in Seq(T)
          BY <3>2, <5>1, Zenon
        <5>3. q[i] \in T
          BY <5>2
        <5>4. QED
          BY <5>1, <5>3, Zenon
      <4>2. q[i].msg \in Sent(last_mid)
        BY <4>1, Zenon DEF FrameType
      <4>3. q[i].msg.mid \in Nat /\ q[i].msg.mid <= last_mid[s]
        BY <3>3, <4>2, SentFacts, Zenon
      <4>4. QED
        BY <1>4, <1>5, <4>3
    <3>4. f.msg = msg
      BY <3>1, Zenon DEF TextFrame
    <3>5. PICK T : T = FrameType(Sent(last_mid)) \cup {f}
      BY Zenon
    <3>6. q \in Seq(T) /\ f \in T
      <4>1. PICK T0 : T0 = FrameType(Sent(last_mid))
        BY Zenon
      <4>2. q \in Seq(T0) /\ T0 \subseteq T /\ f \in T
        BY <3>2, <3>5, <4>1, Zenon
      <4>3. q \in Seq(T)
        BY <4>2
      <4>4. QED
        BY <4>2, <4>3, Zenon
    <3>7. Ahead(Append(q, f), msg)
      BY <1>5, <3>3, <3>4, <3>6, QueueAppend, Zenon
    <3>8. chan'[m][s] = Append(q, f)
      BY <1>8, <1>15, <2>5, <3>1, Zenon
    <3>9. Coming(m, msg)'
      BY <1>5, <2>3, <3>7, <3>8, Zenon DEF Coming
    <3>10. QED
      BY <2>3, <3>9, Zenon DEF Recoverable
  <2>6. QED
    BY <2>4, <2>5, Zenon
<1>16. ASSUME NEW m \in User, NEW x \in Message, Lacks(m, x)' PROVE Recoverable(m, x)'
  <2>1. CASE x # msg
    BY <1>14, <1>16, <2>1, Zenon
  <2>2. CASE x = msg
    <3>1. m # s
      BY <1>5, <1>16, <2>2, Zenon DEF Lacks
    <3>2. QED
      BY <1>15, <2>2, <3>1, Zenon
  <2>3. QED
    BY <2>1, <2>2, Zenon
<1>17. QED
  BY <1>8, <1>11, <1>13, <1>16, Zenon DEF ResyncInv

------------------------------------------------------------------------------

LEMMA ResyncStep == ASSUME ResyncInv, [ChatNext]_chatvars PROVE ResyncInv'
<1>1. ASSUME NEW s \in Writer, SendText(s) PROVE ResyncInv'
  BY <1>1, SendTextKeeps, Zenon
<1>2. ASSUME NEW s \in Writer, NEW mid \in 1 .. MaxMid, Resend(s, mid) PROVE ResyncInv'
  BY <1>2, ResendKeeps, Zenon
<1>3. ASSUME NEW m \in User, AdvanceUser(m) PROVE ResyncInv'
  BY <1>3, AdvanceUserKeeps, Zenon
<1>4. ASSUME NEW m \in User, SaveMark(m) PROVE ResyncInv'
  BY <1>4, SaveMarkKeeps, Zenon
<1>5. ASSUME NEW m \in User, Crash(m) PROVE ResyncInv'
  BY <1>5, CrashKeeps, Zenon
<1>6. ASSUME NEW m \in User, Rejoin(m) \/ Ask(m) PROVE ResyncInv'
  BY <1>6, AsksKeeps, Zenon
<1>7. ASSUME NEW m \in User, NEW p \in User, Receive(m, p) PROVE ResyncInv'
  BY <1>7, ReceiveKeeps, Zenon
<1>8. ASSUME NEW m \in User, NEW p \in User, Refuse(m, p) PROVE ResyncInv'
  BY <1>8, RefuseKeeps, Zenon
<1>9. ASSUME NEW m \in User, NEW p \in User, Answer(p, m) PROVE ResyncInv'
  BY <1>9, AnswerKeeps, Zenon
<1>10. CASE UNCHANGED chatvars
  BY <1>10, Zenon DEF chatvars, ResyncInv, ChatTypes, Lacks, Recoverable, Coming, Owed
<1>11. QED
  BY <1>1, <1>2, <1>3, <1>4, <1>5, <1>6, <1>7, <1>8, <1>9, <1>10, Zenon DEF ChatNext

LEMMA ResyncAlways == ChatSpec => []ResyncInv
BY ResyncStart, ResyncStep, PTL DEF ChatSpec

\* A message by its sender and its id
LEMMA MessageOf ==
    ASSUME ResyncInv, NEW s \in Writer, NEW mid \in 1 .. last_mid[s]
    PROVE  LET x == [sender |-> s, mid |-> mid]
           IN  x \in Message /\ x.sender = s /\ x.mid = mid /\ mid \in Nat
<1>1. last_mid[s] \in Nat
  BY Zenon DEF ResyncInv, ChatTypes
<1>2. mid \in Nat \ {0}
  BY <1>1
<1>3. QED
  BY <1>2, Zenon DEF Message

\* A member that is up, awaits no answer and has had no frame refused since it
\* last asked has accepted every message its sender retains, or the message is
\* on its way from its sender: for any number of members, messages, crashes and
\* epochs, and any capacity of the histories (MessageHistory::since with the
\* saved watermark, against live traffic).
THEOREM ResyncLosesNothing == ChatSpec => []NothingLost
<1>1. ResyncInv => NothingLost
  <2> SUFFICES ASSUME ResyncInv, NEW m \in User, NEW s \in Writer \ {m},
                      NEW mid \in 1 .. last_mid[s]
               PROVE  LET msg == [sender |-> s, mid |-> mid]
                      IN  Settled(m) /\ Contains(history[s], msg)
                          => \/ msg \in ever[m]
                             \/ \E i \in DOMAIN chan[m][s] : chan[m][s][i].msg = msg
    BY Zenon DEF NothingLost
  <2>1. SUFFICES ASSUME Settled(m), Contains(history[s], [sender |-> s, mid |-> mid])
                 PROVE  \/ [sender |-> s, mid |-> mid] \in ever[m]
                        \/ \E i \in DOMAIN chan[m][s] : chan[m][s][i].msg = [sender |-> s, mid |-> mid]
    BY Zenon
  <2>2. PICK x : x = [sender |-> s, mid |-> mid]
    BY Zenon
  <2>3. x \in Message /\ x.sender = s
    BY <2>1, <2>2, MessageOf, Zenon
  <2>4. CASE x \notin ever[m]
    <3>1. Lacks(m, x)
      BY <2>1, <2>2, <2>3, <2>4, Zenon DEF Lacks
    <3>2. Coming(m, x)
      BY <2>1, <2>3, <3>1, SettledOwesNothing, Zenon DEF ResyncInv, Recoverable
    <3>3. QED
      BY <2>2, <2>3, <3>2, Zenon DEF Coming, Ahead
  <2>5. QED
    BY <2>2, <2>4, Zenon
<1>2. QED
  BY <1>1, ResyncAlways, PTL

\* The watermark a member saves, and ships when it asks, passes over no message
\* that the member has not accepted and its sender still retains
\* (Watermark::observe keeps only a maximum).
THEOREM WatermarksAreHonest == ChatSpec => []WatermarkIsHonest
<1>1. ResyncInv => WatermarkIsHonest
  <2>1. SUFFICES ASSUME ResyncInv, NEW m \in User, NEW s \in Writer \ {m},
                        NEW mid \in 1 .. last_mid[s],
                        Contains(history[s], [sender |-> s, mid |-> mid]),
                        NEW hw \in saved_mark[m][s], mid <= hw
                 PROVE  [sender |-> s, mid |-> mid] \in ever[m]
    BY Zenon DEF WatermarkIsHonest
  <2>2. PICK x : x = [sender |-> s, mid |-> mid]
    BY Zenon
  <2>3. x \in Message /\ x.sender = s /\ x.mid = mid /\ mid \in Nat
    BY <2>1, <2>2, MessageOf, Zenon
  <2>4. hw \in Nat
    <3>1. saved_mark[m] \in WatermarkType
      BY <2>1, Zenon DEF ResyncInv, ChatTypes
    <3>2. QED
      BY <2>1, <3>1, Zenon DEF WatermarkType
  <2>5. ~ (x.mid > hw)
    <3>1. mid <= hw
      BY <2>1, Zenon
    <3>2. QED
      BY <2>3, <2>4, <3>1
  <2>6. ~ After(x, saved_mark[m])
    BY <2>1, <2>3, <2>5, Zenon DEF After
  <2>7. ~ Lacks(m, x)
    BY <2>1, <2>3, <2>6, Zenon DEF ResyncInv, Recoverable
  <2>8. QED
    BY <2>1, <2>2, <2>3, <2>7, Zenon DEF Lacks
<1>2. QED
  BY <1>1, ResyncAlways, PTL

==============================================================================
