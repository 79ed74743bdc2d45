------------------------------ MODULE Data_proofs ------------------------------
(* Proofs about the data that passes between group and application: files in   *)
(* chunks (Attachment), negotiated capabilities, events of the bindings and    *)
(* the payload codecs.                                                         *)
EXTENDS Attachment, Capabilities, Bindings, Codecs,
        FiniteSetTheorems, SequenceTheorems, WellFoundedInduction, TLAPS

------------------------------------------------------------------------------
(* Recursion over the naturals *)

LEMMA Least ==
    ASSUME NEW T \in SUBSET Nat, T # {}
    PROVE  \E x \in T : \A y \in T : x <= y
<1> DEFINE R == OpToRel(<, Nat)
<1>1. IsWellFoundedOn(R, Nat)
  BY NatLessThanWellFounded, Zenon
<1>2. PICK x \in T : \A y \in T : ~ (<<y, x>> \in R)
  BY <1>1, WFMin, Zenon
<1>3. ASSUME NEW y \in T PROVE ~ (y < x)
  <2>1. y < x => <<y, x>> \in R
    BY Zenon DEF OpToRel
  <2>2. QED
    BY <1>2, <2>1, Zenon
<1>4. QED
  BY <1>3

LEMMA Induct ==
    ASSUME NEW S \in SUBSET Nat, 0 \in S, \A n \in S : n + 1 \in S
    PROVE  S = Nat
<1> SUFFICES ASSUME Nat \ S # {} PROVE FALSE
  BY Zenon
<1>1. PICK x \in Nat \ S : \A y \in Nat \ S : x <= y
  BY Least, Zenon
<1>2. x # 0 /\ x - 1 \in Nat
  BY <1>1
<1>3. QED
  BY <1>1, <1>2

\* f is defined by recursion over 0 .. N, with values in V
Recurs(f, V, a, G, N) ==
    /\ f \in [0 .. N -> V] /\ f[0] = a
    /\ \A n \in 1 .. N : f[n] = G[<<n, f[n - 1]>>]

\* A definition by recursion over 0 .. N has a solution.
LEMMA Recursion ==
    ASSUME NEW V, NEW a \in V, NEW G \in [Nat \X V -> V], NEW N \in Nat
    PROVE  \E f : Recurs(f, V, a, G, N)
<1> DEFINE Solves(f, k) == Recurs(f, V, a, G, k)
           Done == {k \in Nat : \E f : Solves(f, k)}
<1>1. 0 \in Done
  <2> DEFINE f == [n \in 0 .. 0 |-> a]
  <2>1. f \in [0 .. 0 -> V] /\ f[0] = a /\ \A n \in 1 .. 0 : FALSE
    OBVIOUS
  <2>2. Solves(f, 0)
    BY <2>1, Zenon DEF Recurs
  <2>3. QED
    BY <2>2, Zenon
<1>2. ASSUME NEW k \in Done PROVE k + 1 \in Done
  <2>1. k \in Nat /\ k + 1 \in Nat
    OBVIOUS
  <2>2. PICK f : Solves(f, k)
    BY <1>2, Zenon
  <2>3. \A n \in 0 .. k : f[n] \in V
    BY <2>2, Zenon DEF Recurs
  <2>4. k \in 0 .. k
    BY <2>1
  <2> DEFINE last == G[<<k + 1, f[k]>>]
             g == [n \in 0 .. k + 1 |-> IF n = k + 1 THEN last ELSE f[n]]
  <2>5. last \in V
    BY <2>1, <2>3, <2>4, Zenon
  <2> HIDE DEF last
  <2>6. \A n \in 0 .. k + 1 : n = k + 1 \/ n \in 0 .. k
    BY <2>1
  <2>7. g \in [0 .. k + 1 -> V]
    BY <2>3, <2>5, <2>6, Zenon
  <2>8. \A n \in 0 .. k : n \in 0 .. k + 1 /\ n # k + 1
    BY <2>1
  <2>9. \A n \in 0 .. k : g[n] = f[n]
    BY <2>8, Zenon
  <2>10. g[k + 1] = last
    BY <2>1
  <2> HIDE DEF g
  <2>11. ASSUME NEW n \in 1 .. k + 1 PROVE g[n] = G[<<n, g[n - 1]>>]
    <3>1. CASE n = k + 1
      <4>1. n - 1 = k
        BY <2>1, <3>1
      <4>2. QED
        BY <2>4, <2>9, <2>10, <3>1, <4>1, Zenon DEF last
    <3>2. CASE n # k + 1
      <4>1. n \in 1 .. k /\ n \in 0 .. k /\ n - 1 \in 0 .. k
        BY <2>1, <3>2
      <4>2. QED
        BY <2>2, <2>9, <4>1, Zenon DEF Recurs
    <3>3. QED
      BY <3>1, <3>2, Zenon
  <2>12. 0 \in 0 .. k
    BY <2>1
  <2>13. g[0] = a
    BY <2>2, <2>9, <2>12, Zenon DEF Recurs
  <2>14. Solves(g, k + 1)
    BY <2>7, <2>11, <2>13, Zenon DEF Recurs
  <2>15. QED
    BY <2>1, <2>14, Zenon
<1>3. Done \in SUBSET Nat
  BY Zenon
<1> HIDE DEF Done
<1>4. Done = Nat
  BY <1>1, <1>2, <1>3, Induct, Zenon
<1>5. QED
  BY <1>4, Zenon DEF Done

------------------------------------------------------------------------------
(* Arithmetic *)

\* n divided by b is q, with r left over
Divided(n, b, q, r) == n \div b = q /\ q \in Nat /\ r \in 0 .. b - 1 /\ n = q * b + r

\* Euclid's division, which is what \div computes.
LEMMA Division ==
    ASSUME NEW n \in Nat, NEW b \in Nat \ {0}
    PROVE  \E q, r : Divided(n, b, q, r)
<1> DEFINE S == {k \in Nat : \E q, r \in Nat : r < b /\ k = q * b + r}
<1>1. 0 \in S
  <2>1. 0 \in Nat /\ 0 < b /\ 0 = 0 * b + 0
    OBVIOUS
  <2>2. QED
    BY <2>1, Zenon
<1>2. ASSUME NEW k \in S PROVE k + 1 \in S
  <2>1. PICK q \in Nat, r \in Nat : r < b /\ k = q * b + r
    BY Zenon
  <2>2. CASE r + 1 < b
    <3>1. r + 1 \in Nat /\ k + 1 \in Nat /\ k + 1 = q * b + (r + 1)
      BY <2>1
    <3>2. QED
      BY <2>2, <3>1, Zenon
  <2>3. CASE ~ (r + 1 < b)
    <3>1. q * b \in Nat /\ (q + 1) * b = q * b + b
      BY <2>1
    <3>2. r + 1 = b
      BY <2>1, <2>3
    <3>3. q + 1 \in Nat /\ 0 \in Nat /\ k + 1 \in Nat /\ 0 < b /\ k + 1 = (q + 1) * b + 0
      BY <2>1, <3>1, <3>2
    <3>4. QED
      BY <3>3, Zenon
  <2>4. QED
    BY <2>2, <2>3, Zenon
<1>3. S \in SUBSET Nat
  BY Zenon
<1> HIDE DEF S
<1>4. S = Nat
  BY <1>1, <1>2, <1>3, Induct, Zenon
<1>5. PICK q \in Nat, r \in Nat : r < b /\ n = q * b + r
  <2>1. n \in S
    BY <1>4, Zenon
  <2>2. QED
    BY <2>1 DEF S
<1>6. n \div b = q
  BY <1>5
<1>7. r \in 0 .. b - 1
  BY <1>5
<1>8. QED
  BY <1>5, <1>6, <1>7, Zenon DEF Divided

LEMMA TimesMonotone ==
    ASSUME NEW a \in Nat, NEW b \in Nat, NEW k \in Nat, a <= b
    PROVE  a * k \in Nat /\ a * k <= b * k
<1>1. PICK d \in Nat : b = a + d
  <2>1. b - a \in Nat /\ b = a + (b - a)
    OBVIOUS
  <2>2. QED
    BY <2>1, Zenon
<1>2. a * k \in Nat /\ d * k \in Nat /\ (a + d) * k = a * k + d * k
  OBVIOUS
<1>3. QED
  BY <1>1, <1>2

------------------------------------------------------------------------------
(* Attachment: what is cut up is what is put together *)

\* f joins the first parts, the end of a chunk at a time
Joins(f, parts, N) ==
    f[0] = << >> /\ \A n \in 1 .. N : f[n] = f[n - 1] \o parts[n - 1]

\* The recursion of assemble over its chunks.
LEMMA ConcatRecurs ==
    ASSUME NEW B, NEW parts, NEW N \in Nat, \A i \in 0 .. N - 1 : parts[i] \in Seq(B)
    PROVE  \E f : Concat(parts, N) = f[N] /\ Joins(f, parts, N)
<1> DEFINE V == Seq(B)
           G == [p \in Nat \X V |->
                    IF p[1] \in 1 .. N THEN p[2] \o parts[p[1] - 1] ELSE p[2]]
           Eq(f) == f = [n \in 0 .. N |-> IF n = 0 THEN << >> ELSE f[n - 1] \o parts[n - 1]]
<1>1. G \in [Nat \X V -> V]
  <2>1. ASSUME NEW n \in Nat, NEW s \in Seq(B), n \in 1 .. N PROVE s \o parts[n - 1] \in Seq(B)
    <3>1. parts[n - 1] \in Seq(B)
      BY <2>1
    <3>2. QED
      BY <3>1
  <2>2. QED
    BY <2>1, Zenon
<1>2. << >> \in V
  OBVIOUS
<1> HIDE DEF G, V
<1>3. PICK f : Recurs(f, V, << >>, G, N)
  BY <1>1, <1>2, Recursion, Zenon
<1>4. ASSUME NEW n \in 1 .. N PROVE f[n] = f[n - 1] \o parts[n - 1]
  <2>1. n \in Nat /\ n - 1 \in 0 .. N
    OBVIOUS
  <2>2. <<n, f[n - 1]>> \in Nat \X V
    BY <1>3, <2>1, Zenon DEF Recurs
  <2>3. G[<<n, f[n - 1]>>] = f[n - 1] \o parts[n - 1]
    BY <2>2, Zenon DEF G
  <2>4. QED
    BY <1>3, <2>3, Zenon DEF Recurs
<1>5. \A n \in 0 .. N : n = 0 \/ n \in 1 .. N
  OBVIOUS
<1>6. \A n \in 0 .. N : f[n] = IF n = 0 THEN << >> ELSE f[n - 1] \o parts[n - 1]
  BY <1>3, <1>4, <1>5, Zenon DEF Recurs
<1>7. Eq(f)
  BY <1>3, <1>6, Zenon DEF Recurs
<1> DEFINE g == CHOOSE h : Eq(h)
<1>8. Eq(g)
  BY <1>7, Zenon
<1>9. Concat(parts, N) = g[N]
  BY Zenon DEF Concat
<1> HIDE DEF g
<1>10. \A n \in 0 .. N : g[n] = IF n = 0 THEN << >> ELSE g[n - 1] \o parts[n - 1]
  BY <1>8, Zenon
<1>11. 0 \in 0 .. N /\ \A n \in 1 .. N : n \in 0 .. N /\ n # 0
  OBVIOUS
<1>12. g[0] = << >> /\ \A n \in 1 .. N : g[n] = g[n - 1] \o parts[n - 1]
  BY <1>10, <1>11, Zenon
<1>13. QED
  BY <1>9, <1>12, Zenon DEF Joins

\* The number of chunks covers the data, and the last chunk is not empty.
LEMMA ChunkCount ==
    ASSUME NEW L \in Nat, NEW k \in Nat \ {0}
    PROVE  LET q == (L + k - 1) \div k
           IN  q \in Nat /\ L <= q * k /\ \A n \in 0 .. q - 1 : n * k \in Nat /\ n * k < L
<1> DEFINE x == L + k - 1
           q == x \div k
<1>1. x \in Nat
  OBVIOUS
<1> HIDE DEF x
<1>2. PICK r : q \in Nat /\ r \in 0 .. k - 1 /\ x = q * k + r
  <2>1. PICK p, r : Divided(x, k, p, r)
    BY <1>1, Division, Zenon
  <2>2. q = p
    BY <2>1, Zenon DEF Divided
  <2> HIDE DEF q
  <2>3. QED
    BY <2>1, <2>2, Zenon DEF Divided
<1> HIDE DEF q
<1>3. q * k \in Nat
  BY <1>2
<1>4. L <= q * k
  BY <1>2, <1>3 DEF x
<1>5. ASSUME NEW n \in 0 .. q - 1 PROVE n * k \in Nat /\ n * k < L
  <2>1. n \in Nat /\ q - 1 \in Nat /\ n <= q - 1
    BY <1>2
  <2>2. n * k \in Nat /\ n * k <= (q - 1) * k
    BY <2>1, TimesMonotone, Zenon
  <2>3. (q - 1) * k = q * k - k
    BY <1>2
  <2>4. QED
    BY <1>2, <1>3, <2>2, <2>3 DEF x
<1>6. QED
  BY <1>2, <1>4, <1>5, Zenon DEF q, x

\* However the payload was cut, the chunks in their order are the payload.
LEMMA Reassembled ==
    ASSUME NEW B, NEW data \in Seq(B), NEW size0 \in Nat, NEW parts,
           \A i \in DOMAIN Chunks(data, size0) : parts[i] = Chunks(data, size0)[i]
    PROVE  Concat(parts, Cardinality(DOMAIN Chunks(data, size0))) = data
<1> DEFINE L == Len(data)
           k == MaxOf(size0, 1)
           N == (L + k - 1) \div k
<1>1. L \in Nat /\ k \in Nat \ {0}
  BY DEF MaxOf
<1>2. Chunks(data, size0) =
          [i \in 0 .. N - 1 |-> SubSeq(data, i * k + 1, MinOf((i + 1) * k, L))]
  BY Zenon DEF Chunks
<1> HIDE DEF k
<1>3. N \in Nat /\ L <= N * k /\ \A n \in 0 .. N - 1 : n * k \in Nat /\ n * k < L
  BY <1>1, ChunkCount, Zenon
<1> HIDE DEF N, L
<1>4. Cardinality(DOMAIN Chunks(data, size0)) = N
  <2>1. DOMAIN Chunks(data, size0) = 0 .. N - 1
    BY <1>2, Zenon
  <2>2. Cardinality(0 .. N - 1) = N
    BY <1>3, FS_Interval
  <2>3. QED
    BY <2>1, <2>2, Zenon
<1> DEFINE end(n) == MinOf(n * k, L)
<1>5. \A n \in 0 .. N : end(n) \in Nat /\ end(n) <= L /\ n * k \in Nat
  BY <1>1, <1>3 DEF MinOf
<1>6. \A i \in 0 .. N - 1 : parts[i] = SubSeq(data, i * k + 1, end(i + 1))
  BY <1>2, Zenon
<1>7. ASSUME NEW i \in 0 .. N - 1
      PROVE  /\ i \in 0 .. N /\ i + 1 \in 0 .. N
             /\ end(i) = i * k /\ i * k \in Nat /\ i * k <= end(i + 1)
  <2>1. i \in 0 .. N /\ i + 1 \in 0 .. N /\ i \in Nat
    BY <1>3
  <2>2. i * k \in Nat /\ i * k < L
    BY <1>3, Zenon
  <2>3. (i + 1) * k = i * k + k
    BY <1>1, <2>1
  <2>4. QED
    BY <1>1, <2>1, <2>2, <2>3 DEF MinOf
<1>8. ASSUME NEW i \in 0 .. N - 1 PROVE parts[i] \in Seq(B)
  <2>1. i * k \in Nat /\ end(i + 1) \in Nat /\ end(i + 1) <= L
    BY <1>5, <1>7, Zenon
  <2>2. SubSeq(data, i * k + 1, end(i + 1)) \in Seq(B)
    BY <2>1 DEF L
  <2>3. QED
    BY <1>6, <2>2, Zenon
<1>9. PICK f : Concat(parts, N) = f[N] /\ Joins(f, parts, N)
  BY <1>3, <1>8, ConcatRecurs, Zenon
<1> DEFINE S == {n \in Nat : n <= N => f[n] = SubSeq(data, 1, end(n))}
<1>10. 0 \in S
  <2>1. end(0) = 0
    BY <1>1 DEF MinOf
  <2>2. SubSeq(data, 1, 0) = << >>
    OBVIOUS
  <2>3. QED
    BY <1>9, <2>1, <2>2, Zenon DEF Joins
<1>11. ASSUME NEW n \in S PROVE n + 1 \in S
  <2>1. n \in Nat /\ n + 1 \in Nat
    OBVIOUS
  <2>2. SUFFICES ASSUME n + 1 <= N PROVE f[n + 1] = SubSeq(data, 1, end(n + 1))
    BY <2>1, Zenon
  <2>3. n <= N /\ n \in 0 .. N - 1 /\ n + 1 \in 1 .. N /\ (n + 1) - 1 = n
    BY <1>3, <2>1, <2>2
  <2>4. f[n] = SubSeq(data, 1, n * k)
    BY <1>7, <2>3, Zenon
  <2>5. f[n + 1] = f[n] \o parts[n]
    BY <1>9, <2>3, Zenon DEF Joins
  <2>6. n * k \in Nat /\ end(n + 1) \in Nat /\ n * k <= end(n + 1) /\ end(n + 1) <= Len(data)
    BY <1>5, <1>7, <2>3, Zenon DEF L
  <2>7. SubSeq(data, 1, n * k) \o SubSeq(data, n * k + 1, end(n + 1)) = SubSeq(data, 1, end(n + 1))
    <3> DEFINE u == n * k
               v == end(n + 1)
    <3>1. u \in Nat /\ v \in Nat /\ u <= v /\ v <= Len(data)
      BY <2>6, Zenon
    <3> HIDE DEF u, v
    <3>2. 1 \in 1 .. Len(data) + 1 /\ u \in 1 - 1 .. Len(data) /\ v \in u .. Len(data)
      BY <3>1
    <3>3. SubSeq(data, 1, u) \o SubSeq(data, u + 1, v) = SubSeq(data, 1, v)
      BY <3>2, ConcatAdjacentSubSeq, Zenon
    <3>4. QED
      BY <3>3, Zenon DEF u, v
  <2>8. QED
    BY <1>6, <2>3, <2>4, <2>5, <2>7, Zenon
<1>12. S \in SUBSET Nat
  BY Zenon
<1> HIDE DEF S
<1>13. N \in S
  BY <1>3, <1>10, <1>11, <1>12, Induct, Zenon
<1>14. f[N] = SubSeq(data, 1, end(N))
  BY <1>3, <1>13 DEF S
<1>15. end(N) = L
  BY <1>1, <1>3 DEF MinOf
<1>16. SubSeq(data, 1, L) = data
  BY DEF L
<1>17. QED
  BY <1>4, <1>9, <1>14, <1>15, <1>16, Zenon

\* The payload is cut into N chunks, and the manifest says so
CutInto(data, size0, N) ==
    /\ N \in Nat /\ DOMAIN Chunks(data, size0) = 0 .. N - 1
    /\ Manifest(data, size0).chunk_count = N /\ Manifest(data, size0).sha256 = data

LEMMA ChunkDomain ==
    ASSUME NEW B, NEW data \in Seq(B), NEW size0 \in Nat
    PROVE  \E N : CutInto(data, size0, N)
<1> DEFINE k == MaxOf(size0, 1)
           N == (Len(data) + k - 1) \div k
<1>1. Len(data) \in Nat /\ k \in Nat \ {0}
  BY DEF MaxOf
<1>2. DOMAIN Chunks(data, size0) = 0 .. N - 1
  BY Zenon DEF Chunks
<1> HIDE DEF k
<1>3. N \in Nat
  BY <1>1, ChunkCount, Zenon
<1> HIDE DEF N
<1>4. Cardinality(0 .. N - 1) = N
  BY <1>3, FS_Interval
<1>5. /\ Manifest(data, size0).chunk_count = N
      /\ Manifest(data, size0).sha256 = data
  BY <1>2, <1>4, Zenon DEF Manifest
<1>6. QED
  BY <1>2, <1>3, <1>5, Zenon DEF CutInto

\* What push returns: what it held and at most the chunk it was given, in range
Pushed(p, parts, index, d, D) ==
    /\ DOMAIN p \subseteq D
    /\ \A i \in DOMAIN p : (i \in DOMAIN parts /\ p[i] = parts[i]) \/ (i = index /\ p[i] = d)

\* push adds the chunk at a new index in range, and nothing else.
LEMMA PushEffect ==
    ASSUME NEW B, NEW data \in Seq(B), NEW size0 \in Nat, NEW parts, NEW index \in Nat,
           NEW d, NEW p, DOMAIN parts \subseteq DOMAIN Chunks(data, size0),
           p = Push(parts, Manifest(data, size0), index, d)
    PROVE  Pushed(p, parts, index, d, DOMAIN Chunks(data, size0))
<1> DEFINE D == DOMAIN Chunks(data, size0)
           m == Manifest(data, size0)
<1>1. PICK N : CutInto(data, size0, N)
  BY ChunkDomain, Zenon
<1>2. N \in Nat /\ D = 0 .. N - 1 /\ m.chunk_count = N /\ DOMAIN parts \subseteq D
  BY <1>1, Zenon DEF CutInto
<1>3. p = Push(parts, m, index, d)
  BY Zenon
<1> SUFFICES Pushed(p, parts, index, d, D)
  BY Zenon
<1> HIDE DEF m, D
<1>4. CASE index >= m.chunk_count \/ index \in DOMAIN parts
  <2>1. p = parts
    BY <1>3, <1>4, Zenon DEF Push
  <2>2. QED
    BY <1>2, <2>1, Zenon DEF Pushed
<1>5. CASE ~ (index >= m.chunk_count \/ index \in DOMAIN parts)
  <2>1. p = [i \in DOMAIN parts \cup {index} |-> IF i = index THEN d ELSE parts[i]]
    BY <1>3, <1>5, Zenon DEF Push
  <2>2. index \in D
    BY <1>2, <1>5
  <2>3. QED
    BY <1>2, <2>1, <2>2, Zenon DEF Pushed
<1>6. QED
  BY <1>4, <1>5, Zenon

\* What assemble makes of the parts, when c are the chunks of the payload
Assembled(r, parts, data, c) ==
    /\ r.ok => r.data = data
    /\ (\A i \in DOMAIN parts : parts[i] = c[i]) => r.ok

LEMMA IndexSet ==
    ASSUME NEW N \in Nat
    PROVE  IsFiniteSet(0 .. N - 1) /\ Cardinality(0 .. N - 1) = N
<1>1. 0 \in Int /\ N - 1 \in Int
  OBVIOUS
<1>2. /\ IsFiniteSet(0 .. N - 1)
      /\ Cardinality(0 .. N - 1) = IF 0 > N - 1 THEN 0 ELSE N - 1 - 0 + 1
  BY <1>1, FS_Interval
<1>3. (IF 0 > N - 1 THEN 0 ELSE N - 1 - 0 + 1) = N
  OBVIOUS
<1>4. QED
  BY <1>2, <1>3

\* A complete assembler that was fed its own chunks returns the payload, and
\* whatever it was fed it returns nothing else.
LEMMA AssembleEffect ==
    ASSUME NEW B, NEW data \in Seq(B), NEW size0 \in Nat, NEW parts, NEW r,
           DOMAIN parts \subseteq DOMAIN Chunks(data, size0),
           IsComplete(parts, Manifest(data, size0)),
           r = Assemble(parts, Manifest(data, size0))
    PROVE  Assembled(r, parts, data, Chunks(data, size0))
<1> DEFINE D == DOMAIN Chunks(data, size0)
           m == Manifest(data, size0)
           whole == Concat(parts, m.chunk_count)
<1>1. PICK N : CutInto(data, size0, N)
  BY ChunkDomain, Zenon
<1>2. N \in Nat /\ D = 0 .. N - 1 /\ m.chunk_count = N /\ m.sha256 = data
  BY <1>1, Zenon DEF CutInto
<1>3. IsFiniteSet(D) /\ Cardinality(D) = N
  <2> HIDE DEF D
  <2>1. IsFiniteSet(0 .. N - 1) /\ Cardinality(0 .. N - 1) = N
    BY <1>2, IndexSet, Zenon
  <2>2. QED
    BY <1>2, <2>1, Zenon
<1>4. r = IF whole = m.sha256 THEN [ok |-> TRUE, data |-> whole]
          ELSE [ok |-> FALSE, data |-> << >>]
  BY Zenon DEF Assemble
<1>5. DOMAIN parts = D
  <2>1. Cardinality(DOMAIN parts) = m.chunk_count /\ DOMAIN parts \in SUBSET D
    BY Zenon DEF IsComplete
  <2> HIDE DEF D, m
  <2>2. Cardinality(D) = Cardinality(DOMAIN parts) => D = DOMAIN parts
    BY <1>3, <2>1, FS_Subset, Zenon
  <2>3. QED
    BY <1>2, <1>3, <2>1, <2>2, Zenon
<1>6. whole = Concat(parts, Cardinality(D))
  BY <1>2, <1>3, Zenon
<1>7. (\A i \in D : parts[i] = Chunks(data, size0)[i]) => whole = data
  BY <1>6, Reassembled, Zenon
<1> HIDE DEF whole, m
<1>8. r.ok <=> whole = data
  <2>1. CASE whole = data
    BY <1>2, <1>4, <2>1
  <2>2. CASE whole # data
    BY <1>2, <1>4, <2>2
  <2>3. QED
    BY <2>1, <2>2, Zenon
<1>9. whole = data => r.data = data
  BY <1>2, <1>4
<1>10. QED
  BY <1>5, <1>7, <1>8, <1>9, Zenon DEF Assembled

------------------------------------------------------------------------------
\* What an assembler holds are chunks in range, and its own as long as nothing
\* was fed to the wrong one.
FileInv ==
    /\ payload \in [Attachment -> Seq(Byte)] /\ size \in [Attachment -> Nat]
    /\ misfed \in Nat
    /\ DOMAIN received = Attachment /\ DOMAIN result = Attachment
    /\ \A a \in Attachment :
        /\ DOMAIN received[a] \subseteq DOMAIN ChunksOf(a)
        /\ misfed = 0 => \A i \in DOMAIN received[a] : received[a][i] = ChunksOf(a)[i]
    /\ AssembledIsSent

LEMMA FilesStart == FilesInit => FileInv
<1> SUFFICES ASSUME FilesInit PROVE FileInv
  OBVIOUS
<1>1. Data \subseteq Seq(Byte)
  <2>1. ASSUME NEW n \in 0 .. MaxLen, NEW s \in [1 .. n -> Byte] PROVE s \in Seq(Byte)
    <3>1. n \in Nat
      BY FilesAssumption
    <3>2. QED
      BY <3>1
  <2>2. QED
    BY <2>1, Zenon DEF Data
<1>2. payload \in [Attachment -> Seq(Byte)] /\ size \in [Attachment -> Nat]
  BY <1>1, FilesAssumption, Zenon DEF FilesInit
<1>3. misfed \in Nat
  BY DEF FilesInit
<1>4. /\ received = [a \in Attachment |-> << >>] /\ result = [a \in Attachment |-> {}]
  BY Zenon DEF FilesInit
<1>5. DOMAIN << >> = {}
  OBVIOUS
<1>6. QED
  BY <1>2, <1>3, <1>4, <1>5, Zenon DEF FileInv, AssembledIsSent

\* A chunk of b fed to the assembler of a, as one of its own or by mistake.
LEMMA FeedKeeps ==
    ASSUME FileInv, NEW a \in Attachment, NEW b \in Attachment, NEW i \in DOMAIN ChunksOf(b),
           FeedFrom(a, b, i), misfed' \in Nat, misfed' = 0 => misfed = 0 /\ b = a
    PROVE  FileInv'
<1> DEFINE old == received[a]
           new == Push(old, ManifestOf(a), i, ChunksOf(b)[i])
<1>1. /\ payload[a] \in Seq(Byte) /\ size[a] \in Nat /\ payload[b] \in Seq(Byte) /\ size[b] \in Nat
      /\ DOMAIN old \subseteq DOMAIN ChunksOf(a)
  BY Zenon DEF FileInv
<1>2. i \in Nat
  <2>1. PICK N : CutInto(payload[b], size[b], N)
    BY <1>1, ChunkDomain, Zenon
  <2>2. N \in Nat /\ i \in 0 .. N - 1
    BY <2>1, Zenon DEF CutInto, ChunksOf
  <2>3. QED
    BY <2>2
<1>3. /\ DOMAIN new \subseteq DOMAIN ChunksOf(a)
      /\ \A j \in DOMAIN new : \/ j \in DOMAIN old /\ new[j] = old[j]
                               \/ j = i /\ new[j] = ChunksOf(b)[i]
  <2>1. Pushed(new, old, i, ChunksOf(b)[i], DOMAIN ChunksOf(a))
    BY <1>1, <1>2, PushEffect, Zenon DEF ChunksOf, ManifestOf
  <2> HIDE DEF new, old
  <2>2. QED
    BY <2>1, Zenon DEF Pushed
<1>4. /\ received' = [received EXCEPT ![a] = new]
      /\ payload' = payload /\ size' = size /\ result' = result
  BY Zenon DEF FeedFrom
<1> HIDE DEF new
<1>5. \A c \in Attachment : ChunksOf(c)' = ChunksOf(c)
  BY <1>4, Zenon DEF ChunksOf
<1>6. ASSUME NEW c \in Attachment
      PROVE  /\ DOMAIN received'[c] \subseteq DOMAIN ChunksOf(c)
             /\ misfed' = 0 => \A j \in DOMAIN received'[c] : received'[c][j] = ChunksOf(c)[j]
  <2>1. CASE c = a
    <3>1. received'[c] = new
      BY <1>4, <2>1, Zenon DEF FileInv
    <3>2. ASSUME misfed' = 0, NEW j \in DOMAIN new PROVE new[j] = ChunksOf(c)[j]
      BY <1>3, <2>1, <3>2, Zenon DEF FileInv
    <3>3. QED
      BY <1>3, <2>1, <3>1, <3>2, Zenon
  <2>2. CASE c # a
    BY <1>4, <2>2, Zenon DEF FileInv
  <2>3. QED
    BY <2>1, <2>2, Zenon
<1>7. AssembledIsSent'
  BY <1>4, Zenon DEF FileInv, AssembledIsSent
<1>8. /\ payload' \in [Attachment -> Seq(Byte)] /\ size' \in [Attachment -> Nat]
      /\ DOMAIN received' = Attachment /\ DOMAIN result' = Attachment
  BY <1>4, Zenon DEF FileInv
<1>9. \A c \in Attachment :
          /\ DOMAIN received'[c] \subseteq DOMAIN ChunksOf(c)'
          /\ misfed' = 0 => \A j \in DOMAIN received'[c] : received'[c][j] = ChunksOf(c)'[j]
  BY <1>5, <1>6, Zenon
<1>10. QED
  BY <1>7, <1>8, <1>9, Zenon DEF FileInv

LEMMA FinishKeeps ==
    ASSUME FileInv, NEW a \in Attachment, Finish(a)
    PROVE  FileInv'
<1> DEFINE parts == received[a]
           r == Assemble(parts, ManifestOf(a))
<1>1. /\ payload[a] \in Seq(Byte) /\ size[a] \in Nat
      /\ DOMAIN parts \subseteq DOMAIN ChunksOf(a)
      /\ misfed = 0 => \A i \in DOMAIN parts : parts[i] = ChunksOf(a)[i]
  BY Zenon DEF FileInv
<1>2. IsComplete(parts, ManifestOf(a))
  BY Zenon DEF Finish
<1>3. /\ r.ok => r.data = payload[a]
      /\ (\A i \in DOMAIN parts : parts[i] = ChunksOf(a)[i]) => r.ok
  <2>1. Assembled(r, parts, payload[a], ChunksOf(a))
    BY <1>1, <1>2, AssembleEffect, Zenon DEF ChunksOf, ManifestOf
  <2> HIDE DEF r, parts
  <2>2. QED
    BY <2>1, Zenon DEF Assembled
<1>4. result' = [result EXCEPT ![a] = {r}] /\ UNCHANGED <<payload, size, received, misfed>>
  BY Zenon DEF Finish
<1> HIDE DEF r
<1>5. ASSUME NEW c \in Attachment, NEW x \in result'[c]
      PROVE  (x.ok => x.data = payload[c]) /\ (misfed = 0 => x.ok)
  <2>1. CASE c = a
    <3>1. x = r
      BY <1>4, <1>5, <2>1, Zenon DEF FileInv
    <3>2. QED
      BY <1>1, <1>3, <2>1, <3>1, Zenon
  <2>2. CASE c # a
    BY <1>4, <1>5, <2>2, Zenon DEF FileInv, AssembledIsSent
  <2>3. QED
    BY <2>1, <2>2, Zenon
<1>6. AssembledIsSent'
  BY <1>4, <1>5, Zenon DEF AssembledIsSent
<1>7. QED
  BY <1>4, <1>6, Zenon DEF FileInv, ChunksOf

\* For every payload, chunk size and number of attachments, in whatever order and
\* number the chunks arrive, a complete assembler returns the payload that was cut
\* up, and one that was fed a foreign chunk returns it or an error
\* (AttachmentSender::new, push, assemble).
THEOREM AttachmentsComeBack == FilesSpec => []AssembledIsSent
<1>1. ASSUME FileInv, [FilesNext]_filevars PROVE FileInv'
  <2>1. CASE UNCHANGED filevars
    BY <1>1, <2>1, Zenon DEF filevars, FileInv, ChunksOf, AssembledIsSent
  <2>2. ASSUME NEW a \in Attachment, Finish(a) PROVE FileInv'
    BY <1>1, <2>2, FinishKeeps, Zenon
  <2>3. ASSUME NEW a \in Attachment, NEW i \in DOMAIN ChunksOf(a), Feed(a, i) PROVE FileInv'
    <3>1. FeedFrom(a, a, i) /\ misfed' \in Nat /\ (misfed' = 0 => misfed = 0)
      BY <1>1, <2>3, Zenon DEF Feed, FileInv
    <3>2. QED
      BY <1>1, <3>1, FeedKeeps, Zenon
  <2>4. ASSUME NEW a \in Attachment, NEW b \in Attachment, NEW i \in DOMAIN ChunksOf(b),
               Misfeed(a, b, i)
        PROVE  FileInv'
    <3>1. misfed' \in Nat /\ misfed' # 0
      BY <1>1, <2>4 DEF Misfeed, FileInv
    <3>2. FeedFrom(a, b, i)
      BY <2>4, Zenon DEF Misfeed
    <3>3. QED
      BY <1>1, <3>1, <3>2, FeedKeeps, Zenon
  <2>5. QED
    BY <1>1, <2>1, <2>2, <2>3, <2>4, Zenon DEF FilesNext
<1>2. FileInv => AssembledIsSent
  BY Zenon DEF FileInv
<1>3. QED
  BY <1>1, <1>2, FilesStart, PTL DEF FilesSpec

------------------------------------------------------------------------------
(* Capabilities *)

LEMMA ClassTokensAre ==
    /\ ClassTokens(1) = {"A"} /\ ClassTokens(2) = {"A", "B"} /\ ClassTokens(3) = {"A", "B", "C"}
<1>1. Class[1] = "A" /\ Class[2] = "B" /\ Class[3] = "C"
  BY DEF Class
<1>2. 1 .. 1 = {1} /\ 1 .. 2 = {1, 2} /\ 1 .. 3 = {1, 2, 3}
  OBVIOUS
<1>3. QED
  BY <1>1, <1>2, Zenon DEF ClassTokens

\* from_tokens finds the highest class whose tokens are all there.
LEMMA FromTokensIsHighest ==
    ASSUME NEW T, NEW k \in 1 .. 3
    PROVE  FromTokens(T) \in 0 .. 3 /\ (FromTokens(T) >= k <=> ClassTokens(k) \subseteq T)
<1>1. CASE k = 1
  BY <1>1, ClassTokensAre DEF FromTokens
<1>2. CASE k = 2
  BY <1>2, ClassTokensAre DEF FromTokens
<1>3. CASE k = 3
  BY <1>3, ClassTokensAre DEF FromTokens
<1>4. QED
  BY <1>1, <1>2, <1>3

\* A walk over the map visits every member that advertised, and no others
Walks(order) ==
    /\ order \in Seq(DOMAIN advertised) /\ DOMAIN order = 1 .. Len(order) /\ Len(order) \in Nat
    /\ \A i \in 1 .. Len(order) : order[i] \in DOMAIN advertised
    /\ \A m \in DOMAIN advertised : \E i \in 1 .. Len(order) : order[i] = m

LEMMA OrdersWalk ==
    ASSUME IsFiniteSet(DOMAIN advertised), NEW order \in Orders
    PROVE  Walks(order)
<1> DEFINE D == DOMAIN advertised
           n == Cardinality(D)
<1>1. n \in Nat
  BY FS_CardinalityType, Zenon
<1>2. /\ order \in [1 .. n -> D]
      /\ \A i, j \in DOMAIN order : order[i] = order[j] => i = j
  BY Zenon DEF Orders
<1>3. IsFiniteSet(D)
  BY Zenon
<1> HIDE DEF n
<1>4. Cardinality(1 .. n) = n
  BY <1>1, FS_Interval
<1>5. order \in Injection(1 .. n, D)
  BY <1>2, Zenon DEF Injection, IsInjective
<1>6. order \in Surjection(1 .. n, D)
  BY <1>3, <1>4, <1>5, FS_Injection, Zenon DEF n
<1>7. \A m \in D : \E i \in 1 .. n : order[i] = m
  BY <1>6, Zenon DEF Surjection
<1> HIDE DEF D
<1>8. order \in Seq(D) /\ Len(order) = n
  BY <1>1, <1>2
<1>9. DOMAIN order = 1 .. n /\ \A i \in 1 .. n : order[i] \in D
  BY <1>2, Zenon
<1>10. QED
  BY <1>1, <1>7, <1>8, <1>9, Zenon DEF Walks, D

\* f is what group_class has computed after each member
Lowers(f, order) ==
    /\ f[0] = 9
    /\ \A n \in 1 .. Len(order) :
        f[n] = LET mc == FromTokens(advertised[order[n]])
               IN  IF f[n - 1] = 0 \/ mc = 0 THEN 0
                   ELSE IF mc < f[n - 1] THEN mc ELSE f[n - 1]

LEMMA GroupClassLowers ==
    ASSUME NEW order, Len(order) \in Nat
    PROVE  \E f : Lowers(f, order)
                  /\ GroupClass(order) = IF order = << >> THEN 0 ELSE f[Len(order)]
<1> DEFINE N == Len(order)
           V == 0 .. 9
           Mc(n) == FromTokens(advertised[order[n]])
           Low(c, mc) == IF c = 0 \/ mc = 0 THEN 0 ELSE IF mc < c THEN mc ELSE c
           G == [p \in Nat \X V |-> Low(p[2], Mc(p[1]))]
           Eq(f) == f = [n \in 0 .. N |-> IF n = 0 THEN 9 ELSE Low(f[n - 1], Mc(n))]
<1>1. \A n : Mc(n) \in 0 .. 3
  <2>1. 1 \in 1 .. 3
    OBVIOUS
  <2>2. QED
    BY <2>1, FromTokensIsHighest, Zenon
<1> HIDE DEF Mc
<1>2. G \in [Nat \X V -> V]
  <2>1. \A c \in V, mc \in 0 .. 3 : Low(c, mc) \in V
    OBVIOUS
  <2> HIDE DEF Low, V
  <2>2. QED
    BY <1>1, <2>1, Zenon
<1>3. 9 \in V
  OBVIOUS
<1> HIDE DEF G, V, Low
<1>4. PICK f : Recurs(f, V, 9, G, N)
  BY <1>2, <1>3, Recursion, Zenon
<1>5. ASSUME NEW n \in 1 .. N PROVE f[n] = Low(f[n - 1], Mc(n))
  <2>1. n \in Nat /\ n - 1 \in 0 .. N
    OBVIOUS
  <2>2. <<n, f[n - 1]>> \in Nat \X V
    BY <1>4, <2>1, Zenon DEF Recurs
  <2>3. G[<<n, f[n - 1]>>] = Low(f[n - 1], Mc(n))
    BY <2>2, Zenon DEF G
  <2>4. QED
    BY <1>4, <2>3, Zenon DEF Recurs
<1>6. \A n \in 0 .. N : n = 0 \/ n \in 1 .. N
  OBVIOUS
<1>7. \A n \in 0 .. N : f[n] = IF n = 0 THEN 9 ELSE Low(f[n - 1], Mc(n))
  BY <1>4, <1>5, <1>6, Zenon DEF Recurs
<1>8. Eq(f)
  BY <1>4, <1>7, Zenon DEF Recurs
<1> DEFINE g == CHOOSE h : Eq(h)
<1>9. Eq(g)
  BY <1>8, Zenon
<1>10. GroupClass(order) = IF order = << >> THEN 0 ELSE g[N]
  BY Zenon DEF GroupClass, Low, Mc
<1> HIDE DEF g
<1>11. \A n \in 0 .. N : g[n] = IF n = 0 THEN 9 ELSE Low(g[n - 1], Mc(n))
  BY <1>9, Zenon
<1>12. 0 \in 0 .. N /\ \A n \in 1 .. N : n \in 0 .. N /\ n # 0
  OBVIOUS
<1>13. g[0] = 9 /\ \A n \in 1 .. N : g[n] = Low(g[n - 1], Mc(n))
  BY <1>11, <1>12, Zenon
<1>14. Lowers(g, order)
  BY <1>13, Zenon DEF Lowers, Low, Mc
<1>15. QED
  BY <1>10, <1>14, Zenon

\* group_class is at least k when the tokens of k are advertised by everyone.
LEMMA GroupClassIs ==
    ASSUME IsFiniteSet(DOMAIN advertised), NEW order \in Orders, NEW k \in 1 .. 3
    PROVE  GroupClass(order) >= k <=> \A t \in ClassTokens(k) : GroupSupports(t)
<1> DEFINE N == Len(order)
           Has(n) == ClassTokens(k) \subseteq advertised[order[n]]
<1>1. Walks(order)
  BY OrdersWalk, Zenon
<1>2. N \in Nat /\ order \in Seq(DOMAIN advertised)
  BY <1>1, Zenon DEF Walks
<1>3. PICK f : Lowers(f, order)
               /\ GroupClass(order) = IF order = << >> THEN 0 ELSE f[N]
  BY <1>2, GroupClassLowers, Zenon
<1> DEFINE S == {n \in Nat : n <= N => f[n] \in 0 .. 9 /\ (f[n] >= k <=> \A j \in 1 .. n : Has(j))}
<1>4. 0 \in S
  <2>1. f[0] = 9
    BY <1>3, Zenon DEF Lowers
  <2>2. \A j \in 1 .. 0 : FALSE
    OBVIOUS
  <2>3. QED
    BY <2>1, <2>2
<1>5. ASSUME NEW n \in S PROVE n + 1 \in S
  <2> DEFINE mc == FromTokens(advertised[order[n + 1]])
  <2>1. n \in Nat /\ n + 1 \in Nat
    OBVIOUS
  <2>2. SUFFICES ASSUME n + 1 <= N
                 PROVE  f[n + 1] \in 0 .. 9 /\ (f[n + 1] >= k <=> \A j \in 1 .. n + 1 : Has(j))
    BY <2>1, Zenon
  <2>3. n <= N /\ n + 1 \in 1 .. N /\ (n + 1) - 1 = n
    BY <1>2, <2>1, <2>2
  <2>4. f[n] \in 0 .. 9 /\ (f[n] >= k <=> \A j \in 1 .. n : Has(j))
    BY <2>3, Zenon
  <2>5. mc \in 0 .. 3 /\ (mc >= k <=> Has(n + 1))
    BY FromTokensIsHighest, Zenon
  <2>6. f[n + 1] = IF f[n] = 0 \/ mc = 0 THEN 0 ELSE IF mc < f[n] THEN mc ELSE f[n]
    BY <1>3, <2>3, Zenon DEF Lowers
  <2> HIDE DEF mc, Has
  <2>7. f[n + 1] \in 0 .. 9 /\ (f[n + 1] >= k <=> f[n] >= k /\ mc >= k)
    BY <2>4, <2>5, <2>6
  <2>8. \A j : j \in 1 .. n + 1 <=> j \in 1 .. n \/ j = n + 1
    BY <2>1
  <2>9. QED
    BY <2>4, <2>5, <2>7, <2>8, Zenon
<1>6. S \in SUBSET Nat
  BY Zenon
<1> HIDE DEF S
<1>7. N \in S
  BY <1>2, <1>4, <1>5, <1>6, Induct, Zenon
<1>8. N <= N
  BY <1>2
<1>9. f[N] \in 0 .. 9 /\ (f[N] >= k <=> \A j \in 1 .. N : Has(j))
  BY <1>7, <1>8, Zenon DEF S
<1>10. \E t : t \in ClassTokens(k)
  <2>1. 1 \in 1 .. k
    OBVIOUS
  <2>2. QED
    BY <2>1, Zenon DEF ClassTokens
<1>11. CASE order = << >>
  <2>1. N = 0
    BY <1>11
  <2>2. \A i \in 1 .. N : FALSE
    BY <2>1
  <2>3. DOMAIN advertised = {}
    BY <1>1, <2>2, Zenon DEF Walks
  <2>4. ~ (0 >= k)
    OBVIOUS
  <2>5. QED
    BY <1>3, <1>10, <1>11, <2>3, <2>4, Zenon DEF GroupSupports
<1>12. CASE order # << >>
  <2>1. 1 \in 1 .. N
    BY <1>2, <1>12
  <2>2. DOMAIN advertised # {}
    BY <1>1, <2>1, Zenon DEF Walks
  <2>3. (\A j \in 1 .. N : Has(j)) <=> \A m \in DOMAIN advertised : ClassTokens(k) \subseteq advertised[m]
    BY <1>1, Zenon DEF Walks
  <2>4. (\A m \in DOMAIN advertised : ClassTokens(k) \subseteq advertised[m])
        <=> \A t \in ClassTokens(k) : GroupSupports(t)
    BY <1>10, <2>2, Zenon DEF GroupSupports
  <2>5. QED
    BY <1>3, <1>9, <1>12, <2>3, <2>4, Zenon
<1>13. QED
  BY <1>11, <1>12, Zenon

\* f is what intersection has computed after each member
Narrows(f, order) ==
    /\ f[0] = {}
    /\ \A n \in 1 .. Len(order) :
        f[n] = IF n = 1 THEN advertised[order[1]] ELSE f[n - 1] \cap advertised[order[n]]

LEMMA IntersectionNarrows ==
    ASSUME NEW order, Len(order) \in Nat
    PROVE  \E f : Narrows(f, order) /\ Intersection(order) = f[Len(order)]
<1> DEFINE N == Len(order)
           V == SUBSET advertised[order[1]]
           Next1(n, s) == IF n = 1 THEN advertised[order[1]] ELSE s \cap advertised[order[n]]
           G == [p \in Nat \X V |-> Next1(p[1], p[2])]
           Eq(f) == f = [n \in 0 .. N |-> IF n = 0 THEN {}
                                          ELSE IF n = 1 THEN advertised[order[1]]
                                          ELSE f[n - 1] \cap advertised[order[n]]]
<1>1. G \in [Nat \X V -> V] /\ {} \in V
  BY Zenon
<1> HIDE DEF G, V, Next1
<1>2. PICK f : Recurs(f, V, {}, G, N)
  BY <1>1, Recursion, Zenon
<1>3. ASSUME NEW n \in 1 .. N PROVE f[n] = Next1(n, f[n - 1])
  <2>1. n \in Nat /\ n - 1 \in 0 .. N
    OBVIOUS
  <2>2. <<n, f[n - 1]>> \in Nat \X V
    BY <1>2, <2>1, Zenon DEF Recurs
  <2>3. G[<<n, f[n - 1]>>] = Next1(n, f[n - 1])
    BY <2>2, Zenon DEF G
  <2>4. QED
    BY <1>2, <2>3, Zenon DEF Recurs
<1>4. \A n \in 0 .. N : n = 0 \/ n \in 1 .. N
  OBVIOUS
<1>5. \A n \in 0 .. N : f[n] = IF n = 0 THEN {}
                               ELSE IF n = 1 THEN advertised[order[1]]
                               ELSE f[n - 1] \cap advertised[order[n]]
  BY <1>2, <1>3, <1>4, Zenon DEF Recurs, Next1
<1>6. Eq(f)
  BY <1>2, <1>5, Zenon DEF Recurs
<1> DEFINE g == CHOOSE h : Eq(h)
<1>7. Eq(g)
  BY <1>6, Zenon
<1>8. Intersection(order) = g[N]
  BY Zenon DEF Intersection
<1> HIDE DEF g
<1>9. \A n \in 0 .. N : g[n] = IF n = 0 THEN {}
                               ELSE IF n = 1 THEN advertised[order[1]]
                               ELSE g[n - 1] \cap advertised[order[n]]
  BY <1>7, Zenon
<1>10. 0 \in 0 .. N /\ \A n \in 1 .. N : n \in 0 .. N /\ n # 0
  OBVIOUS
<1>11. Narrows(g, order)
  BY <1>9, <1>10, Zenon DEF Narrows
<1>12. QED
  BY <1>8, <1>11, Zenon

\* The intersection holds what every member advertised, if there is one.
LEMMA IntersectionIs ==
    ASSUME IsFiniteSet(DOMAIN advertised), NEW order \in Orders, NEW t
    PROVE  t \in Intersection(order) <=> GroupSupports(t)
<1> DEFINE N == Len(order)
           Has(n) == t \in advertised[order[n]]
<1>1. Walks(order)
  BY OrdersWalk, Zenon
<1>2. N \in Nat
  BY <1>1, Zenon DEF Walks
<1>3. PICK f : Narrows(f, order) /\ Intersection(order) = f[N]
  BY <1>2, IntersectionNarrows, Zenon
<1> DEFINE S == {n \in Nat : n <= N => (t \in f[n] <=> n # 0 /\ \A j \in 1 .. n : Has(j))}
<1>4. 0 \in S
  BY <1>3 DEF Narrows
<1>5. ASSUME NEW n \in S PROVE n + 1 \in S
  <2>1. n \in Nat /\ n + 1 \in Nat
    OBVIOUS
  <2>2. SUFFICES ASSUME n + 1 <= N
                 PROVE  t \in f[n + 1] <=> n + 1 # 0 /\ \A j \in 1 .. n + 1 : Has(j)
    BY <2>1, Zenon
  <2>3. n <= N /\ n + 1 \in 1 .. N /\ (n + 1) - 1 = n /\ n + 1 # 0
    BY <1>2, <2>1, <2>2
  <2>4. t \in f[n] <=> n # 0 /\ \A j \in 1 .. n : Has(j)
    BY <2>3, Zenon
  <2>5. f[n + 1] = IF n + 1 = 1 THEN advertised[order[1]] ELSE f[n] \cap advertised[order[n + 1]]
    BY <1>3, <2>3, Zenon DEF Narrows
  <2>6. \A j : j \in 1 .. n + 1 <=> j \in 1 .. n \/ j = n + 1
    BY <2>1
  <2>7. CASE n = 0
    <3>1. n + 1 = 1 /\ \A j : j \notin 1 .. n
      BY <2>7
    <3>2. t \in f[n + 1] <=> Has(n + 1)
      BY <2>5, <3>1, Zenon
    <3>3. \A j : j \in 1 .. n + 1 <=> j = n + 1
      BY <2>6, <3>1, Zenon
    <3>4. n + 1 # 0
      BY <2>3, Zenon
    <3> HIDE DEF Has, S
    <3>5. QED
      BY <3>2, <3>3, <3>4
  <2>8. CASE n # 0
    <3>1. n + 1 # 1
      BY <2>1, <2>8
    <3>2. QED
      BY <2>3, <2>4, <2>5, <2>6, <2>8, <3>1, Zenon
  <2>9. QED
    BY <2>7, <2>8, Zenon
<1>6. S \in SUBSET Nat
  BY Zenon
<1> HIDE DEF S
<1>7. N \in S
  BY <1>2, <1>4, <1>5, <1>6, Induct, Zenon
<1>8. N <= N
  BY <1>2
<1>9. t \in f[N] <=> N # 0 /\ \A j \in 1 .. N : Has(j)
  BY <1>7, <1>8, Zenon DEF S
<1>10. CASE N = 0
  <2>1. \A i \in 1 .. N : FALSE
    BY <1>10
  <2>2. DOMAIN advertised = {}
    BY <1>1, <2>1, Zenon DEF Walks
  <2>3. QED
    BY <1>3, <1>9, <1>10, <2>2, Zenon DEF GroupSupports
<1>11. CASE N # 0
  <2>1. 1 \in 1 .. N
    BY <1>2, <1>11
  <2>2. QED
    BY <1>1, <1>3, <1>9, <1>11, <2>1, Zenon DEF Walks, GroupSupports
<1>12. QED
  BY <1>10, <1>11, Zenon

\* Whatever finite map of advertisements the negotiator holds, its answers are right.
LEMMA NegotiatorIsRight ==
    ASSUME IsFiniteSet(DOMAIN advertised)
    PROVE  ClassIsSupported
<1>1. ClassIsHighest
  BY GroupClassIs, Zenon DEF ClassIsHighest
<1>2. QueriesAgree
  <2>1. ASSUME NEW t PROVE GroupSupports(t) <=> t \in Union /\ Missing(t) = {}
    BY Zenon DEF GroupSupports, Union, Missing
  <2>2. QED
    BY <2>1, IntersectionIs, Zenon DEF QueriesAgree
<1>3. QED
  BY <1>1, <1>2, Zenon DEF ClassIsSupported

\* For any members and capability tokens, whatever they advertise, declare and
\* withdraw, and in whatever order the HashMap yields the members: group_class is
\* the highest class whose tokens everyone advertises, and group_supports,
\* intersection, union and missing agree (CapabilitiesNegotiator).
THEOREM NegotiatedIsCommon == NegotiateSpec => []ClassIsSupported
<1> DEFINE Inv == IsFiniteSet(DOMAIN advertised)
<1>1. NegotiateInit => Inv
  <2>1. DOMAIN << >> = {}
    OBVIOUS
  <2>2. QED
    BY <2>1, FS_EmptySet, Zenon DEF NegotiateInit
<1>2. ASSUME Inv, [NegotiateNext]_advertised PROVE Inv'
  <2>1. ASSUME NEW m, NEW v, advertised' = Put(advertised, m, v) PROVE Inv'
    <3>1. DOMAIN advertised' = DOMAIN advertised \cup {m}
      BY <2>1, Zenon DEF Put
    <3>2. QED
      BY <1>2, <3>1, FS_AddElement, Zenon
  <2>2. ASSUME NEW m, advertised' = Without(advertised, m) PROVE Inv'
    <3>1. DOMAIN advertised' = DOMAIN advertised \ {m}
      BY <2>2, Zenon DEF Without
    <3>2. QED
      BY <1>2, <3>1, FS_Subset, Zenon
  <2>3. CASE ResetForEpoch
    BY <1>1, <2>3, FS_EmptySet DEF ResetForEpoch
  <2>4. CASE UNCHANGED advertised
    BY <1>2, <2>4, Zenon
  <2>5. QED
    BY <1>2, <2>1, <2>2, <2>3, <2>4, Zenon DEF NegotiateNext, Advertise, DeclareClass, Forget
<1>3. Inv => ClassIsSupported
  BY NegotiatorIsRight, Zenon
<1> HIDE DEF Inv
<1>4. QED
  BY <1>1, <1>2, <1>3, PTL DEF NegotiateSpec

------------------------------------------------------------------------------
(* Bindings *)

LEMMA Variants ==
    Variant = {"StateChanged", "PayloadReceived", "Control", "Error", "EpochAdvanced",
               "CoordinatorElectionNeeded", "BecameCoordinator", "CoordinatorClaim"}
  BY DEF Variant, Event

\* dto gives each variant a tag of its own.
LEMMA DtoTags ==
    ASSUME NEW v \in Variant
    PROVE  dto(v).kind = CASE v = "StateChanged" -> "state_changed"
                           [] v = "PayloadReceived" -> "payload_received"
                           [] v = "Control" -> "control"
                           [] v = "Error" -> "error"
                           [] v = "EpochAdvanced" -> "epoch_advanced"
                           [] v = "CoordinatorElectionNeeded" -> "coordinator_election_needed"
                           [] v = "BecameCoordinator" -> "became_coordinator"
                           [] v = "CoordinatorClaim" -> "coordinator_claim"
<1>1. \A k, f : Dto(k, f).kind = k
  BY DEF Dto
<1>2. QED
  BY <1>1, Variants DEF dto

\* event_to_js gives each promised variant a tag of its own.
LEMMA JsTags ==
    ASSUME NEW v
    PROVE  event_to_js(v).kind = CASE v = "PayloadReceived" -> "payload_received"
                                   [] v = "StateChanged" -> "state_changed"
                                   [] v = "EpochAdvanced" -> "epoch_advanced"
                                   [] v = "Error" -> "error"
                                   [] v = "Control" -> "control"
                                   [] OTHER -> "other"
<1>1. \A k, f : Dto(k, f).kind = k
  BY DEF Dto
<1>2. QED
  BY <1>1 DEF event_to_js

LEMMA TagsTell ==
    ASSUME NEW u \in Variant, NEW v \in Variant, u \in Promised
    PROVE  (Convert(u).kind = Convert(v).kind) <=> (u = v)
<1>1. CASE binding = "c"
  <2>1. Convert(u) = dto(u) /\ Convert(v) = dto(v)
    BY <1>1, Zenon DEF Convert
  <2>2. QED
    BY <2>1, DtoTags, Variants
<1>2. CASE binding # "c"
  <2>1. Convert(u) = event_to_js(u) /\ Convert(v) = event_to_js(v)
    BY <1>2, Zenon DEF Convert
  <2>2. u \in {"PayloadReceived", "StateChanged", "EpochAdvanced", "Error", "Control"}
    BY <1>2, Zenon DEF Promised
  <2>3. QED
    BY <2>1, <2>2, JsTags
<1>3. QED
  BY <1>1, <1>2, Zenon

\* What was delivered (d) are the events raised so far (r), converted, up to
\* those that still wait in the node (e); c maps an event to what it becomes
Handed(c, r, e, d, K) ==
    /\ r \in Seq(Variant) /\ e \in Seq(Variant) /\ d \in Seq(K)
    /\ Len(r) = Len(d) + Len(e)
    /\ \A i \in 1 .. Len(d) : d[i] = c[r[i]]
    /\ \A i \in 1 .. Len(e) : e[i] = r[Len(d) + i]

\* u is s and then t, element by element
Joined(S, s, t, u) ==
    /\ u \in Seq(S) /\ Len(s) \in Nat /\ Len(t) \in Nat /\ Len(u) = Len(s) + Len(t)
    /\ \A i \in 1 .. Len(s) : u[i] = s[i]
    /\ \A i \in 1 .. Len(t) : u[Len(s) + i] = t[i]

LEMMA Concatenated ==
    ASSUME NEW S, NEW s \in Seq(S), NEW t \in Seq(S)
    PROVE  Joined(S, s, t, s \o t)
  BY DEF Joined

Splits(i, m, n) == i \in 1 .. m \/ \E j \in 1 .. n : i = m + j

LEMMA SplitIndex ==
    ASSUME NEW m \in Nat, NEW n \in Nat, NEW i \in 1 .. m + n
    PROVE  Splits(i, m, n)
<1> SUFFICES i \in 1 .. m \/ \E j \in 1 .. n : i = m + j
  BY Zenon DEF Splits
<1>1. CASE i <= m
  BY <1>1
<1>2. CASE i > m
  <2>1. i - m \in 1 .. n /\ i = m + (i - m)
    BY <1>2
  <2>2. QED
    BY <2>1
<1>3. QED
  BY <1>1, <1>2

LEMMA QueueGrows ==
    ASSUME NEW c, NEW r, NEW e, NEW d, NEW K, Handed(c, r, e, d, K), NEW s \in Seq(Variant)
    PROVE  Handed(c, r \o s, e \o s, d, K)
<1> DEFINE R == r \o s
           E == e \o s
<1>1. /\ r \in Seq(Variant) /\ e \in Seq(Variant) /\ d \in Seq(K)
      /\ Len(r) = Len(d) + Len(e)
      /\ \A i \in 1 .. Len(d) : d[i] = c[r[i]]
      /\ \A i \in 1 .. Len(e) : e[i] = r[Len(d) + i]
  BY Zenon DEF Handed
<1>2. /\ R \in Seq(Variant) /\ Len(r) \in Nat /\ Len(s) \in Nat /\ Len(R) = Len(r) + Len(s)
      /\ \A i \in 1 .. Len(r) : R[i] = r[i]
      /\ \A i \in 1 .. Len(s) : R[Len(r) + i] = s[i]
  <2>1. Joined(Variant, r, s, R)
    BY <1>1, Concatenated, Zenon
  <2> HIDE DEF R
  <2>2. QED
    BY <2>1, Zenon DEF Joined
<1>3. /\ E \in Seq(Variant) /\ Len(e) \in Nat /\ Len(E) = Len(e) + Len(s)
      /\ \A i \in 1 .. Len(e) : E[i] = e[i]
      /\ \A i \in 1 .. Len(s) : E[Len(e) + i] = s[i]
  <2>1. Joined(Variant, e, s, E)
    BY <1>1, Concatenated, Zenon
  <2> HIDE DEF E
  <2>2. QED
    BY <2>1, Zenon DEF Joined
<1> HIDE DEF R, E
<1>4. Len(d) \in Nat
  BY <1>1
<1>5. Len(R) = Len(d) + Len(E)
  BY <1>1, <1>2, <1>3, <1>4
<1>6. \A i \in 1 .. Len(d) : i \in 1 .. Len(r)
  BY <1>1, <1>2, <1>3, <1>4
<1>7. \A i \in 1 .. Len(d) : d[i] = c[R[i]]
  BY <1>1, <1>2, <1>6, Zenon
<1>8. ASSUME NEW i \in 1 .. Len(E) PROVE E[i] = R[Len(d) + i]
  <2>1. i \in 1 .. Len(e) \/ \E j \in 1 .. Len(s) : i = Len(e) + j
    <3>1. i \in 1 .. Len(e) + Len(s)
      BY <1>3, <1>8, Zenon
    <3>2. QED
      BY <1>2, <1>3, <3>1, SplitIndex, Zenon DEF Splits
  <2>2. CASE i \in 1 .. Len(e)
    <3>1. Len(d) + i \in 1 .. Len(r)
      BY <1>1, <1>2, <1>3, <1>4, <2>2
    <3>2. QED
      BY <1>1, <1>2, <1>3, <2>2, <3>1, Zenon
  <2>3. ASSUME NEW j \in 1 .. Len(s), i = Len(e) + j PROVE E[i] = R[Len(d) + i]
    <3>1. Len(d) + i = Len(r) + j
      BY <1>1, <1>3, <1>4, <2>3
    <3>2. QED
      BY <1>2, <1>3, <2>3, <3>1, Zenon
  <2>4. QED
    BY <2>1, <2>2, <2>3, Zenon
<1>9. QED
  BY <1>1, <1>2, <1>3, <1>5, <1>7, <1>8, Zenon DEF Handed, R, E

\* a is the queue q, converted by c
Mapped(a, c, q, K) == a \in Seq(K) /\ Len(a) = Len(q) /\ \A i \in 1 .. Len(q) : a[i] = c[q[i]]

LEMMA ConvertAll ==
    ASSUME NEW c, NEW K, \A v \in Variant : c[v] \in K, NEW q \in Seq(Variant),
           NEW a, a = [i \in DOMAIN q |-> c[q[i]]]
    PROVE  Mapped(a, c, q, K)
<1>1. Len(q) \in Nat /\ DOMAIN q = 1 .. Len(q) /\ \A i \in 1 .. Len(q) : q[i] \in Variant
  OBVIOUS
<1>2. \A i \in 1 .. Len(q) : a[i] = c[q[i]]
  BY <1>1, Zenon
<1>3. a \in [1 .. Len(q) -> K]
  BY <1>1, Zenon
<1>4. a \in Seq(K) /\ Len(a) = Len(q)
  BY <1>1, <1>3
<1>5. QED
  BY <1>2, <1>4, Zenon DEF Mapped

\* Handing over the whole queue
LEMMA QueueEmpties ==
    ASSUME NEW c, NEW r, NEW e, NEW d, NEW K, Handed(c, r, e, d, K),
           \A v \in Variant : c[v] \in K, NEW a, a = [i \in DOMAIN e |-> c[e[i]]]
    PROVE  Handed(c, r, << >>, d \o a, K)
<1> DEFINE D == d \o a
<1>1. /\ r \in Seq(Variant) /\ e \in Seq(Variant) /\ d \in Seq(K)
      /\ Len(r) = Len(d) + Len(e)
      /\ \A i \in 1 .. Len(d) : d[i] = c[r[i]]
      /\ \A i \in 1 .. Len(e) : e[i] = r[Len(d) + i]
  BY Zenon DEF Handed
<1>2. a \in Seq(K) /\ Len(a) = Len(e) /\ \A i \in 1 .. Len(e) : a[i] = c[e[i]]
  <2>1. Mapped(a, c, e, K)
    BY <1>1, ConvertAll, Zenon
  <2>2. QED
    BY <2>1, Zenon DEF Mapped
<1>3. /\ D \in Seq(K) /\ Len(d) \in Nat /\ Len(a) \in Nat /\ Len(D) = Len(d) + Len(a)
      /\ \A i \in 1 .. Len(d) : D[i] = d[i]
      /\ \A i \in 1 .. Len(a) : D[Len(d) + i] = a[i]
  <2>1. Joined(K, d, a, D)
    BY <1>1, <1>2, Concatenated, Zenon
  <2> HIDE DEF D
  <2>2. QED
    BY <2>1, Zenon DEF Joined
<1> HIDE DEF D
<1>4. ASSUME NEW i \in 1 .. Len(D) PROVE D[i] = c[r[i]]
  <2>1. i \in 1 .. Len(d) \/ \E j \in 1 .. Len(a) : i = Len(d) + j
    <3>1. i \in 1 .. Len(d) + Len(a)
      BY <1>3, <1>4, Zenon
    <3>2. QED
      BY <1>3, <3>1, SplitIndex, Zenon DEF Splits
  <2>2. CASE i \in 1 .. Len(d)
    BY <1>1, <1>3, <2>2, Zenon
  <2>3. ASSUME NEW j \in 1 .. Len(a), i = Len(d) + j PROVE D[i] = c[r[i]]
    <3>1. j \in 1 .. Len(e) /\ D[i] = a[j]
      BY <1>2, <1>3, <2>3, Zenon
    <3>2. a[j] = c[e[j]] /\ e[j] = r[i]
      BY <1>1, <1>2, <2>3, <3>1, Zenon
    <3>3. QED
      BY <3>1, <3>2, Zenon
  <2>4. QED
    BY <2>1, <2>2, <2>3, Zenon
<1>5. << >> \in Seq(Variant) /\ Len(D) = Len(D) + Len(<< >>) /\ \A i : i \notin 1 .. Len(<< >>)
  BY <1>3
<1>6. Len(r) = Len(D)
  BY <1>1, <1>2, <1>3, Zenon
<1>7. QED
  BY <1>1, <1>3, <1>4, <1>5, <1>6, Zenon DEF Handed, D

Conv == [v \in Variant |-> Convert(v)]
Outputs == {Convert(v) : v \in Variant}

EventInv == Handed(Conv, raised, events, delivered, Outputs)

\* The queue as it is converted
LEMMA ConvIsConvert ==
    ASSUME NEW q \in Seq(Variant)
    PROVE  [i \in DOMAIN q |-> Convert(q[i])] = [i \in DOMAIN q |-> Conv[q[i]]]
<1>1. \A i \in DOMAIN q : q[i] \in Variant
  OBVIOUS
<1>2. QED
  BY <1>1, Zenon DEF Conv

LEMMA SameOutputs == UNCHANGED binding => Conv' = Conv /\ Outputs' = Outputs
  BY Zenon DEF Conv, Outputs, Convert

LEMMA HandOverKeeps ==
    ASSUME EventInv, NEW s \in Seq(Variant), raised' = raised \o s, HandOver(s)
    PROVE  EventInv'
<1> DEFINE a == [i \in DOMAIN events |-> Conv[events[i]]]
           b == [i \in DOMAIN s |-> Conv[s[i]]]
<1>1. \A v \in Variant : Conv[v] \in Outputs
  BY Zenon DEF Conv, Outputs
<1>2. raised \in Seq(Variant) /\ events \in Seq(Variant) /\ delivered \in Seq(Outputs)
  BY Zenon DEF EventInv, Handed
<1>3. delivered' = delivered \o a \o b /\ events' = << >> /\ binding' = binding
  BY <1>2, ConvIsConvert, Zenon DEF HandOver
<1>4. Handed(Conv, raised, << >>, delivered \o a, Outputs)
  BY <1>1, QueueEmpties, Zenon DEF EventInv
<1> HIDE DEF a
<1>5. Handed(Conv, raised \o s, << >> \o s, delivered \o a, Outputs)
  BY <1>4, QueueGrows, Zenon
<1>6. << >> \o s = s
  OBVIOUS
<1>7. Handed(Conv, raised \o s, s, delivered \o a, Outputs)
  BY <1>5, <1>6, Zenon
<1>8. Handed(Conv, raised \o s, << >>, delivered \o a \o b, Outputs)
  BY <1>1, <1>7, QueueEmpties, Zenon
<1> HIDE DEF b
<1>9. QED
  BY <1>3, <1>8, SameOutputs, Zenon DEF EventInv

LEMMA SilentKeeps ==
    ASSUME EventInv, NEW s \in Seq(Variant), raised' = raised \o s, events' = events \o s,
           UNCHANGED <<binding, delivered>>
    PROVE  EventInv'
<1>1. Handed(Conv, raised \o s, events \o s, delivered, Outputs)
  BY QueueGrows, Zenon DEF EventInv
<1>2. QED
  BY <1>1, SameOutputs, Zenon DEF EventInv

\* For any number of events, whichever calls raise them and whenever the
\* application asks: each event reaches the application once and in order, and a
\* variant that the binding promises never looks like another (drain_events, dto,
\* event_to_js).
THEOREM EventsComeThrough == EventsSpec => []EventsArrive
<1>1. EventsInit => EventInv
  <2>1. \A c, K : Handed(c, << >>, << >>, << >>, K)
    BY DEF Handed
  <2>2. QED
    BY <2>1, Zenon DEF EventsInit, EventInv
<1>2. ASSUME EventInv, [EventsNext]_eventvars PROVE EventInv'
  <2>1. ASSUME NEW V \in SUBSET Variant, NEW n, NEW s \in Pushes(V, n) PROVE s \in Seq(Variant)
    <3>1. PICK k \in 0 .. n : s \in [1 .. k -> V]
      BY <2>1, Zenon DEF Pushes
    <3>2. k \in Nat /\ s \in [1 .. k -> Variant]
      BY <3>1
    <3>3. QED
      BY <3>2
  <2>2. CASE Silent
    <3>1. {"StateChanged", "EpochAdvanced"} \in SUBSET Variant
      BY Variants, Zenon
    <3>2. QED
      BY <1>2, <2>1, <2>2, <3>1, SilentKeeps, Zenon DEF Silent
  <2>3. CASE OnWire
    <3>1. {"StateChanged", "PayloadReceived", "Control", "Error",
           "EpochAdvanced", "CoordinatorClaim"} \in SUBSET Variant
      BY Variants, Zenon
    <3>2. QED
      BY <1>2, <2>1, <2>3, <3>1, HandOverKeeps, Zenon DEF OnWire
  <2>4. CASE CheckTimeouts
    <3>1. {"Error", "CoordinatorElectionNeeded"} \in SUBSET Variant
      BY Variants, Zenon
    <3>2. QED
      BY <1>2, <2>1, <2>4, <3>1, HandOverKeeps, Zenon DEF CheckTimeouts
  <2>5. CASE Drain
    <3>1. << >> \in Seq(Variant) /\ raised' = raised \o << >>
      BY <1>2, <2>5 DEF EventInv, Drain
    <3>2. QED
      BY <1>2, <2>5, <3>1, HandOverKeeps, Zenon DEF Drain
  <2>6. CASE UNCHANGED eventvars
    BY <1>2, <2>6, SameOutputs, Zenon DEF EventInv, eventvars
  <2>7. QED
    BY <1>2, <2>2, <2>3, <2>4, <2>5, <2>6, Zenon DEF EventsNext
<1>3. EventInv => EventsArrive
  <2> SUFFICES ASSUME EventInv PROVE EventsArrive
    OBVIOUS
  <2>1. /\ raised \in Seq(Variant) /\ events \in Seq(Variant) /\ delivered \in Seq(Outputs)
        /\ Len(raised) = Len(delivered) + Len(events)
        /\ \A i \in 1 .. Len(delivered) : delivered[i] = Conv[raised[i]]
    BY Zenon DEF EventInv, Handed
  <2>2. Len(raised) - Len(events) = Len(delivered)
    BY <2>1
  <2>3. Due = SubSeq(raised, 1, Len(delivered))
    BY <2>2, Zenon DEF Due
  <2>4. /\ Len(Due) = Len(delivered) /\ DOMAIN Due = 1 .. Len(delivered)
        /\ \A i \in 1 .. Len(delivered) : Due[i] = raised[i] /\ raised[i] \in Variant
    BY <2>1, <2>3
  <2>5. \A i \in 1 .. Len(delivered) : Due[i] \in Variant /\ delivered[i] = Convert(Due[i])
    BY <2>1, <2>4, Zenon DEF Conv
  <2>6. QED
    <3>1. ASSUME NEW i \in 1 .. Len(delivered), NEW j \in 1 .. Len(delivered), Due[i] \in Promised
          PROVE  (delivered[i].kind = delivered[j].kind) <=> (Due[i] = Due[j])
      <4>1. (Convert(Due[i]).kind = Convert(Due[j]).kind) <=> (Due[i] = Due[j])
        BY <2>5, <3>1, TagsTell, Zenon
      <4>2. delivered[i] = Convert(Due[i]) /\ delivered[j] = Convert(Due[j])
        BY <2>5, Zenon
      <4>3. QED
        BY <4>1, <4>2, Zenon
    <3>2. QED
      BY <2>4, <2>5, <3>1, Zenon DEF EventsArrive
<1>4. QED
  BY <1>1, <1>2, <1>3, PTL DEF EventsSpec

------------------------------------------------------------------------------
(* Codecs *)

\* A message with the numeric fields F, whatever their values
Shape(F) == [num : [DOMAIN F -> Nat], body : Seq({"b"})]

LEMMA ShapeIs ==
    ASSUME NEW F, NEW m \in Shape(F)
    PROVE  /\ m = [num |-> m.num, body |-> m.body] /\ DOMAIN m = {"num", "body"}
           /\ m.num \in [DOMAIN F -> Nat] /\ m.body \in Seq({"b"}) /\ ~ IsError(m)
<1>1. /\ m = [num |-> m.num, body |-> m.body] /\ DOMAIN m = {"num", "body"}
      /\ m.num \in [DOMAIN F -> Nat] /\ m.body \in Seq({"b"})
  BY DEF Shape
<1>2. "kind" \notin {"num", "body"}
  OBVIOUS
<1>3. QED
  BY <1>1, <1>2, Zenon DEF IsError

LEMMA FailedIsError == IsError(Failed)
  BY DEF Failed, IsError

\* A body that is there, or left out because it is empty
Carries(w, b) == w = {b} \/ (w = {} /\ b = << >>)

LEMMA BodiesCarry == ASSUME NEW b PROVE Carries(Present(b), b) /\ Carries(PresentUnlessEmpty(b), b)
  BY Zenon DEF Carries, Present, PresentUnlessEmpty

\* Fields that are left out because they are zero come back as zero.
LEMMA TableReturns ==
    ASSUME NEW F, NEW H, DOMAIN H = DOMAIN F, NEW m \in Shape(F), NEW w, Carries(w, m.body)
    PROVE  TableRead(TableWrite(m, w), H) = m
<1> DEFINE t == TableWrite(m, w)
           r == TableRead(t, H)
           D == DOMAIN F
<1>1. /\ m = [num |-> m.num, body |-> m.body] /\ m.num \in [D -> Nat]
  BY ShapeIs, Zenon
<1>2. t.num = [f \in {g \in DOMAIN m.num : m.num[g] # 0} |-> m.num[f]] /\ t.body = w
  BY DEF TableWrite
<1> HIDE DEF t
<1>3. r = [num |-> [f \in D |-> IF f \in DOMAIN t.num THEN t.num[f] ELSE 0],
           body |-> IF t.body = {} THEN << >> ELSE CHOOSE b \in t.body : TRUE]
  BY Zenon DEF TableRead
<1>4. [f \in D |-> IF f \in DOMAIN t.num THEN t.num[f] ELSE 0] = m.num
  <2>1. ASSUME NEW f \in D PROVE (IF f \in DOMAIN t.num THEN t.num[f] ELSE 0) = m.num[f]
    BY <1>1, <1>2, Zenon
  <2>2. QED
    BY <1>1, <2>1, Zenon
<1>5. (IF t.body = {} THEN << >> ELSE CHOOSE b \in t.body : TRUE) = m.body
  <2>1. CASE w = {m.body}
    <3>1. w # {} /\ (CHOOSE b \in w : TRUE) \in w
      BY <2>1, Zenon
    <3>2. (CHOOSE b \in w : TRUE) = m.body
      BY <2>1, <3>1, Zenon
    <3>3. QED
      BY <1>2, <3>1, <3>2, Zenon
  <2>2. CASE w = {} /\ m.body = << >>
    BY <1>2, <2>2, Zenon
  <2>3. QED
    BY <2>1, <2>2, Zenon DEF Carries
<1>6. r = [num |-> m.num, body |-> m.body]
  BY <1>3, <1>4, <1>5, Zenon
<1> HIDE DEF r
<1>7. r = m
  BY <1>1, <1>6, Zenon
<1>8. QED
  BY <1>7, Zenon DEF r, t

\* CBOR refuses a number that is too wide and returns the others.
LEMMA CborReturns ==
    ASSUME NEW F, NEW m \in Shape(F)
    PROVE  /\ CborRead(CborWrite(m), F) \in {m, Failed}
           /\ (\A f \in DOMAIN F : Fits(m.num[f], F[f])) => CborRead(CborWrite(m), F) = m
<1> DEFINE w == CborWrite(m)
           b == CHOOSE x \in w.body : TRUE
<1>1. /\ m = [num |-> m.num, body |-> m.body] /\ m.num \in [DOMAIN F -> Nat]
  BY ShapeIs, Zenon
<1>2. w.num = m.num /\ w.body = {m.body}
  BY DEF CborWrite
<1> HIDE DEF w
<1>3. b = m.body
  <2>1. b \in w.body
    BY <1>2, Zenon
  <2>2. QED
    BY <1>2, <2>1, Zenon
<1>4. CborRead(w, F) = IF /\ DOMAIN F \subseteq DOMAIN w.num
                          /\ \A f \in DOMAIN F : Fits(w.num[f], F[f])
                       THEN [num |-> w.num, body |-> b] ELSE Failed
  BY Zenon DEF CborRead
<1> HIDE DEF b
<1>5. [num |-> w.num, body |-> b] = m
  BY <1>1, <1>2, <1>3, Zenon
<1>6. DOMAIN F \subseteq DOMAIN w.num
  BY <1>1, <1>2, Zenon
<1>7. CborRead(w, F) = IF \A f \in DOMAIN F : Fits(m.num[f], F[f]) THEN m ELSE Failed
  BY <1>2, <1>4, <1>5, <1>6, Zenon
<1>8. QED
  BY <1>7, Zenon DEF w

\* What CheckLength lets through
LEMMA LengthLetsThrough ==
    ASSUME NEW F, NEW m \in Shape(F), NEW r \in {m, Failed}, NEW field
    PROVE  /\ CheckLength(r, field) \in {m, Failed}
           /\ ~ IsError(CheckLength(r, field)) => m.num[field] = Len(m.body)
           /\ r = m /\ m.num[field] = Len(m.body) => CheckLength(r, field) = m
<1>1. ~ IsError(m) /\ IsError(Failed)
  BY ShapeIs, FailedIsError, Zenon
<1>2. QED
  BY <1>1, Zenon DEF CheckLength

\* Cutting to the width of a field changes no number that fits, and no body.
LEMMA NarrowedKeeps ==
    ASSUME NEW F, NEW m \in Shape(F)
    PROVE  /\ Narrowed(m, F).body = m.body
           /\ (\A f \in DOMAIN F : Fits(m.num[f], F[f])) => Narrowed(m, F) = m
<1>1. /\ m = [num |-> m.num, body |-> m.body] /\ DOMAIN m = {"num", "body"}
      /\ m.num \in [DOMAIN F -> Nat]
  BY ShapeIs, Zenon
<1> DEFINE cut == [f \in DOMAIN F |-> Cast(m.num[f], F[f])]
<1>2. Narrowed(m, F) = [m EXCEPT !.num = cut]
  BY Zenon DEF Narrowed
<1> HIDE DEF cut
<1>3. [m EXCEPT !.num = cut] = [num |-> cut, body |-> m.body]
  BY <1>1
<1>4. ASSUME \A f \in DOMAIN F : Fits(m.num[f], F[f]) PROVE cut = m.num
  <2>1. ASSUME NEW f \in DOMAIN F PROVE Cast(m.num[f], F[f]) = m.num[f]
    <3> DEFINE v == m.num[f]
               n == F[f]
    <3>1. v \in Nat /\ Fits(v, n)
      BY <1>1, <1>4, Zenon
    <3> HIDE DEF v, n
    <3>2. CASE n >= 32
      BY <3>2, Zenon DEF Cast, v, n
    <3>3. CASE ~ (n >= 32)
      <4>1. v < Span(n) /\ Span(n) \in {256, 65536}
        BY <3>1, <3>3 DEF Fits, Span
      <4>2. v % Span(n) = v
        BY <3>1, <4>1
      <4>3. QED
        BY <3>3, <4>2, Zenon DEF Cast, v, n
    <3>4. QED
      BY <3>2, <3>3, Zenon
  <2>2. QED
    BY <1>1, <2>1, Zenon DEF cut
<1>5. Narrowed(m, F).body = m.body
  BY <1>2, <1>3
<1>6. QED
  BY <1>1, <1>2, <1>3, <1>4, <1>5, Zenon

------------------------------------------------------------------------------
\* The fields of this stack's own structs
Own(kind) ==
    CASE kind = "text" -> GtpMessage
      [] kind = "audio" -> GapPayload
      [] kind = "signal" -> GspSignal
      [] kind = "control" -> ControlMessage

\* A message whose numbers fit and that declares the length of its body
Proper(kind, m) ==
    /\ \A f \in DOMAIN Own(kind) : Fits(m.num[f], Own(kind)[f])
    /\ \A f \in LengthField(kind) : m.num[f] = Len(m.body)

\* What a receiver may make of m
Decodes(kind, m, r) ==
    /\ ~ IsError(r) => /\ r.body = m.body
                       /\ \A f \in LengthField(kind) : m.num[f] = Len(m.body)
    /\ Proper(kind, m) => r = m

LEMMA Domains ==
    /\ DOMAIN ProtoGtpMessage = DOMAIN GtpMessage
    /\ ProtoGapPayload = GapPayload /\ ProtoGspSignal = GspSignal
<1>1. DOMAIN ProtoGtpMessage = DOMAIN GtpMessage
  BY DEF ProtoGtpMessage, GtpMessage
<1>2. QED
  BY <1>1, Zenon DEF ProtoGapPayload, ProtoGspSignal

\* A message with a length field, in CBOR or in a table whose fields are as wide
LEMMA ChecksLength ==
    ASSUME NEW kind \in Kinds, NEW m \in Shape(Own(kind)), NEW field,
           LengthField(kind) = {field}, NEW r, r \in {m, Failed},
           Proper(kind, m) => r = m
    PROVE  Decodes(kind, m, CheckLength(r, field))
<1> DEFINE c == CheckLength(r, field)
<1>1. /\ c \in {m, Failed} /\ (~ IsError(c) => m.num[field] = Len(m.body))
      /\ (r = m /\ m.num[field] = Len(m.body) => c = m)
  BY LengthLetsThrough, Zenon
<1>2. IsError(Failed)
  BY FailedIsError, Zenon
<1> HIDE DEF c
<1>3. ~ IsError(c) => c.body = m.body /\ \A f \in LengthField(kind) : m.num[f] = Len(m.body)
  BY <1>1, <1>2, Zenon
<1>4. Proper(kind, m) => c = m
  BY <1>1, Zenon DEF Proper
<1>5. QED
  BY <1>3, <1>4, Zenon DEF Decodes, c

LEMMA CborDecodes ==
    ASSUME NEW kind \in Kinds, NEW m \in Shape(Own(kind))
    PROVE  /\ CborRead(CborWrite(m), Own(kind)) \in {m, Failed}
           /\ Proper(kind, m) => CborRead(CborWrite(m), Own(kind)) = m
BY CborReturns, Zenon DEF Proper

LEMMA TextDecodes ==
    ASSUME NEW codec \in PayloadCodec, NEW m \in Shape(Own("text"))
    PROVE  Decodes("text", m, GtpFromBytes(GtpToBytes(m, codec), codec))
<1>1. Own("text") = GtpMessage /\ LengthField("text") = {"content_length"} /\ "text" \in Kinds
  BY DEF Own, LengthField, Kinds
<1>2. CASE codec = Cbor
  <2>1. Decodes("text", m, CheckLength(CborRead(CborWrite(m), GtpMessage), "content_length"))
    <3>1. /\ CborRead(CborWrite(m), GtpMessage) \in {m, Failed}
          /\ Proper("text", m) => CborRead(CborWrite(m), GtpMessage) = m
      BY <1>1, CborDecodes, Zenon
    <3>2. QED
      BY <1>1, <3>1, ChecksLength, Zenon
  <2>2. GtpToBytes(m, codec) = CborWrite(m)
    BY <1>2 DEF GtpToBytes, Cbor, Protobuf, FlatBuffers
  <2>3. QED
    BY <1>2, <2>1, <2>2, Zenon DEF GtpFromBytes
<1>3. CASE codec # Cbor
  <2>1. PICK w : GtpToBytes(m, codec) = TableWrite(m, w) /\ Carries(w, m.body)
    <3>1. \/ GtpToBytes(m, codec) = TableWrite(m, PresentUnlessEmpty(m.body))
          \/ GtpToBytes(m, codec) = TableWrite(m, Present(m.body))
      BY <1>3 DEF GtpToBytes, PayloadCodec, Cbor, Protobuf, FlatBuffers
    <3>2. QED
      BY <3>1, BodiesCarry, Zenon
  <2>2. TableRead(GtpToBytes(m, codec), ProtoGtpMessage) = m
    BY <1>1, <2>1, TableReturns, Domains, Zenon
  <2> DEFINE c == CheckLength(m, "content_length")
             n == Narrowed(m, GtpMessage)
             r == GtpFromBytes(GtpToBytes(m, codec), codec)
  <2>3. r = IF IsError(c) THEN c ELSE Narrowed(c, GtpMessage)
    BY <1>3, <2>2, Zenon DEF GtpFromBytes
  <2>4. Decodes("text", m, c) /\ c \in {m, Failed}
    BY <1>1, ChecksLength, LengthLetsThrough, Zenon
  <2>5. n.body = m.body /\ ((\A f \in DOMAIN GtpMessage : Fits(m.num[f], GtpMessage[f])) => n = m)
    BY <1>1, NarrowedKeeps, Zenon
  <2>6. IsError(Failed) /\ ~ IsError(m)
    BY FailedIsError, ShapeIs, Zenon
  <2> HIDE DEF c, n, r
  <2>7. CASE IsError(c)
    BY <2>3, <2>4, <2>7, Zenon DEF r
  <2>8. CASE ~ IsError(c)
    <3>1. c = m
      BY <2>4, <2>6, <2>8, Zenon
    <3>2. r = n
      BY <2>3, <2>8, <3>1, Zenon DEF n
    <3>3. \A f \in LengthField("text") : m.num[f] = Len(m.body)
      BY <2>4, <2>8, Zenon DEF Decodes
    <3>4. Proper("text", m) => n = m
      BY <1>1, <2>5, Zenon DEF Proper
    <3>5. Decodes("text", m, r)
      BY <2>5, <3>2, <3>3, <3>4, Zenon DEF Decodes
    <3>6. QED
      BY <3>5, Zenon DEF r
  <2>9. QED
    BY <2>7, <2>8, Zenon
<1>4. QED
  BY <1>2, <1>3, Zenon

LEMMA AudioDecodes ==
    ASSUME NEW codec \in PayloadCodec, NEW m \in Shape(Own("audio"))
    PROVE  Decodes("audio", m, GapFromBytes(GapToBytes(m, codec), codec))
<1>1. Own("audio") = GapPayload /\ LengthField("audio") = {} /\ "audio" \in Kinds
  BY DEF Own, LengthField, Kinds
<1>2. ASSUME NEW r, r \in {m, Failed}, Proper("audio", m) => r = m PROVE Decodes("audio", m, r)
  BY <1>1, <1>2, FailedIsError, Zenon DEF Decodes
<1>3. CASE codec = Cbor
  <2>1. /\ CborRead(CborWrite(m), GapPayload) \in {m, Failed}
        /\ Proper("audio", m) => CborRead(CborWrite(m), GapPayload) = m
    BY <1>1, CborDecodes, Zenon
  <2>2. GapToBytes(m, codec) = CborWrite(m)
    BY <1>3 DEF GapToBytes, Cbor, Protobuf, FlatBuffers
  <2>3. QED
    BY <1>2, <1>3, <2>1, <2>2, Zenon DEF GapFromBytes
<1>4. CASE codec # Cbor
  <2>1. PICK w : GapToBytes(m, codec) = TableWrite(m, w) /\ Carries(w, m.body)
    <3>1. \/ GapToBytes(m, codec) = TableWrite(m, PresentUnlessEmpty(m.body))
          \/ GapToBytes(m, codec) = TableWrite(m, Present(m.body))
      BY <1>4 DEF GapToBytes, PayloadCodec, Cbor, Protobuf, FlatBuffers
    <3>2. QED
      BY <3>1, BodiesCarry, Zenon
  <2>2. TableRead(GapToBytes(m, codec), ProtoGapPayload) = m
    BY <1>1, <2>1, TableReturns, Domains, Zenon
  <2>3. QED
    BY <1>2, <1>4, <2>2, Zenon DEF GapFromBytes
<1>5. QED
  BY <1>3, <1>4, Zenon

LEMMA SignalDecodes ==
    ASSUME NEW codec \in PayloadCodec, NEW m \in Shape(Own("signal"))
    PROVE  Decodes("signal", m, GspFromBytes(GspToBytes(m, codec), codec))
<1>1. Own("signal") = GspSignal /\ LengthField("signal") = {"args_length"} /\ "signal" \in Kinds
  BY DEF Own, LengthField, Kinds
<1>2. CASE codec = Cbor
  <2>1. /\ CborRead(CborWrite(m), GspSignal) \in {m, Failed}
        /\ Proper("signal", m) => CborRead(CborWrite(m), GspSignal) = m
    BY <1>1, CborDecodes, Zenon
  <2>2. Decodes("signal", m, CheckLength(CborRead(CborWrite(m), GspSignal), "args_length"))
    BY <1>1, <2>1, ChecksLength, Zenon
  <2>3. QED
    BY <1>2, <2>2, Zenon DEF GspFromBytes, GspToBytes
<1>3. CASE codec # Cbor
  <2>1. GspToBytes(m, codec) = TableWrite(m, PresentUnlessEmpty(m.body))
    BY <1>3, Zenon DEF GspToBytes
  <2>2. Carries(PresentUnlessEmpty(m.body), m.body)
    BY BodiesCarry, Zenon
  <2>3. TableRead(GspToBytes(m, codec), ProtoGspSignal) = m
    BY <1>1, <2>1, <2>2, TableReturns, Domains, Zenon
  <2>4. Decodes("signal", m, CheckLength(m, "args_length"))
    BY <1>1, ChecksLength, Zenon
  <2>5. QED
    BY <1>3, <2>3, <2>4, Zenon DEF GspFromBytes
<1>4. QED
  BY <1>2, <1>3, Zenon

LEMMA ControlDecodes ==
    ASSUME NEW m \in Shape(Own("control"))
    PROVE  Decodes("control", m, ControlFromCbor(ControlToCbor(m)))
<1>1. /\ Own("control") = ControlMessage /\ LengthField("control") = {"args_length"}
      /\ "control" \in Kinds
  BY DEF Own, LengthField, Kinds
<1>2. /\ CborRead(CborWrite(m), ControlMessage) \in {m, Failed}
      /\ Proper("control", m) => CborRead(CborWrite(m), ControlMessage) = m
  BY <1>1, CborDecodes, Zenon
<1>3. QED
  BY <1>1, <1>2, ChecksLength, Zenon DEF ControlFromCbor, ControlToCbor

\* Whatever the kind and the codec
LEMMA EveryKindDecodes ==
    ASSUME NEW kind \in Kinds, NEW codec \in PayloadCodec, NEW m \in Shape(Own(kind))
    PROVE  Decodes(kind, m, FromBytes(kind, ToBytes(kind, m, codec), codec))
<1>1. CASE kind = "text"
  <2>1. \A w : ToBytes("text", m, codec) = GtpToBytes(m, codec) /\ FromBytes("text", w, codec) = GtpFromBytes(w, codec)
    BY DEF ToBytes, FromBytes
  <2>2. QED
    BY <1>1, <2>1, TextDecodes, Zenon
<1>2. CASE kind = "audio"
  <2>1. \A w : ToBytes("audio", m, codec) = GapToBytes(m, codec) /\ FromBytes("audio", w, codec) = GapFromBytes(w, codec)
    BY DEF ToBytes, FromBytes
  <2>2. QED
    BY <1>2, <2>1, AudioDecodes, Zenon
<1>3. CASE kind = "signal"
  <2>1. \A w : ToBytes("signal", m, codec) = GspToBytes(m, codec) /\ FromBytes("signal", w, codec) = GspFromBytes(w, codec)
    BY DEF ToBytes, FromBytes
  <2>2. QED
    BY <1>3, <2>1, SignalDecodes, Zenon
<1>4. CASE kind = "control"
  <2>1. \A w : ToBytes("control", m, codec) = ControlToCbor(m) /\ FromBytes("control", w, codec) = ControlFromCbor(w)
    BY DEF ToBytes, FromBytes
  <2>2. QED
    BY <1>4, <2>1, ControlDecodes, Zenon
<1>5. QED
  BY <1>1, <1>2, <1>3, <1>4, Zenon DEF Kinds

------------------------------------------------------------------------------
LEMMA FieldsAreOwn ==
    ASSUME NEW kind \in Kinds
    PROVE  DOMAIN Fields(kind) = DOMAIN Own(kind) /\ (~ foreign => Fields(kind) = Own(kind))
<1>1. CASE kind = "text"
  <2>1. Own(kind) = GtpMessage
    BY <1>1 DEF Own
  <2>2. Fields(kind) = IF foreign THEN ProtoGtpMessage ELSE GtpMessage
    BY <1>1 DEF Fields
  <2>3. QED
    BY <2>1, <2>2, Domains, Zenon
<1>2. CASE kind # "text"
  <2>1. Fields(kind) = Own(kind)
    BY <1>2 DEF Fields, Own, Kinds
  <2>2. QED
    BY <2>1, Zenon
<1>3. QED
  BY <1>1, <1>2, Zenon

LEMMA LengthIsWide ==
    ASSUME NEW kind \in Kinds, NEW f \in LengthField(kind)
    PROVE  f \in DOMAIN Own(kind) /\ Own(kind)[f] = 32
<1>1. CASE kind = "text"
  BY <1>1 DEF LengthField, Own, GtpMessage
<1>2. CASE kind = "signal"
  BY <1>2 DEF LengthField, Own, GspSignal
<1>3. CASE kind = "control"
  BY <1>3 DEF LengthField, Own, ControlMessage
<1>4. CASE kind = "audio"
  BY <1>4 DEF LengthField
<1>5. QED
  BY <1>1, <1>2, <1>3, <1>4, Zenon DEF Kinds

LEMMA BodiesAreSequences == Bodies \subseteq Seq({"b"})
<1> SUFFICES ASSUME NEW n \in 0 .. MaxBody PROVE [i \in 1 .. n |-> "b"] \in Seq({"b"})
  BY Zenon DEF Bodies
<1>1. n \in Nat
  BY CodecsAssumption
<1>2. QED
  BY <1>1

LEMMA NumbersTyped ==
    ASSUME NEW kind \in Kinds, NEW n \in Numbers(kind)
    PROVE  n \in [DOMAIN Own(kind) -> Nat]
<1>1. PICK g \in DOMAIN Fields(kind), v \in Number, d \in {0, 1} :
          n = [f \in DOMAIN Fields(kind) |-> IF f = g THEN v ELSE d]
  BY DEF Numbers
<1>2. v \in Nat /\ d \in Nat
  <2>1. v \in Nat
    BY CodecsAssumption, Zenon
  <2>2. d \in Nat
    OBVIOUS
  <2>3. QED
    BY <2>1, <2>2, Zenon
<1>3. DOMAIN Fields(kind) = DOMAIN Own(kind)
  BY FieldsAreOwn, Zenon
<1>4. QED
  BY <1>1, <1>2, <1>3, Zenon

\* What is sent has the fields of its kind
LEMMA SentIsShaped ==
    ASSUME NEW kind \in Kinds, NEW m \in IF foreign THEN AnyMessage(kind) ELSE Built(kind)
    PROVE  m \in Shape(Own(kind)) /\ (~ foreign => Proper(kind, m))
<1> DEFINE D == DOMAIN Own(kind)
<1>0. \A num \in [D -> Nat], b \in Seq({"b"}) :
          LET r == [num |-> num, body |-> b]
          IN  r \in Shape(Own(kind)) /\ r.num = num /\ r.body = b
  BY DEF Shape
<1>1. CASE foreign
  <2>1. PICK n \in Numbers(kind), b \in Bodies : m = [num |-> n, body |-> b]
    <3>1. m \in [num : Numbers(kind), body : Bodies]
      BY <1>1, Zenon DEF AnyMessage
    <3>2. m = [num |-> m.num, body |-> m.body] /\ m.num \in Numbers(kind) /\ m.body \in Bodies
      BY <3>1
    <3>3. QED
      BY <3>2, Zenon
  <2>2. n \in [D -> Nat] /\ b \in Seq({"b"})
    BY NumbersTyped, BodiesAreSequences, Zenon
  <2>3. QED
    BY <1>0, <1>1, <2>1, <2>2, Zenon
<1>2. CASE ~ foreign
  <2>1. PICK n \in Numbers(kind), b \in Bodies :
            /\ \A f \in DOMAIN n : Fits(n[f], Fields(kind)[f])
            /\ m = [num |-> [f \in DOMAIN n |-> IF f \in LengthField(kind) THEN Len(b) ELSE n[f]],
                    body |-> b]
    BY <1>2 DEF Built
  <2> DEFINE num == [f \in DOMAIN n |-> IF f \in LengthField(kind) THEN Len(b) ELSE n[f]]
  <2>2. n \in [D -> Nat] /\ b \in Seq({"b"}) /\ Fields(kind) = Own(kind)
    BY <1>2, NumbersTyped, BodiesAreSequences, FieldsAreOwn, Zenon
  <2>3. Len(b) \in Nat
    BY <2>2, LenProperties, Zenon
  <2>4. num \in [D -> Nat] /\ \A f \in D : num[f] = IF f \in LengthField(kind) THEN Len(b) ELSE n[f]
    BY <2>2, <2>3, Zenon
  <2>5. m = [num |-> num, body |-> b]
    BY <2>1, Zenon
  <2> HIDE DEF num
  <2>6. m \in Shape(Own(kind)) /\ m.num = num /\ m.body = b
    BY <1>0, <2>2, <2>4, <2>5, Zenon
  <2>7. ASSUME NEW f \in LengthField(kind) PROVE m.num[f] = Len(m.body)
    BY <2>4, <2>6, LengthIsWide, Zenon
  <2>8. ASSUME NEW f \in D PROVE Fits(m.num[f], Own(kind)[f])
    <3>1. CASE f \in LengthField(kind)
      <4>1. Own(kind)[f] = 32
        BY <3>1, LengthIsWide, Zenon
      <4>2. QED
        BY <4>1 DEF Fits
    <3>2. CASE f \notin LengthField(kind)
      BY <2>1, <2>2, <2>4, <2>6, <3>2, Zenon
    <3>3. QED
      BY <3>1, <3>2, Zenon
  <2>9. QED
    BY <2>6, <2>7, <2>8, Zenon DEF Proper
<1>3. QED
  BY <1>1, <1>2, Zenon

\* The frame that carries what is sent
FrameOf(s) ==
    [kind |-> s.kind, payload |-> ToBytes(s.kind, s.m, s.codec),
     pf |-> IF s.codec = 0 THEN {} ELSE {s.codec}]

\* Once a message is on its way, its frame is made from it, and a result that is
\* there is what the receiver may make of it.
CodecsIInv ==
    /\ sent = Nothing => got = Nothing
    /\ sent # Nothing =>
          /\ sent.kind \in Kinds /\ sent.codec \in PayloadCodec
          /\ sent.m \in Shape(Own(sent.kind))
          /\ ~ foreign => Proper(sent.kind, sent.m)
          /\ frame = FrameOf(sent)
          /\ got = Nothing \/ Decodes(sent.kind, sent.m, got)

\* The frame's pf names the codec of the sender, left out or not
LEMMA CodecIsNamed ==
    ASSUME NEW s, s.codec \in PayloadCodec
    PROVE  /\ FrameOf(s).kind = s.kind /\ FrameOf(s).payload = ToBytes(s.kind, s.m, s.codec)
           /\ DeliveredCodec(FrameOf(s)) = s.codec
<1>1. /\ FrameOf(s).kind = s.kind /\ FrameOf(s).payload = ToBytes(s.kind, s.m, s.codec)
      /\ FrameOf(s).pf = IF s.codec = 0 THEN {} ELSE {s.codec}
  BY DEF FrameOf
<1>2. (IF FrameOf(s).pf = {} THEN 0 ELSE CHOOSE c \in FrameOf(s).pf : TRUE) = s.codec
  <2>1. CASE s.codec = 0
    BY <1>1, <2>1, Zenon
  <2>2. CASE s.codec # 0
    <3>1. (CHOOSE c \in {s.codec} : TRUE) \in {s.codec}
      BY Zenon
    <3>2. QED
      BY <1>1, <2>2, <3>1, Zenon
  <2>3. QED
    BY <2>1, <2>2, Zenon
<1>3. QED
  BY <1>1, <1>2, Zenon DEF DeliveredCodec, payload_codec

LEMMA CodecsIInvInductive == CodecsIInv /\ [CodecsNext]_codecvars => CodecsIInv'
<1> SUFFICES ASSUME CodecsIInv, [CodecsNext]_codecvars PROVE CodecsIInv'
  BY Zenon
<1>1. CASE Send
  <2>1. PICK kind \in Kinds :
        \E codec \in IF kind = "control" THEN {Cbor} ELSE PayloadCodec :
        \E m \in IF foreign THEN AnyMessage(kind) ELSE Built(kind) :
          /\ sent' = [kind |-> kind, m |-> m, codec |-> codec]
          /\ frame' = [kind |-> kind, payload |-> ToBytes(kind, m, codec),
                       pf |-> IF codec = 0 THEN {} ELSE {codec}]
    BY <1>1, Zenon DEF Send
  <2>2. PICK codec \in IF kind = "control" THEN {Cbor} ELSE PayloadCodec :
        \E m \in IF foreign THEN AnyMessage(kind) ELSE Built(kind) :
          /\ sent' = [kind |-> kind, m |-> m, codec |-> codec]
          /\ frame' = [kind |-> kind, payload |-> ToBytes(kind, m, codec),
                       pf |-> IF codec = 0 THEN {} ELSE {codec}]
    BY <2>1, Zenon
  <2>3. PICK m \in IF foreign THEN AnyMessage(kind) ELSE Built(kind) :
          /\ sent' = [kind |-> kind, m |-> m, codec |-> codec]
          /\ frame' = [kind |-> kind, payload |-> ToBytes(kind, m, codec),
                       pf |-> IF codec = 0 THEN {} ELSE {codec}]
    BY <2>2, Zenon
  <2>4. sent'.kind = kind /\ sent'.m = m /\ sent'.codec = codec
    BY <2>3
  <2>5. codec \in PayloadCodec
    BY Zenon DEF PayloadCodec
  <2>6. m \in Shape(Own(kind)) /\ (~ foreign => Proper(kind, m))
    BY SentIsShaped, Zenon
  <2>7. frame' = FrameOf(sent')
    BY <2>3, <2>4, Zenon DEF FrameOf
  <2>8. foreign' = foreign /\ got' = Nothing
    BY <1>1, Zenon DEF Send, CodecsIInv
  <2>9. QED
    BY <2>4, <2>5, <2>6, <2>7, <2>8, Zenon DEF CodecsIInv
<1>2. CASE Receive
  <2>1. /\ sent # Nothing /\ sent' = sent /\ frame' = frame /\ foreign' = foreign
        /\ got' = FromBytes(frame.kind, frame.payload, DeliveredCodec(frame))
    BY <1>2, Zenon DEF Receive
  <2>2. /\ sent.kind \in Kinds /\ sent.codec \in PayloadCodec
        /\ sent.m \in Shape(Own(sent.kind)) /\ frame = FrameOf(sent)
    BY <2>1, Zenon DEF CodecsIInv
  <2>3. got' = FromBytes(sent.kind, ToBytes(sent.kind, sent.m, sent.codec), sent.codec)
    BY <2>1, <2>2, CodecIsNamed, Zenon
  <2>4. Decodes(sent.kind, sent.m, got')
    BY <2>2, <2>3, EveryKindDecodes, Zenon
  <2>5. QED
    BY <2>1, <2>4, Zenon DEF CodecsIInv
<1>3. CASE UNCHANGED codecvars
  <2>1. foreign' = foreign /\ sent' = sent /\ frame' = frame /\ got' = got
    BY <1>3, Zenon DEF codecvars
  <2>2. QED
    BY <2>1, Zenon DEF CodecsIInv
<1>4. QED
  BY <1>1, <1>2, <1>3, Zenon DEF CodecsNext, Finished

LEMMA CodecsIInvHolds == CodecsSpec => []CodecsIInv
<1>1. CodecsInit => CodecsIInv
  BY Zenon DEF CodecsInit, CodecsIInv
<1>2. QED
  BY <1>1, CodecsIInvInductive, PTL DEF CodecsSpec

\* Whatever values the fields have and however long the body is, a message this
\* stack builds is decoded to the message that was sent in each of the three
\* codecs (to_bytes and from_bytes of message.rs, payload.rs and signal.rs).
THEOREM MessagesComeBack == CodecsSpec => []DecodedIsSent
<1>1. CodecsIInv => DecodedIsSent
  BY Zenon DEF CodecsIInv, DecodedIsSent, Arrived, Decodes
<1>2. QED
  BY <1>1, CodecsIInvHolds, PTL

\* Whatever another implementation of the schemas sends, a message that from_bytes
\* accepts declares the length its body has, in every codec (the length checks of
\* the TryFrom implementations).
THEOREM LengthsAreChecked == CodecsSpec => []LengthIsChecked
<1>1. CodecsIInv => LengthIsChecked
  <2> SUFFICES ASSUME CodecsIInv, got # Nothing, ~ IsError(got), NEW f \in LengthField(sent.kind)
               PROVE  sent.m.num[f] = Len(got.body)
    BY Zenon DEF LengthIsChecked, Arrived
  <2>1. Decodes(sent.kind, sent.m, got)
    BY Zenon DEF CodecsIInv
  <2>2. QED
    BY <2>1, Zenon DEF Decodes
<1>2. QED
  BY <1>1, CodecsIInvHolds, PTL

==============================================================================
