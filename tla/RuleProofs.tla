----------------------------- MODULE RuleProofs -----------------------------
(***************************************************************************)
(* Lemmas about the rules of EventRules, and about the queues they order:  *)
(* sets with a position for each member, and the sequences that list them. *)
(***************************************************************************)
EXTENDS EventRules, FiniteSetTheorems, SequenceTheorems, TLAPS

-----------------------------------------------------------------------------
(* Leaving a line.                                                         *)

\* A sequence without its i-th member: those behind it move up by one.
LEMMA WithoutOne ==
  ASSUME NEW S, NEW q \in Seq(S), NEW i \in 1..Len(q)
  PROVE  LET rest == SubSeq(q, 1, i - 1) \o SubSeq(q, i + 1, Len(q))
         IN  /\ rest \in Seq(S) /\ Len(rest) = Len(q) - 1
             /\ \A j \in 1..(Len(q) - 1) : rest[j] = q[IF j < i THEN j ELSE j + 1]
<1> DEFINE n == Len(q)
           front == SubSeq(q, 1, i - 1)
           back == SubSeq(q, i + 1, n)
           rest == front \o back
<1>1. n \in Nat /\ i \in 1..n /\ \A j \in 1..n : q[j] \in S
  BY LenProperties
<1> HIDE DEF n
<1>2. /\ front \in Seq(S) /\ Len(front) = i - 1
      /\ \A j \in 1..(i - 1) : front[j] = q[j]
  <2>1. \A j \in 1..(i - 1) : q[j] \in S
    BY <1>1
  <2>2. /\ front \in Seq(S)
        /\ Len(front) = IF 1 <= i - 1 THEN (i - 1) - 1 + 1 ELSE 0
        /\ \A j \in 1..((i - 1) - 1 + 1) : front[j] = q[1 + j - 1]
    BY <1>1, <2>1, SubSeqProperties
  <2> HIDE DEF front
  <2> QED
    BY <1>1, <2>2
<1>3. /\ back \in Seq(S) /\ Len(back) = n - i
      /\ \A j \in 1..(n - i) : back[j] = q[i + j]
  <2>1. \A j \in (i + 1)..n : q[j] \in S
    BY <1>1
  <2>2. /\ back \in Seq(S)
        /\ Len(back) = IF i + 1 <= n THEN n - (i + 1) + 1 ELSE 0
        /\ \A j \in 1..(n - (i + 1) + 1) : back[j] = q[(i + 1) + j - 1]
    BY <1>1, <2>1, SubSeqProperties
  <2> HIDE DEF back
  <2> QED
    BY <1>1, <2>2
<1> HIDE DEF front, back
<1>4. /\ rest \in Seq(S) /\ Len(rest) = Len(front) + Len(back)
      /\ \A j \in 1..(Len(front) + Len(back)) :
           rest[j] = IF j <= Len(front) THEN front[j] ELSE back[j - Len(front)]
  BY <1>2, <1>3, ConcatProperties
<1> HIDE DEF rest
<1>5. Len(rest) = n - 1
  BY <1>1, <1>2, <1>3, <1>4
<1>6. ASSUME NEW j \in 1..(n - 1) PROVE rest[j] = q[IF j < i THEN j ELSE j + 1]
  <2>1. rest[j] = IF j <= i - 1 THEN front[j] ELSE back[j - (i - 1)]
    BY <1>1, <1>2, <1>3, <1>4
  <2>2. CASE j < i
    BY <1>1, <1>2, <2>1, <2>2
  <2>3. CASE ~(j < i)
    <3>1. j - (i - 1) \in 1..(n - i) /\ i + (j - (i - 1)) = j + 1
      BY <1>1, <2>3
    <3> QED
      BY <1>1, <1>3, <2>1, <2>3, <3>1
  <2> QED
    BY <2>2, <2>3
<1> QED
  BY <1>4, <1>5, <1>6 DEF rest, front, back, n

-----------------------------------------------------------------------------
(* Queues as sequences.                                                    *)

\* `q' lists the members of S, the lowest position first.
Lists(q, S, pos) ==
  /\ q \in [1..Cardinality(S) -> S]
  /\ \A i, j \in 1..Cardinality(S) : i < j => pos[q[i]] < pos[q[j]]

\* Positions are numbers, and no two members of S have the same.
Ranked(S, pos) ==
  /\ IsFiniteSet(S)
  /\ \A s \in S : pos[s] \in Int
  /\ \A s, t \in S : pos[s] = pos[t] => s = t

\* A list names every member once.
LEMMA ListBijective ==
  ASSUME NEW S, NEW pos, Ranked(S, pos), NEW q, Lists(q, S, pos)
  PROVE  /\ Cardinality(S) \in Nat
         /\ \A i, j \in 1..Cardinality(S) : q[i] = q[j] => i = j
         /\ \A s \in S : \E i \in 1..Cardinality(S) : q[i] = s
<1> DEFINE n == Cardinality(S)
<1>1. n \in Nat
  BY FS_CardinalityType DEF Ranked
<1>2. q \in [1..n -> S] /\ \A i, j \in 1..n : i < j => pos[q[i]] < pos[q[j]]
  BY DEF Lists
<1>3. \A i \in 1..n : pos[q[i]] \in Int
  BY <1>2 DEF Ranked
<1> HIDE DEF n
<1>4. ASSUME NEW i \in 1..n, NEW j \in 1..n, q[i] = q[j] PROVE i = j
  BY <1>1, <1>2, <1>3, <1>4
<1>5. q \in Injection(1..n, S)
  BY <1>2, <1>4 DEF Injection, IsInjective
<1>6. Cardinality(1..n) = n
  BY <1>1, FS_Interval
<1>7. q \in Surjection(1..n, S)
  BY <1>5, <1>6, FS_Injection DEF Ranked, n
<1>8. \A s \in S : \E i \in 1..n : q[i] = s
  BY <1>7 DEF Surjection
<1> QED
  BY <1>1, <1>4, <1>8 DEF n

\* The members up to a given one.
UpTo(S, pos, s) == {t \in S : pos[t] <= pos[s]}

\* The i-th of a list has i - 1 members before it.
LEMMA ListRank ==
  ASSUME NEW S, NEW pos, Ranked(S, pos), NEW q, Lists(q, S, pos),
         NEW i \in 1..Cardinality(S)
  PROVE  Cardinality(UpTo(S, pos, q[i])) = i
<1> DEFINE n == Cardinality(S)
           prefix == [j \in 1..i |-> q[j]]
           upTo == UpTo(S, pos, q[i])
<1>1. n \in Nat /\ \A j, k \in 1..n : q[j] = q[k] => j = k
  BY ListBijective
<1>2. \A s \in S : \E j \in 1..n : q[j] = s
  BY ListBijective
<1>3. q \in [1..n -> S] /\ \A j, k \in 1..n : j < k => pos[q[j]] < pos[q[k]]
  BY DEF Lists
<1>4. \A j \in 1..n : pos[q[j]] \in Int
  BY <1>3 DEF Ranked
<1>5. i \in Nat /\ 1..i \subseteq 1..n
  BY <1>1
<1> HIDE DEF n
<1>6. \A j \in 1..i : q[j] \in upTo
  BY <1>3, <1>4, <1>5 DEF UpTo
<1>7. ASSUME NEW s \in upTo PROVE \E j \in 1..i : q[j] = s
  <2>1. PICK j \in 1..n : q[j] = s
    BY <1>2 DEF UpTo
  <2>2. ~(i < j)
    BY <1>3, <1>4, <1>5, <2>1 DEF UpTo, n
  <2> QED
    BY <1>1, <1>5, <2>1, <2>2
<1>8. prefix \in Bijection(1..i, upTo)
  BY <1>1, <1>5, <1>6, <1>7 DEF Bijection, Injection, Surjection, IsInjective
<1>9. ExistsBijection(1..i, upTo)
  BY <1>8 DEF ExistsBijection
<1> HIDE DEF upTo
<1>10. Cardinality(upTo) = i
  BY <1>5, <1>9, FS_CountingElements
<1> QED
  BY <1>10 DEF upTo

\* There is one list of a set.
LEMMA ListUnique ==
  ASSUME NEW S, NEW pos, Ranked(S, pos), NEW p, NEW q, Lists(p, S, pos), Lists(q, S, pos)
  PROVE  p = q
<1> DEFINE n == Cardinality(S)
<1>1. p \in [1..n -> S] /\ q \in [1..n -> S]
  BY DEF Lists
<1>2. ASSUME NEW i \in 1..n PROVE p[i] = q[i]
  <2>1. PICK j \in 1..n : q[j] = p[i]
    BY <1>1, ListBijective
  <2>2. Cardinality(UpTo(S, pos, p[i])) = i /\ Cardinality(UpTo(S, pos, q[j])) = j
    BY ListRank
  <2> QED
    BY <2>1, <2>2
<1> HIDE DEF n
<1>3. p = [i \in 1..n |-> p[i]] /\ q = [i \in 1..n |-> q[i]]
  BY <1>1
<1> QED
  BY <1>2, <1>3, Zenon

\* There is a list of every finite set: each member at the place its rank says.
LEMMA ListExists ==
  ASSUME NEW S, NEW pos, Ranked(S, pos)
  PROVE  \E q : Lists(q, S, pos)
<1> DEFINE n == Cardinality(S)
           rank == [s \in S |-> Cardinality(UpTo(S, pos, s))]
           q == [i \in 1..n |-> CHOOSE s \in S : rank[s] = i]
<1>1. n \in Nat
  BY FS_CardinalityType DEF Ranked
<1>2. ASSUME NEW s \in S
      PROVE  /\ IsFiniteSet(UpTo(S, pos, s)) /\ s \in UpTo(S, pos, s)
             /\ rank[s] \in 1..n
  <2> DEFINE upTo == UpTo(S, pos, s)
  <2>1. upTo \in SUBSET S /\ s \in upTo
    BY DEF UpTo, Ranked
  <2> HIDE DEF upTo
  <2>2. IsFiniteSet(upTo) /\ Cardinality(upTo) <= n
    BY <2>1, FS_Subset DEF Ranked
  <2>3. Cardinality(upTo) \in Nat /\ Cardinality(upTo) # 0
    BY <2>1, <2>2, FS_CardinalityType, FS_EmptySet
  <2> QED
    BY <1>1, <2>1, <2>2, <2>3 DEF upTo
<1>3. ASSUME NEW s \in S, NEW t \in S, pos[s] < pos[t] PROVE rank[s] < rank[t]
  <2> DEFINE lower == UpTo(S, pos, s)
             upper == UpTo(S, pos, t)
  <2>1. \A u \in S : pos[u] \in Int
    BY DEF Ranked
  <2>2. lower \in SUBSET upper /\ t \in upper /\ t \notin lower
    BY <1>3, <2>1 DEF UpTo
  <2>3. IsFiniteSet(upper) /\ rank[s] = Cardinality(lower) /\ rank[t] = Cardinality(upper)
    BY <1>2
  <2>4. rank[s] \in 1..n /\ rank[t] \in 1..n
    BY <1>2
  <2> HIDE DEF lower, upper, rank
  <2>5. Cardinality(lower) <= Cardinality(upper) /\ Cardinality(lower) # Cardinality(upper)
    BY <2>2, <2>3, FS_Subset
  <2> QED
    BY <1>1, <2>3, <2>4, <2>5
<1>4. \A s, t \in S : rank[s] = rank[t] => s = t
  BY <1>1, <1>2, <1>3 DEF Ranked
<1>5. rank \in [S -> 1..n]
  BY <1>2
<1> HIDE DEF rank
<1>6. rank \in Injection(S, 1..n)
  BY <1>4, <1>5 DEF Injection, IsInjective
<1>7. IsFiniteSet(1..n) /\ Cardinality(1..n) = n
  BY <1>1, FS_Interval
<1>8. rank \in Surjection(S, 1..n)
  BY <1>6, <1>7, FS_Injection
<1>9. \A i \in 1..n : q[i] \in S /\ rank[q[i]] = i
  BY <1>8 DEF Surjection
<1>10. \A i, j \in 1..n : i < j => pos[q[i]] < pos[q[j]]
  <2> SUFFICES ASSUME NEW i \in 1..n, NEW j \in 1..n, i < j, ~(pos[q[i]] < pos[q[j]])
               PROVE  FALSE
    OBVIOUS
  <2>1. q[i] \in S /\ q[j] \in S /\ rank[q[i]] = i /\ rank[q[j]] = j
    BY <1>9
  <2> HIDE DEF q
  <2>2. pos[q[j]] < pos[q[i]] \/ q[i] = q[j]
    BY <2>1 DEF Ranked
  <2> QED
    BY <1>1, <1>3, <2>1, <2>2
<1> QED
  BY <1>9, <1>10 DEF Lists

\* The order of a list depends on the positions of its members alone.
LEMMA ListAgrees ==
  ASSUME NEW S, NEW pos, NEW new, \A s \in S : pos[s] = new[s]
  PROVE  /\ \A q : Lists(q, S, pos) <=> Lists(q, S, new)
         /\ Ranked(S, pos) <=> Ranked(S, new)
<1>1. \A q : Lists(q, S, pos) <=> Lists(q, S, new)
  BY DEF Lists
<1> QED
  BY <1>1 DEF Ranked

\* Part of a ranked set is ranked.
LEMMA PartRanked ==
  ASSUME NEW S, NEW pos, Ranked(S, pos), NEW T \in SUBSET S
  PROVE  Ranked(T, pos)
  BY FS_Subset DEF Ranked

\* Who is behind everybody else is appended.
LEMMA ListAppend ==
  ASSUME NEW S, NEW pos, NEW r, r \notin S, Ranked(S \cup {r}, pos),
         \A s \in S : pos[s] < pos[r], NEW q, Lists(q, S, pos)
  PROVE  Lists(Append(q, r), S \cup {r}, pos)
<1> DEFINE n == Cardinality(S)
<1>1. Ranked(S, pos)
  BY PartRanked
<1>2. n \in Nat /\ Cardinality(S \cup {r}) = n + 1
  BY <1>1, FS_CardinalityType, FS_AddElement DEF Ranked
<1>3. q \in [1..n -> S] /\ \A i, j \in 1..n : i < j => pos[q[i]] < pos[q[j]]
  BY DEF Lists
<1> HIDE DEF n
<1>4. q \in Seq(S \cup {r}) /\ Len(q) = n
  BY <1>2, <1>3, IsASeq
<1>5. /\ Append(q, r) \in [1..(n + 1) -> S \cup {r}]
      /\ \A i \in 1..n : Append(q, r)[i] = q[i]
      /\ Append(q, r)[n + 1] = r
  <2>1. /\ Append(q, r) \in Seq(S \cup {r}) /\ Len(Append(q, r)) = n + 1
        /\ \A i \in 1..n : Append(q, r)[i] = q[i]
        /\ Append(q, r)[n + 1] = r
    BY <1>4, AppendProperties
  <2> DEFINE longer == Append(q, r)
  <2> HIDE DEF longer
  <2>2. longer \in Seq(S \cup {r}) /\ Len(longer) = n + 1
    BY <2>1 DEF longer
  <2>3. longer \in [1..(n + 1) -> S \cup {r}]
    BY <2>2, LenProperties
  <2> QED
    BY <2>1, <2>3 DEF longer
<1>6. ASSUME NEW i \in 1..(n + 1), NEW j \in 1..(n + 1), i < j
      PROVE  pos[Append(q, r)[i]] < pos[Append(q, r)[j]]
  <2>1. CASE j \in 1..n
    BY <1>2, <1>3, <1>5, <1>6, <2>1
  <2>2. CASE j = n + 1
    <3>1. i \in 1..n
      BY <1>2, <1>6, <2>2
    <3> QED
      BY <1>3, <1>5, <2>2, <3>1
  <2>3. j \in 1..n \/ j = n + 1
    BY <1>2
  <2> QED
    BY <2>1, <2>2, <2>3
<1> QED
  BY <1>2, <1>5, <1>6 DEF Lists

\* Those before everybody else are a prefix of the list, and the rest is the list of
\* the others.
LEMMA ListServe ==
  ASSUME NEW S, NEW pos, Ranked(S, pos), NEW q, Lists(q, S, pos),
         NEW P \in SUBSET S, \A a \in P, b \in S \ P : pos[a] < pos[b]
  PROVE  /\ Cardinality(P) \in 0..Cardinality(S) /\ Len(q) = Cardinality(S)
         /\ P = {q[i] : i \in 1..Cardinality(P)}
         /\ Lists(SubSeq(q, Cardinality(P) + 1, Len(q)), S \ P, pos)
<1> DEFINE n == Cardinality(S)
           m == Cardinality(P)
           places == {i \in 1..n : q[i] \in P}
<1>1. /\ n \in Nat /\ m \in Nat /\ m <= n /\ IsFiniteSet(P)
      /\ Cardinality(S \ P) = n - m
  <2>1. IsFiniteSet(S) /\ IsFiniteSet(P) /\ S \cap P = P
    BY FS_Subset DEF Ranked
  <2>2. n \in Nat /\ m \in Nat
    BY <2>1, FS_CardinalityType
  <2>3. m <= n
    BY <2>1, FS_Subset
  <2>4. Cardinality(S \ P) = Cardinality(S) - Cardinality(S \cap P)
    BY <2>1, FS_Difference
  <2>5. Cardinality(S \ P) = n - m
    BY <2>1, <2>4
  <2> QED
    BY <2>1, <2>2, <2>3, <2>5
<1>2. q \in [1..n -> S] /\ \A i, j \in 1..n : i < j => pos[q[i]] < pos[q[j]]
  BY DEF Lists
<1>3. /\ \A i, j \in 1..n : q[i] = q[j] => i = j
      /\ \A s \in S : \E i \in 1..n : q[i] = s
  BY ListBijective
<1>4. \A s \in S : pos[s] \in Int
  BY DEF Ranked
<1>5. IsFiniteSet(1..n) /\ IsFiniteSet(1..m) /\ Cardinality(1..m) = m
  BY <1>1, FS_Interval
<1> HIDE DEF n, m
<1>6. ASSUME NEW i \in places, NEW j \in 1..i PROVE j \in places
  <2>1. i \in 1..n /\ j \in 1..n /\ q[i] \in P /\ q[j] \in S
    BY <1>1, <1>2
  <2>2. j = i \/ pos[q[j]] < pos[q[i]]
    BY <1>1, <1>2, <2>1
  <2> QED
    BY <1>4, <2>1, <2>2
<1>7. IsFiniteSet(places) /\ Cardinality(places) = m
  <2>1. places \in SUBSET (1..n)
    OBVIOUS
  <2>2. [i \in places |-> q[i]] \in Bijection(places, P)
    BY <1>2, <1>3 DEF Bijection, Injection, Surjection, IsInjective
  <2> HIDE DEF places
  <2>3. IsFiniteSet(places)
    BY <1>5, <2>1, FS_Subset
  <2>4. ExistsBijection(places, P)
    BY <2>2 DEF ExistsBijection
  <2> QED
    BY <1>1, <2>3, <2>4, FS_Bijection DEF m
<1>8. places \in SUBSET (1..m)
  <2> SUFFICES ASSUME NEW i \in places PROVE i \in 1..m
    OBVIOUS
  <2>1. i \in Nat /\ i >= 1 /\ 1..i \in SUBSET places
    BY <1>1, <1>6
  <2> HIDE DEF places
  <2>2. Cardinality(1..i) = i /\ Cardinality(1..i) <= m
    BY <1>7, <2>1, FS_Interval, FS_Subset
  <2> QED
    BY <1>1, <2>1, <2>2
<1>9. places = 1..m
  BY <1>5, <1>7, <1>8, FS_Subset
<1>10. Len(q) = n
  BY <1>1, <1>2, LenProperties, IsASeq
<1>11. P = {q[i] : i \in 1..m}
  <2>1. \A i \in 1..m : q[i] \in P
    BY <1>9
  <2>2. \A s \in P : \E i \in 1..m : q[i] = s
    BY <1>3, <1>9
  <2> QED
    BY <2>1, <2>2
<1> DEFINE rest == SubSeq(q, m + 1, n)
<1>12. /\ rest \in [1..(n - m) -> S \ P]
       /\ \A i \in 1..(n - m) : rest[i] = q[m + i]
  <2>1. \A i \in (m + 1)..n : q[i] \in S \ P
    <3> SUFFICES ASSUME NEW i \in (m + 1)..n PROVE q[i] \in S \ P
      OBVIOUS
    <3>1. i \in 1..n /\ i \notin 1..m
      BY <1>1
    <3> QED
      BY <1>2, <1>9, <3>1
  <2>2. /\ rest \in Seq(S \ P)
        /\ Len(rest) = IF m + 1 <= n THEN n - (m + 1) + 1 ELSE 0
        /\ \A i \in 1..(n - (m + 1) + 1) : rest[i] = q[(m + 1) + i - 1]
    BY <1>1, <2>1, SubSeqProperties
  <2> HIDE DEF rest
  <2>3. Len(rest) = n - m
    BY <1>1, <2>2
  <2>4. \A i \in 1..(n - m) : rest[i] = q[m + i]
    BY <1>1, <2>2
  <2> QED
    BY <2>2, <2>3, <2>4, LenProperties
<1>13. ASSUME NEW i \in 1..(n - m), NEW j \in 1..(n - m), i < j
       PROVE  pos[rest[i]] < pos[rest[j]]
  <2>1. m + i \in 1..n /\ m + j \in 1..n /\ m + i < m + j
    BY <1>1, <1>13
  <2> QED
    BY <1>2, <1>12, <2>1
<1>14. Lists(rest, S \ P, pos)
  BY <1>1, <1>12, <1>13 DEF Lists, n, m
<1> QED
  BY <1>1, <1>10, <1>11, <1>14 DEF n, m

\* Without one of its members, a list lists the others.
LEMMA ListRemove ==
  ASSUME NEW S, NEW pos, Ranked(S, pos), NEW q, Lists(q, S, pos), NEW i \in 1..Cardinality(S)
  PROVE  /\ Len(q) = Cardinality(S)
         /\ Lists(SubSeq(q, 1, i - 1) \o SubSeq(q, i + 1, Len(q)), S \ {q[i]}, pos)
<1> DEFINE n == Cardinality(S)
           at == [j \in 1..(n - 1) |-> IF j < i THEN j ELSE j + 1]
           rest == SubSeq(q, 1, i - 1) \o SubSeq(q, i + 1, Len(q))
<1>1. q \in [1..n -> S] /\ \A j, k \in 1..n : j < k => pos[q[j]] < pos[q[k]]
  BY DEF Lists
<1>2. n \in Nat /\ \A j, k \in 1..n : q[j] = q[k] => j = k
  BY ListBijective
<1>3. Cardinality(S \ {q[i]}) = n - 1
  BY <1>1, FS_RemoveElement DEF Ranked
<1> HIDE DEF n
<1>4. i \in 1..n
  BY DEF n
<1>5. q \in Seq(S) /\ Len(q) = n
  BY <1>1, <1>2, LenProperties, IsASeq
<1>6. /\ rest \in Seq(S) /\ Len(rest) = n - 1
      /\ \A j \in 1..(n - 1) : rest[j] = q[IF j < i THEN j ELSE j + 1]
  BY <1>4, <1>5, WithoutOne
<1> HIDE DEF rest
<1>7. /\ \A j \in 1..(n - 1) : rest[j] = q[at[j]] /\ at[j] \in 1..n /\ at[j] # i
      /\ \A j, k \in 1..(n - 1) : j < k => at[j] < at[k]
  BY <1>2, <1>4, <1>6
<1> HIDE DEF at
<1>8. rest \in [1..(n - 1) -> S \ {q[i]}]
  <2>1. rest \in [1..(n - 1) -> S]
    BY <1>6, LenProperties
  <2>2. \A j \in 1..(n - 1) : rest[j] # q[i]
    BY <1>2, <1>4, <1>7
  <2> QED
    BY <2>1, <2>2
<1>9. \A j, k \in 1..(n - 1) : j < k => pos[rest[j]] < pos[rest[k]]
  BY <1>1, <1>7
<1>10. Lists(rest, S \ {q[i]}, pos)
  BY <1>3, <1>8, <1>9 DEF Lists
<1> QED
  BY <1>5, <1>10 DEF rest, n

-----------------------------------------------------------------------------
(* Orders.                                                                 *)

\* A strict total order on a finite set, as a set of pairs.
Orders(less, S) ==
  /\ IsFiniteSet(S)
  /\ \A a \in S : <<a, a>> \notin less
  /\ \A a, b \in S : a # b => <<a, b>> \in less \/ <<b, a>> \in less
  /\ \A a, b, c \in S : <<a, b>> \in less /\ <<b, c>> \in less => <<a, c>> \in less

\* The position of a member: how many come before it.
Places(less, S) == [s \in S |-> Cardinality({t \in S : <<t, s>> \in less})]

\* Counting who comes before turns an order into positions.
LEMMA PlacesRank ==
  ASSUME NEW less, NEW S, Orders(less, S)
  PROVE  /\ Ranked(S, Places(less, S))
         /\ \A a, b \in S : <<a, b>> \in less <=> Places(less, S)[a] < Places(less, S)[b]
<1> DEFINE below == [s \in S |-> {t \in S : <<t, s>> \in less}]
           place == Places(less, S)
<1>1. \A s \in S : place[s] = Cardinality(below[s])
  BY DEF Places
<1>2. \A s \in S : below[s] \in SUBSET S /\ IsFiniteSet(below[s]) /\ place[s] \in Nat
  <2>1. \A T \in SUBSET S : IsFiniteSet(T) /\ Cardinality(T) \in Nat
    BY FS_Subset, FS_CardinalityType DEF Orders
  <2>2. \A s \in S : below[s] \in SUBSET S
    OBVIOUS
  <2> HIDE DEF below, place
  <2> QED
    BY <1>1, <2>1, <2>2
<1>3. ASSUME NEW a \in S, NEW b \in S, <<a, b>> \in less PROVE place[a] < place[b]
  <2>1. below[a] \in SUBSET below[b] /\ a \in below[b] /\ a \notin below[a]
    BY <1>3 DEF Orders
  <2> HIDE DEF below
  <2>2. /\ Cardinality(below[a]) <= Cardinality(below[b])
        /\ Cardinality(below[a]) = Cardinality(below[b]) => below[a] = below[b]
    BY <1>2, <2>1, FS_Subset
  <2> HIDE DEF place
  <2> QED
    BY <1>1, <1>2, <2>1, <2>2
<1> HIDE DEF below, place
<1>4. \A a, b \in S : a # b => place[a] < place[b] \/ place[b] < place[a]
  BY <1>3 DEF Orders
<1>5. \A s \in S : place[s] \in Nat
  BY <1>2
<1>6. \A a, b \in S : <<a, b>> \in less <=> place[a] < place[b]
  <2> SUFFICES ASSUME NEW a \in S, NEW b \in S, place[a] < place[b], <<a, b>> \notin less
               PROVE  FALSE
    BY <1>3
  <2>1. place[a] \in Nat /\ place[b] \in Nat
    BY <1>5
  <2>2. <<b, a>> \in less
    BY <2>1 DEF Orders
  <2>3. place[b] < place[a]
    BY <1>3, <2>2
  <2> QED
    BY <2>1, <2>3
<1>7. \A a, b \in S : place[a] = place[b] => a = b
  BY <1>4, <1>5
<1>8. Ranked(S, place)
  BY <1>5, <1>7 DEF Ranked, Orders
<1> QED
  BY <1>6, <1>8 DEF place

\* A ranked set that is not empty has a first and a last member.
LEMMA Extremes ==
  ASSUME NEW S, NEW pos, Ranked(S, pos), S # {}
  PROVE  /\ \E first \in S : \A s \in S \ {first} : pos[first] < pos[s]
         /\ \E last \in S : \A s \in S \ {last} : pos[s] < pos[last]
<1> DEFINE n == Cardinality(S)
<1>1. PICK q : Lists(q, S, pos)
  BY ListExists
<1>2. n \in Nat /\ \A s \in S : \E i \in 1..n : q[i] = s
  BY <1>1, ListBijective
<1>3. \A i \in 1..n : q[i] \in S
  BY <1>1 DEF Lists
<1>4. \A i, j \in 1..n : i < j => pos[q[i]] < pos[q[j]]
  BY <1>1 DEF Lists
<1> HIDE DEF n
<1>5. 1 \in 1..n /\ n \in 1..n
  BY <1>2
<1>6. \A s \in S \ {q[1]} : pos[q[1]] < pos[s]
  <2> SUFFICES ASSUME NEW s \in S, s # q[1] PROVE pos[q[1]] < pos[s]
    OBVIOUS
  <2>1. PICK i \in 1..n : q[i] = s
    BY <1>2
  <2> QED
    BY <1>2, <1>4, <1>5, <2>1
<1>7. \A s \in S \ {q[n]} : pos[s] < pos[q[n]]
  <2> SUFFICES ASSUME NEW s \in S, s # q[n] PROVE pos[s] < pos[q[n]]
    OBVIOUS
  <2>1. PICK i \in 1..n : q[i] = s
    BY <1>2
  <2> QED
    BY <1>2, <1>4, <1>5, <2>1
<1> QED
  BY <1>3, <1>5, <1>6, <1>7

\* The first `seats' of a list, or all of it when it is shorter: there is one set of
\* that size, or of all, all of whose members come before the others.
LEMMA SliceIsFront ==
  ASSUME NEW S, NEW pos, Ranked(S, pos), NEW q, Lists(q, S, pos), NEW seats \in Nat
  PROVE  LET slice == {q[i] : i \in {j \in 1..Cardinality(S) : j <= seats}}
         IN  \A chosen \in SUBSET S :
               (/\ Cardinality(chosen) <= seats
                /\ chosen = S \/ Cardinality(chosen) = seats
                /\ \A a \in chosen, b \in S \ chosen : pos[a] < pos[b])
               <=> chosen = slice
<1> DEFINE n == Cardinality(S)
           slice == {q[i] : i \in {j \in 1..n : j <= seats}}
           m == IF n <= seats THEN n ELSE seats
<1>1. q \in [1..n -> S] /\ \A i, j \in 1..n : i < j => pos[q[i]] < pos[q[j]]
  BY DEF Lists
<1>2. /\ n \in Nat /\ \A i, j \in 1..n : q[i] = q[j] => i = j
      /\ \A s \in S : \E i \in 1..n : q[i] = s
  BY ListBijective
<1>3. IsFiniteSet(S) /\ \A s \in S : pos[s] \in Int
  BY DEF Ranked
<1>4. ASSUME NEW chosen \in SUBSET S,
             \A a \in chosen, b \in S \ chosen : pos[a] < pos[b]
      PROVE  Cardinality(chosen) \in 0..n /\ chosen = {q[i] : i \in 1..Cardinality(chosen)}
  <2> DEFINE k == Cardinality(chosen)
             rest == SubSeq(q, k + 1, Len(q))
  <2>1. /\ k \in 0..n /\ Len(q) = n
        /\ chosen = {q[i] : i \in 1..k} /\ Lists(rest, S \ chosen, pos)
    BY <1>4, ListServe
  <2> QED
    BY <2>1
<1> HIDE DEF n
<1>5. m \in Nat /\ m <= n /\ m <= seats /\ (m = n \/ m = seats)
  BY <1>2
<1>6. slice = {q[i] : i \in 1..m}
  <2>1. {j \in 1..n : j <= seats} = 1..m
    BY <1>2
  <2> QED
    BY <2>1
<1> HIDE DEF m
<1>7. slice \in SUBSET S
  BY <1>1, <1>5, <1>6
<1>8. Cardinality(slice) = m
  <2>1. [i \in 1..m |-> q[i]] \in Bijection(1..m, slice)
    BY <1>1, <1>2, <1>5, <1>6 DEF Bijection, Injection, Surjection, IsInjective
  <2> HIDE DEF slice
  <2>2. ExistsBijection(1..m, slice)
    BY <2>1 DEF ExistsBijection
  <2> QED
    BY <1>5, <2>2, FS_CountingElements
<1>9. \A a \in slice, b \in S \ slice : pos[a] < pos[b]
  <2> SUFFICES ASSUME NEW a \in slice, NEW b \in S, b \notin slice PROVE pos[a] < pos[b]
    OBVIOUS
  <2>1. PICK i \in 1..m : q[i] = a
    BY <1>6
  <2>2. PICK j \in 1..n : q[j] = b
    BY <1>2
  <2>3. j \notin 1..m
    BY <1>6, <2>2
  <2>4. i \in 1..n /\ i < j
    BY <1>2, <1>5, <2>3
  <2> QED
    BY <1>1, <2>1, <2>2, <2>4
<1> HIDE DEF slice
<1>10. m = n => slice = S
  BY <1>3, <1>7, <1>8, FS_Subset DEF n
<1> SUFFICES ASSUME NEW chosen \in SUBSET S
             PROVE  (/\ Cardinality(chosen) <= seats
                     /\ chosen = S \/ Cardinality(chosen) = seats
                     /\ \A a \in chosen, b \in S \ chosen : pos[a] < pos[b])
                    <=> chosen = slice
  BY DEF slice, n
<1>11. ASSUME Cardinality(chosen) <= seats, chosen = S \/ Cardinality(chosen) = seats,
              \A a \in chosen, b \in S \ chosen : pos[a] < pos[b]
       PROVE  chosen = slice
  <2>1. Cardinality(chosen) \in 0..n /\ chosen = {q[i] : i \in 1..Cardinality(chosen)}
    BY <1>4, <1>11
  <2>2. Cardinality(chosen) = n \/ Cardinality(chosen) = seats
    BY <1>11 DEF n
  <2>3. Cardinality(chosen) = m
    BY <1>2, <1>11, <2>1, <2>2 DEF m
  <2> QED
    BY <1>6, <2>1, <2>3
<1>12. ASSUME chosen = slice
       PROVE  /\ Cardinality(chosen) <= seats
              /\ chosen = S \/ Cardinality(chosen) = seats
              /\ \A a \in chosen, b \in S \ chosen : pos[a] < pos[b]
  BY <1>5, <1>8, <1>9, <1>10, <1>12
<1> QED
  BY <1>11, <1>12

\* A finite set has finitely many values under a function.
LEMMA FiniteImage ==
  ASSUME NEW S, IsFiniteSet(S), NEW f
  PROVE  IsFiniteSet({f[s] : s \in S})
<1> DEFINE T == {f[s] : s \in S}
           g == [s \in S |-> f[s]]
<1>1. g \in Surjection(S, T)
  BY DEF Surjection
<1> HIDE DEF g, T
<1>2. IsFiniteSet(T)
  BY <1>1, FS_Surjection
<1> QED
  BY <1>2 DEF T

-----------------------------------------------------------------------------
(* Who moves up, and with which ticket.                                    *)

\* A queue: ids, each of which holds a ticket or none.
Queue(S, ticket) ==
  /\ S \subseteq Nat /\ IsFiniteSet(S)
  /\ \A r \in S : ticket[r] \in Nat \cup {Null}

BeforeIn(S, ticket) == {p \in S \X S : Before(ticket, p[1], p[2])}

\* The comparator of inQueueOrder is a total order, whatever tickets are missing or
\* doubled.
LEMMA QueueOrder ==
  ASSUME NEW S, NEW ticket, Queue(S, ticket)
  PROVE  /\ Orders(BeforeIn(S, ticket), S)
         /\ \A a, b \in S : <<a, b>> \in BeforeIn(S, ticket) <=> Before(ticket, a, b)
<1>1. \A a, b \in S : <<a, b>> \in BeforeIn(S, ticket) <=> Before(ticket, a, b)
  BY DEF BeforeIn
<1>2. \A r \in S : r \in Int /\ ticket[r] \in Int /\ (ticket[r] = Null \/ ticket[r] >= 0)
  BY DEF Queue, Null
<1>3. \A a \in S : ~Before(ticket, a, a)
  BY <1>2 DEF Before, Null
<1>4. \A a, b \in S : a # b => Before(ticket, a, b) \/ Before(ticket, b, a)
  BY <1>2 DEF Before, Null
<1>5. \A a, b, c \in S : Before(ticket, a, b) /\ Before(ticket, b, c) => Before(ticket, a, c)
  BY <1>2 DEF Before, Null
<1> QED
  BY <1>1, <1>3, <1>4, <1>5 DEF Orders, Queue

\* The positions that the comparator gives.
QueuePlaces(S, ticket) == Places(BeforeIn(S, ticket), S)

\* They rank the queue, and compare as the comparator does.
LEMMA QueueRanked ==
  ASSUME NEW S, NEW ticket, Queue(S, ticket)
  PROVE  /\ Ranked(S, QueuePlaces(S, ticket))
         /\ \A a, b \in S : Before(ticket, a, b) <=>
              QueuePlaces(S, ticket)[a] < QueuePlaces(S, ticket)[b]
  BY QueueOrder, PlacesRank DEF QueuePlaces

\* A queue that is not empty has a front.
LEMMA FrontExists ==
  ASSUME NEW S, NEW ticket, Queue(S, ticket), S # {}
  PROVE  \E r \in S : \A s \in S \ {r} : Before(ticket, r, s)
  BY QueueRanked, Extremes

\* There is exactly one set of people to promote: the front of the sorted queue.
LEMMA SelectionIsFront ==
  ASSUME NEW S, NEW ticket, Queue(S, ticket), NEW seats \in Nat,
         NEW q, Lists(q, S, QueuePlaces(S, ticket))
  PROVE  selectForPromotion(S, ticket, seats) =
           {{q[i] : i \in {j \in 1..Cardinality(S) : j <= seats}}}
<1> DEFINE pos == QueuePlaces(S, ticket)
           slice == {q[i] : i \in {j \in 1..Cardinality(S) : j <= seats}}
           Front(chosen) == /\ Cardinality(chosen) <= seats
                            /\ chosen = S \/ Cardinality(chosen) = seats
                            /\ \A a \in chosen, b \in S \ chosen : pos[a] < pos[b]
<1>1. Ranked(S, pos) /\ \A a, b \in S : Before(ticket, a, b) <=> pos[a] < pos[b]
  BY QueueRanked
<1>2. \A chosen \in SUBSET S : Front(chosen) <=> chosen = slice
  BY <1>1, SliceIsFront
<1>3. \A chosen \in SUBSET S :
        chosen \in selectForPromotion(S, ticket, seats) <=> Front(chosen)
  BY <1>1 DEF selectForPromotion
<1>4. slice \in SUBSET S
  BY DEF Lists
<1>5. selectForPromotion(S, ticket, seats) \subseteq SUBSET S
  BY DEF selectForPromotion
<1> HIDE DEF slice, Front
<1> QED
  BY <1>2, <1>3, <1>4, <1>5 DEF slice

\* A promotion always finds its choice.
LEMMA SelectionExists ==
  ASSUME NEW S, NEW ticket, Queue(S, ticket), NEW seats \in Nat
  PROVE  selectForPromotion(S, ticket, seats) # {}
<1>1. PICK q : Lists(q, S, QueuePlaces(S, ticket))
  BY QueueRanked, ListExists
<1>2. selectForPromotion(S, ticket, seats) =
        {{q[i] : i \in {j \in 1..Cardinality(S) : j <= seats}}}
  BY <1>1, SelectionIsFront
<1> QED
  BY <1>2

\* There is one next ticket: the one past the highest.
LEMMA NextTicket ==
  ASSUME NEW tickets \in SUBSET Nat, IsFiniteSet(tickets)
  PROVE  \E next \in Nat : /\ nextWaitlistPosition(tickets) = {next}
                           /\ next > 0 /\ \A t \in tickets : t < next
<1> DEFINE held == {0} \cup tickets
           value == [t \in held |-> t]
<1>1. IsFiniteSet(held) /\ held \subseteq Nat
  BY FS_AddElement
<1>2. Ranked(held, value)
  BY <1>1 DEF Ranked
<1> HIDE DEF value
<1>3. PICK highest \in held : \A t \in held \ {highest} : value[t] < value[highest]
  <2> DEFINE S == held
  <2>1. Ranked(S, value) /\ S # {}
    BY <1>2
  <2> HIDE DEF S
  <2>2. \E last \in S : \A s \in S \ {last} : value[s] < value[last]
    BY <2>1, Extremes
  <2> QED
    BY <2>2 DEF S
<1>4. highest \in Nat /\ \A t \in held : t <= highest
  <2>1. \A t \in held : value[t] = t
    BY DEF value
  <2>2. \A t \in held : t = highest \/ t < highest
    BY <1>3, <2>1
  <2> HIDE DEF held
  <2> QED
    BY <1>1, <2>2
<1>5. {t \in held : \A u \in tickets : u <= t} = {highest}
  <2>1. \A t \in held : (\A u \in tickets : u <= t) => t = highest
    BY <1>1, <1>4
  <2> QED
    BY <1>4, <2>1
<1>6. nextWaitlistPosition(tickets) = {highest + 1}
  BY <1>5 DEF nextWaitlistPosition
<1> QED
  BY <1>4, <1>6
=============================================================================
