-------------------------- MODULE SliceWalkProofs ---------------------------
(***************************************************************************)
(* What a client's slices amount to, for any number of rows, clients and   *)
(* processes of the server, and any sizes of slices.                       *)
(***************************************************************************)
EXTENDS SliceWalk, TLAPS, FiniteSetTheorems, SequenceTheorems

-----------------------------------------------------------------------------
(* The order of the rows.                                                  *)

LEMMA ConstantTypes ==
    /\ Kinds \subseteq {"objects", "log"}
    /\ Times \subseteq Nat /\ MaxId \in Nat /\ MaxSteps \in Nat
    /\ MaxSlice \in Nat /\ MaxSlice > 0
    /\ \A c \in Client : PageSize[c] \in Nat /\ PageSize[c] > 0
    /\ None \notin Row /\ None \notin Nat /\ None \notin Process
    /\ \A r \in Row : r.ts \in Nat /\ r.id \in Nat
    /\ Position \subseteq Nat
  <1>1. /\ Kinds \subseteq {"objects", "log"} /\ Times \subseteq Nat /\ MaxId \in Nat /\ MaxSteps \in Nat
        /\ MaxSlice \in Nat /\ MaxSlice > 0
    BY SliceConstants
  <1>2. \A c \in Client : PageSize[c] \in Nat /\ PageSize[c] > 0
    BY SliceConstants
  <1>3. None \notin Row /\ None \notin Nat /\ None \notin Process
    BY SliceConstants
  <1>4. ASSUME NEW r \in Row PROVE r.ts \in Nat /\ r.id \in Nat
    <2>1. r.ts \in Nat BY <1>1 DEF Row
    <2>2. r.id \in Nat BY <1>1 DEF Row
    <2> QED BY <2>1, <2>2
  <1> QED BY <1>1, <1>2, <1>3, <1>4 DEF Position

Rows(S) ==
    /\ S \subseteq Row /\ IsFiniteSet(S)
    /\ \A r \in S, s \in S : r.id = s.id => r = s

LEMMA BeforeIsOrder ==
    ASSUME NEW S, Rows(S)
    PROVE  \A r \in S, s \in S :
              /\ ~(Before(r, s) /\ Before(s, r))
              /\ ~Before(r, r)
              /\ r = s \/ Before(r, s) \/ Before(s, r)
              /\ \A t \in S : Before(r, s) /\ Before(s, t) => Before(r, t)
  <1>1. \A r \in S : r.ts \in Nat /\ r.id \in Nat
    BY ConstantTypes DEF Rows
  <1> TAKE r \in S, s \in S
  <1>2. r = s \/ Before(r, s) \/ Before(s, r)
    BY <1>1 DEF Rows, Before
  <1>3. ~(Before(r, s) /\ Before(s, r)) /\ ~Before(r, r)
    BY <1>1 DEF Before
  <1>4. \A t \in S : Before(r, s) /\ Before(s, t) => Before(r, t)
    BY <1>1 DEF Before
  <1> QED BY <1>2, <1>3, <1>4

(* The number of rows before r. *)
Rank(S, r) == Cardinality({s \in S : Before(s, r)})

LEMMA RankType ==
    ASSUME NEW S, Rows(S), NEW r \in S
    PROVE  Rank(S, r) \in 0 .. (Cardinality(S) - 1)
  <1> DEFINE T == {s \in S : Before(s, r)}
  <1>1. r \notin T BY BeforeIsOrder
  <1>2. /\ IsFiniteSet(T) /\ Cardinality(T) <= Cardinality(S)
        /\ Cardinality(S) = Cardinality(T) => S = T
    <2>1. T \in SUBSET S OBVIOUS
    <2> QED BY <2>1, FS_Subset DEF Rows
  <1>3. Cardinality(T) \in Nat /\ Cardinality(S) \in Nat
    BY <1>2, FS_CardinalityType DEF Rows
  <1> QED BY <1>1, <1>2, <1>3 DEF Rank

LEMMA RankIncreases ==
    ASSUME NEW S, Rows(S), NEW r \in S, NEW s \in S, Before(r, s)
    PROVE  Rank(S, r) < Rank(S, s)
  <1> DEFINE T == {x \in S : Before(x, r)}
             U == {x \in S : Before(x, s)}
  <1>1. T \in SUBSET U BY BeforeIsOrder
  <1>2. r \in U /\ r \notin T BY BeforeIsOrder
  <1>3. U \in SUBSET S OBVIOUS
  <1>4. IsFiniteSet(U) BY <1>3, FS_Subset DEF Rows
  <1>5. /\ IsFiniteSet(T) /\ Cardinality(T) <= Cardinality(U)
        /\ Cardinality(U) = Cardinality(T) => U = T
    BY <1>1, <1>4, FS_Subset
  <1>6. Cardinality(T) \in Nat /\ Cardinality(U) \in Nat
    BY <1>4, <1>5, FS_CardinalityType
  <1> QED BY <1>2, <1>5, <1>6 DEF Rank

LEMMA SameRank ==
    ASSUME NEW S, Rows(S), NEW r \in S, NEW s \in S, Rank(S, r) = Rank(S, s)
    PROVE  r = s
  <1>1. ASSUME Before(r, s) PROVE FALSE BY <1>1, RankIncreases, RankType
  <1>2. ASSUME Before(s, r) PROVE FALSE BY <1>2, RankIncreases, RankType
  <1> QED BY <1>1, <1>2, BeforeIsOrder

(* Ordered(S) has the rows of S, each once and in their order. *)
LEMMA OrderedIs ==
    ASSUME NEW S, Rows(S)
    PROVE  /\ Cardinality(S) \in Nat
           /\ Ordered(S) \in [1 .. Cardinality(S) -> S]
           /\ Increasing(Ordered(S))
  <1> DEFINE n == Cardinality(S)
             f == [r \in S |-> Rank(S, r) + 1]
             o == [i \in 1 .. n |-> CHOOSE r \in S : f[r] = i]
  <1>0. n \in Nat BY FS_CardinalityType DEF Rows
  <1>1. f \in Injection(S, 1 .. n)
    <2>1. f \in [S -> 1 .. n] BY <1>0, RankType
    <2>2. \A r \in S, s \in S : f[r] = f[s] => r = s
      BY <1>0, RankType, SameRank
    <2> QED BY <2>1, <2>2 DEF Injection, IsInjective
  <1>2. IsFiniteSet(1 .. n) /\ Cardinality(1 .. n) = n
    BY <1>0, FS_Interval
  <1>3. f \in Surjection(S, 1 .. n)
    <2> HIDE DEF f, n
    <2> QED BY <1>1, <1>2, FS_Injection DEF n
  <1>4. \A i \in 1 .. n : \E r \in S : f[r] = i BY <1>3 DEF Surjection
  <1>5. \A i \in 1 .. n : o[i] \in S /\ Rank(S, o[i]) + 1 = i
    <2> HIDE DEF n
    <2> QED BY <1>4
  <1>6. o \in [1 .. n -> S] BY <1>5
  <1>7. \A i \in 1 .. n, j \in 1 .. n : i < j => Before(o[i], o[j])
    <2> TAKE i \in 1 .. n, j \in 1 .. n
    <2> HAVE i < j
    <2>1. /\ o[i] \in S /\ o[j] \in S
          /\ Rank(S, o[i]) + 1 = i /\ Rank(S, o[j]) + 1 = j
      BY <1>5
    <2> HIDE DEF o
    <2>2. ASSUME Before(o[j], o[i]) PROVE FALSE
      BY <2>1, <2>2, RankIncreases, RankType
    <2>3. o[i] # o[j] BY <2>1, RankType
    <2> QED BY <2>1, <2>2, <2>3, BeforeIsOrder
  <1>8. Increasing(o) BY <1>6, <1>7 DEF Increasing
  <1> HIDE DEF o, n
  <1>9. \E q \in [1 .. n -> S] : Increasing(q) BY <1>6, <1>8
  <1> QED BY <1>0, <1>9 DEF Ordered, n

(* A sequence in order is one-to-one. *)
LEMMA IncreasingInjective ==
    ASSUME NEW S, Rows(S), NEW n \in Nat, NEW q \in [1 .. n -> S], Increasing(q)
    PROVE  /\ q \in Injection(1 .. n, S)
           /\ n <= Cardinality(S)
           /\ n = Cardinality(S) => \A r \in S : \E i \in 1 .. n : q[i] = r
  <1>1. \A i \in 1 .. n, j \in 1 .. n : q[i] = q[j] => i = j
    <2> SUFFICES ASSUME NEW i \in 1 .. n, NEW j \in 1 .. n, q[i] = q[j], i < j PROVE FALSE
      OBVIOUS
    <2>1. Before(q[i], q[j]) BY DEF Increasing
    <2> QED BY <2>1, BeforeIsOrder
  <1>2. q \in Injection(1 .. n, S) BY <1>1 DEF Injection, IsInjective
  <1>3. Cardinality(1 .. n) = n BY FS_Interval
  <1>4. /\ Cardinality(1 .. n) <= Cardinality(S)
        /\ Cardinality(1 .. n) = Cardinality(S) <=> q \in Surjection(1 .. n, S)
    BY <1>2, FS_Injection DEF Rows
  <1> QED BY <1>2, <1>3, <1>4 DEF Surjection

(* Only one sequence has all rows in order. *)
LEMMA PlaceIsRank ==
    ASSUME NEW S, Rows(S), NEW q \in [1 .. Cardinality(S) -> S], Increasing(q),
           NEW i \in 1 .. Cardinality(S)
    PROVE  Rank(S, q[i]) = i - 1
  <1> DEFINE n == Cardinality(S)
             T == {s \in S : Before(s, q[i])}
             f == [j \in 1 .. i - 1 |-> q[j]]
  <1>0. n \in Nat BY FS_CardinalityType DEF Rows
  <1>1. \A r \in S : \E j \in 1 .. n : q[j] = r
    BY <1>0, IncreasingInjective
  <1>2. \A j \in 1 .. n : j < i <=> Before(q[j], q[i])
    <2> TAKE j \in 1 .. n
    <2>1. CASE j < i BY <2>1 DEF Increasing
    <2>2. CASE j = i BY <2>2, BeforeIsOrder
    <2>3. CASE i < j
      <3>1. Before(q[i], q[j]) BY <2>3 DEF Increasing
      <3> QED BY <2>3, <3>1, BeforeIsOrder
    <2> QED BY <1>0, <2>1, <2>2, <2>3
  <1>3. f \in [1 .. i - 1 -> T] BY <1>0, <1>2
  <1>4. f \in Surjection(1 .. i - 1, T)
    <2>1. \A t \in T : \E j \in 1 .. i - 1 : f[j] = t
      <3> TAKE t \in T
      <3>1. PICK j \in 1 .. n : q[j] = t BY <1>1
      <3>2. j < i BY <3>1, <1>2
      <3>3. j \in 1 .. i - 1 BY <1>0, <3>2
      <3> QED BY <3>1, <3>3
    <2> QED BY <1>3, <2>1 DEF Surjection
  <1>5. f \in Injection(1 .. i - 1, T)
    <2>1. \A j \in 1 .. i - 1, k \in 1 .. i - 1 : f[j] = f[k] => j = k
      <3>1. \A j \in 1 .. n, k \in 1 .. n : q[j] = q[k] => j = k
        <4>1. q \in Injection(1 .. n, S) BY <1>0, IncreasingInjective
        <4> QED BY <4>1 DEF Injection, IsInjective
      <3> QED BY <1>0, <3>1
    <2> QED BY <1>3, <2>1 DEF Injection, IsInjective
  <1>6. IsFiniteSet(1 .. i - 1) /\ Cardinality(1 .. i - 1) = i - 1
    BY FS_Interval
  <1>7. Cardinality(T) = i - 1
    <2> HIDE DEF f, T
    <2> QED BY <1>4, <1>5, <1>6, FS_Surjection
  <1> QED BY <1>7 DEF Rank

LEMMA OrderedUnique ==
    ASSUME NEW S, Rows(S), NEW q \in [1 .. Cardinality(S) -> S], Increasing(q)
    PROVE  q = Ordered(S)
  <1>1. Ordered(S) \in [1 .. Cardinality(S) -> S] /\ Increasing(Ordered(S)) BY OrderedIs
  <1>2. SUFFICES ASSUME NEW o \in [1 .. Cardinality(S) -> S], Increasing(o)
                 PROVE  q = o
    BY <1>1
  <1>3. ASSUME NEW i \in 1 .. Cardinality(S) PROVE q[i] = o[i]
    <2>1. Rank(S, q[i]) = i - 1 /\ Rank(S, o[i]) = i - 1 BY <1>2, PlaceIsRank
    <2> QED BY <1>2, <2>1, SameRank
  <1>4. Cardinality(S) \in Nat BY OrderedIs
  <1> QED BY <1>3, <1>4

(* A row after all others follows their sequence. *)
LEMMA OrderedExtends ==
    ASSUME NEW S, NEW x, Rows(S \cup {x}), x \notin S, \A r \in S : Before(r, x)
    PROVE  /\ Rows(S) /\ Cardinality(S \cup {x}) = Cardinality(S) + 1
           /\ \A i \in 1 .. Cardinality(S) : Ordered(S \cup {x})[i] = Ordered(S)[i]
  <1> DEFINE n == Cardinality(S)
             T == S \cup {x}
             o == Ordered(S)
             q == [i \in 1 .. n + 1 |-> IF i <= n THEN o[i] ELSE x]
  <1>1. IsFiniteSet(S)
    <2>1. S \in SUBSET (S \cup {x}) OBVIOUS
    <2> QED BY <2>1, FS_Subset DEF Rows
  <1>2. Rows(S) BY <1>1 DEF Rows
  <1>3. n \in Nat /\ o \in [1 .. n -> S] /\ Increasing(o) BY <1>2, OrderedIs
  <1>4. Cardinality(T) = n + 1 BY <1>1, FS_AddElement
  <1>5. q \in [1 .. n + 1 -> T] BY <1>3
  <1>6. \A i \in 1 .. n + 1, j \in 1 .. n + 1 : i < j => Before(q[i], q[j])
    <2> TAKE i \in 1 .. n + 1, j \in 1 .. n + 1
    <2> HAVE i < j
    <2>1. i \in 1 .. n /\ o[i] \in S /\ q[i] = o[i] BY <1>3
    <2>2. CASE j = n + 1
      <3>1. q[j] = x BY <1>3, <2>2
      <3> QED BY <2>1, <3>1
    <2>3. CASE j # n + 1
      <3>1. j \in 1 .. n /\ q[j] = o[j] BY <1>3, <2>3
      <3>2. Before(o[i], o[j]) BY <1>3, <2>1, <3>1 DEF Increasing
      <3> QED BY <2>1, <3>1, <3>2
    <2> QED BY <2>2, <2>3
  <1>7. Increasing(q) BY <1>5, <1>6 DEF Increasing
  <1>8. q = Ordered(T) BY <1>4, <1>5, <1>7, OrderedUnique
  <1>9. ASSUME NEW i \in 1 .. n PROVE Ordered(T)[i] = o[i]
    <2>1. q[i] = o[i] BY <1>3
    <2> QED BY <1>8, <2>1
  <1> QED BY <1>2, <1>4, <1>9

(* The rows after the k-th are the rest of the sequence. *)
LEMMA OrderedAfter ==
    ASSUME NEW S, Rows(S), NEW k \in 1 .. Cardinality(S)
    PROVE  LET A == {r \in S : After(r, Ordered(S)[k])}
           IN  /\ Rows(A) /\ Cardinality(A) = Cardinality(S) - k
               /\ \A i \in 1 .. Cardinality(S) - k : Ordered(A)[i] = Ordered(S)[k + i]
  <1> DEFINE n == Cardinality(S)
             o == Ordered(S)
             A == {r \in S : After(r, o[k])}
             q == [i \in 1 .. n - k |-> o[k + i]]
  <1>1. n \in Nat /\ o \in [1 .. n -> S] /\ Increasing(o) BY OrderedIs
  <1>2. \A r \in S : \E j \in 1 .. n : o[j] = r BY <1>1, IncreasingInjective
  <1>3. \A r \in S : After(r, o[k]) <=> Before(o[k], r)
    BY <1>1, ConstantTypes DEF After, Before, Rows
  <1>4. Rows(A)
    <2>1. A \in SUBSET S OBVIOUS
    <2> QED BY <2>1, FS_Subset DEF Rows
  <1>5. \A i \in 1 .. n - k : q[i] = o[k + i] /\ q[i] \in A
    <2> TAKE i \in 1 .. n - k
    <2>1. k + i \in 1 .. n /\ k \in 1 .. n /\ k < k + i BY <1>1
    <2>2. Before(o[k], o[k + i]) BY <1>1, <2>1 DEF Increasing
    <2> QED BY <1>1, <1>3, <2>1, <2>2
  <1>6. q \in [1 .. n - k -> A] BY <1>5
  <1>7. \A i \in 1 .. n - k, j \in 1 .. n - k : i < j => Before(q[i], q[j])
    <2> TAKE i \in 1 .. n - k, j \in 1 .. n - k
    <2> HAVE i < j
    <2>1. k + i \in 1 .. n /\ k + j \in 1 .. n /\ k + i < k + j BY <1>1
    <2>2. Before(o[k + i], o[k + j]) BY <1>1, <2>1 DEF Increasing
    <2> QED BY <1>5, <2>2
  <1>8. Increasing(q) BY <1>6, <1>7 DEF Increasing
  <1>9. n - k \in Nat BY <1>1
  <1>10. q \in Injection(1 .. n - k, A)
    BY <1>4, <1>6, <1>8, <1>9, IncreasingInjective
  <1>11. \A a \in A : \E i \in 1 .. n - k : q[i] = a
    <2> TAKE a \in A
    <2>1. PICK j \in 1 .. n : o[j] = a BY <1>2
    <2>2. Before(o[k], o[j]) BY <1>3, <2>1
    <2>3. ~(j < k)
      <3>1. ASSUME j < k PROVE FALSE
        <4>1. Before(o[j], o[k]) BY <1>1, <2>1, <3>1 DEF Increasing
        <4> QED BY <1>1, <2>1, <2>2, <4>1, BeforeIsOrder
      <3> QED BY <3>1
    <2>4. j # k BY <1>1, <2>1, <2>2, BeforeIsOrder
    <2>5. j - k \in 1 .. n - k /\ k + (j - k) = j BY <1>1, <2>1, <2>3, <2>4
    <2> QED BY <1>5, <2>1, <2>5
  <1>12. q \in Surjection(1 .. n - k, A) BY <1>6, <1>11 DEF Surjection
  <1>13. IsFiniteSet(1 .. n - k) /\ Cardinality(1 .. n - k) = n - k
    <2> DEFINE d == n - k
    <2> HIDE DEF d
    <2>1. d \in Nat /\ d \in Int /\ 1 \in Int BY <1>9 DEF d
    <2>2. IsFiniteSet(1 .. d) /\ Cardinality(1 .. d) = IF 1 > d THEN 0 ELSE d - 1 + 1
      BY <2>1, FS_Interval
    <2>3. IsFiniteSet(1 .. d) /\ Cardinality(1 .. d) = d BY <2>1, <2>2
    <2> QED BY <2>3 DEF d
  <1>14. Cardinality(A) = n - k
    <2> HIDE DEF q, A
    <2> QED BY <1>10, <1>12, <1>13, FS_Surjection
  <1>15. q = Ordered(A)
    <2> HIDE DEF q, A
    <2> QED BY <1>4, <1>6, <1>8, <1>14, OrderedUnique
  <1> QED BY <1>4, <1>5, <1>14, <1>15

-----------------------------------------------------------------------------
(* What the steps do to the walks.                                         *)

LEMMA ListIs ==
    ASSUME NEW S, S \subseteq Row, \A r \in S, s \in S : r.id = s.id => r = s
    PROVE  /\ Rows(S) /\ Cardinality(S) \in Position /\ Cardinality(S) \in Nat
           /\ Ordered(S) \in [1 .. Cardinality(S) -> S] /\ Increasing(Ordered(S))
           /\ Ordered(S) \in Seq(Row) /\ Len(Ordered(S)) = Cardinality(S)
  <1> DEFINE f == [r \in S |-> r.id]
             n == Cardinality(S)
  <1>1. f \in [S -> 1 .. MaxId] BY DEF Row
  <1>2. f \in Injection(S, 1 .. MaxId) BY <1>1 DEF Injection, IsInjective
  <1>3. IsFiniteSet(1 .. MaxId) /\ Cardinality(1 .. MaxId) = MaxId
    BY FS_Interval, ConstantTypes
  <1>4. IsFiniteSet(S) /\ n <= MaxId
    <2> HIDE DEF f
    <2> QED BY <1>2, <1>3, FS_Injection
  <1>5. Rows(S) BY <1>4 DEF Rows
  <1>6. n \in Nat /\ Ordered(S) \in [1 .. n -> S] /\ Increasing(Ordered(S))
    BY <1>5, OrderedIs
  <1>7. n \in Position BY <1>4, <1>6, ConstantTypes DEF Position
  <1> HIDE DEF n
  <1>8. Ordered(S) \in [1 .. n -> Row] BY <1>6
  <1>9. Ordered(S) \in Seq(Row) /\ Len(Ordered(S)) = n BY <1>6, <1>8
  <1> QED BY <1>5, <1>6, <1>7, <1>9 DEF n

LEMMA RowsAre ==
    ASSUME TypeOK, RowsSound
    PROVE  /\ Rows(rows) /\ Total \in Position /\ Total \in Nat
           /\ Ordered(rows) \in [1 .. Total -> rows] /\ Increasing(Ordered(rows))
           /\ Ordered(rows) \in Seq(Row) /\ Len(Ordered(rows)) = Total
  BY ListIs DEF TypeOK, RowsSound, Total

LEMMA RowsAfterStep ==
    ASSUME SliceInv'
    PROVE  /\ Rows(rows') /\ Total' \in Nat
           /\ Ordered(rows') \in Seq(Row) /\ Len(Ordered(rows')) = Total'
  BY ListIs DEF SliceInv, TypeOK, RowsSound, Total

(* A walk that makes no step keeps its request. *)
Kept(c) ==
    /\ walk'[c].phase = walk[c].phase /\ walk'[c].start = walk[c].start
    /\ walk'[c].total = walk[c].total /\ walk'[c].got = walk[c].got
    /\ walk'[c].process = walk[c].process /\ walk'[c].count = walk[c].count
    /\ walk'[c].counted = walk[c].counted /\ walk'[c].last = walk[c].last
    /\ walk'[c].slice = walk[c].slice /\ walk'[c].switched = walk[c].switched

LEMMA DisturbedIs ==
    ASSUME NEW w \in Walk
    PROVE  /\ Disturbed(w) \in Walk
           /\ Disturbed(w).phase = w.phase /\ Disturbed(w).start = w.start
           /\ Disturbed(w).total = w.total /\ Disturbed(w).got = w.got
           /\ Disturbed(w).process = w.process /\ Disturbed(w).count = w.count
           /\ Disturbed(w).counted = w.counted /\ Disturbed(w).last = w.last
           /\ Disturbed(w).slice = w.slice /\ Disturbed(w).switched = w.switched
           /\ Disturbed(w).disturbed
  BY DEF Disturbed, Walk

(* A step of c's: the other clients' walks are disturbed. *)
Others(c) ==
    \A d \in Client \ {c} : Kept(d) /\ (Active(d) => walk'[d].disturbed)

LEMMA NoticeIs ==
    ASSUME walk \in [Client -> Walk], NEW c \in Client,
           NEW w \in [Client -> Walk], \A d \in Client \ {c} : w[d] = walk[d],
           walk' = Notice(w, c)
    PROVE  walk' \in [Client -> Walk] /\ walk'[c] = w[c] /\ Others(c)
  <1>1. \A d \in Client : Notice(w, c)[d] = IF d # c /\ Active(d) THEN Disturbed(w[d]) ELSE w[d]
    BY DEF Notice
  <1>2. walk'[c] = w[c] BY <1>1
  <1>3. \A d \in Client : Disturbed(w[d]) \in Walk BY DisturbedIs
  <1>4. walk' \in [Client -> Walk] BY <1>3 DEF Notice
  <1>5. ASSUME NEW d \in Client \ {c} PROVE Kept(d) /\ (Active(d) => walk'[d].disturbed)
    <2>1. w[d] = walk[d] /\ w[d] \in Walk OBVIOUS
    <2>2. CASE Active(d)
      <3>1. walk'[d] = Disturbed(walk[d]) BY <1>1, <2>1, <2>2
      <3> QED BY <2>1, <3>1, DisturbedIs DEF Kept
    <2>3. CASE ~Active(d)
      <3>1. walk'[d] = walk[d] BY <1>1, <2>1, <2>3
      <3> QED BY <2>3, <3>1 DEF Kept
    <2> QED BY <2>2, <2>3
  <1> QED BY <1>2, <1>4, <1>5 DEF Others

(* A change of the rows or the cache: the walks note it. *)
LEMMA StoredOrGone ==
    ASSUME TypeOK, Insert \/ Delete
    PROVE  /\ walk' \in [Client -> Walk] /\ steps' \in 0 .. MaxSteps
           /\ UNCHANGED <<kind, cache>>
           /\ \A c \in Client : Kept(c) /\ (Active(c) => walk'[c].disturbed)
  <1>0. walk \in [Client -> Walk] /\ steps \in 0 .. MaxSteps BY DEF TypeOK
  <1>1. /\ walk' = [c \in Client |->
                     IF ~Active(c) \/ walk[c].disturbed THEN walk[c] ELSE Disturbed(walk[c])]
        /\ steps < MaxSteps /\ steps' = steps + 1 /\ UNCHANGED <<kind, cache>>
    BY DEF Insert, Delete, Change
  <1>2. walk' \in [Client -> Walk] BY <1>0, <1>1, DisturbedIs
  <1>3. ASSUME NEW c \in Client
        PROVE  Kept(c) /\ (Active(c) => walk'[c].disturbed)
    <2>1. CASE ~Active(c) \/ walk[c].disturbed
      <3>1. walk'[c] = walk[c] BY <1>1, <2>1
      <3> QED BY <2>1, <3>1 DEF Kept
    <2>2. CASE ~(~Active(c) \/ walk[c].disturbed)
      <3>1. walk'[c] = Disturbed(walk[c]) BY <1>1, <2>2
      <3> QED BY <1>0, <3>1, DisturbedIs DEF Kept
    <2> QED BY <2>1, <2>2
  <1> QED BY <1>0, <1>1, <1>2, <1>3, ConstantTypes

(* A row gets a later time stamp. *)
TouchedAs(r, t) ==
    /\ r \in rows /\ t \in Times
    /\ \A s \in rows : s.ts < t
    /\ rows' = (rows \ {r}) \cup {[r EXCEPT !.ts = t]}
    /\ \A c \in Client : Active(c) =>
          \/ walk'[c].disturbed
          \/ /\ ~walk[c].disturbed /\ ~walk[c].expired
             /\ walk'[c].moved = walk[c].moved \cup {r.id}

LEMMA TouchIs ==
    ASSUME TypeOK, Touch
    PROVE  /\ walk' \in [Client -> Walk] /\ steps' \in 0 .. MaxSteps
           /\ kind = "objects" /\ UNCHANGED <<kind, lastId, cache>> /\ ~appendOnly'
           /\ \A c \in Client : Kept(c)
           /\ \E r \in rows, t \in Times : TouchedAs(r, t)
  <1>0. walk \in [Client -> Walk] /\ steps \in 0 .. MaxSteps /\ rows \subseteq Row
    BY DEF TypeOK
  <1>1. PICK r \in rows, t \in Times :
          /\ \A s \in rows : s.ts < t
          /\ rows' = (rows \ {r}) \cup {[r EXCEPT !.ts = t]}
          /\ Change(LAMBDA w : IF w.expired THEN Disturbed(w)
                               ELSE [w EXCEPT !.moved = @ \cup {r.id}])
    BY DEF Touch
  <1> DEFINE N(w) == IF w.expired THEN Disturbed(w) ELSE [w EXCEPT !.moved = @ \cup {r.id}]
  <1>2. /\ walk' = [c \in Client |->
                     IF ~Active(c) \/ walk[c].disturbed THEN walk[c] ELSE N(walk[c])]
        /\ steps < MaxSteps /\ steps' = steps + 1 /\ UNCHANGED kind
    BY <1>1 DEF Change
  <1>3. r.id \in 1 .. MaxId BY <1>0 DEF Row
  <1>4. ASSUME NEW w \in Walk, ~w.expired
        PROVE  /\ N(w) \in Walk
               /\ N(w).phase = w.phase /\ N(w).start = w.start /\ N(w).total = w.total
               /\ N(w).got = w.got /\ N(w).process = w.process /\ N(w).count = w.count
               /\ N(w).counted = w.counted /\ N(w).last = w.last /\ N(w).slice = w.slice
               /\ N(w).switched = w.switched
               /\ N(w).moved = w.moved \cup {r.id}
    <2>1. N(w) = [w EXCEPT !.moved = @ \cup {r.id}] BY <1>4
    <2> HIDE DEF N
    <2> QED BY <1>3, <2>1 DEF Walk
  <1>5. ASSUME NEW w \in Walk, w.expired PROVE N(w) = Disturbed(w)
    BY <1>5
  <1> HIDE DEF N
  <1>6. ASSUME NEW c \in Client
        PROVE  /\ walk'[c] \in Walk /\ Kept(c)
               /\ Active(c) => \/ walk'[c].disturbed
                               \/ /\ ~walk[c].disturbed /\ ~walk[c].expired
                                  /\ walk'[c].moved = walk[c].moved \cup {r.id}
    <2>0. walk[c] \in Walk BY <1>0
    <2>1. CASE ~Active(c) \/ walk[c].disturbed
      <3>1. walk'[c] = walk[c] BY <1>2, <2>1
      <3> QED BY <2>0, <2>1, <3>1 DEF Kept
    <2>2. CASE ~(~Active(c) \/ walk[c].disturbed) /\ walk[c].expired
      <3>1. walk'[c] = N(walk[c]) BY <1>2, <2>2
      <3>2. walk'[c] = Disturbed(walk[c]) BY <1>5, <2>0, <2>2, <3>1
      <3> QED BY <2>0, <3>2, DisturbedIs DEF Kept
    <2>3. CASE ~(~Active(c) \/ walk[c].disturbed) /\ ~walk[c].expired
      <3>1. walk'[c] = N(walk[c]) BY <1>2, <2>3
      <3> QED BY <1>4, <2>0, <2>3, <3>1 DEF Kept
    <2> QED BY <2>1, <2>2, <2>3
  <1>7. walk' \in [Client -> Walk] BY <1>2, <1>6
  <1>8. steps' \in 0 .. MaxSteps BY <1>0, <1>2, ConstantTypes
  <1>9. kind = "objects" /\ UNCHANGED <<kind, lastId, cache>> /\ ~appendOnly'
    BY <1>2 DEF Touch
  <1>10. TouchedAs(r, t) BY <1>1, <1>6 DEF TouchedAs
  <1> QED BY <1>6, <1>7, <1>8, <1>9, <1>10

(* A cache entry is gone. *)
LEMMA ExpireIs ==
    ASSUME TypeOK, Expire
    PROVE  /\ walk' \in [Client -> Walk] /\ steps' \in 0 .. MaxSteps
           /\ cache' \in [Process -> [Position \X Position -> Row \cup {None}]]
           /\ \A p \in Process, k \in Position \X Position : cache'[p][k] \in {None, cache[p][k]}
           /\ UNCHANGED <<kind, rows, lastId, appendOnly>>
           /\ \A c \in Client :
                 /\ Kept(c)
                 /\ Active(c) => \/ walk'[c].disturbed
                                 \/ /\ ~walk[c].disturbed /\ walk[c].moved = {}
                                    /\ walk'[c].expired
  <1> DEFINE N(w) == IF w.moved # {} THEN Disturbed(w) ELSE [w EXCEPT !.expired = TRUE]
  <1>0. /\ walk \in [Client -> Walk] /\ steps \in 0 .. MaxSteps
        /\ cache \in [Process -> [Position \X Position -> Row \cup {None}]]
    BY DEF TypeOK
  <1>1. PICK p \in Process, k \in Position \X Position :
          cache' = [cache EXCEPT ![p][k] = None]
    BY DEF Expire
  <1>2. /\ walk' = [c \in Client |->
                     IF ~Active(c) \/ walk[c].disturbed THEN walk[c] ELSE N(walk[c])]
        /\ steps < MaxSteps /\ steps' = steps + 1
        /\ UNCHANGED <<kind, rows, lastId, appendOnly>>
    BY DEF Expire, Change
  <1>3. ASSUME NEW w \in Walk, w.moved = {}
        PROVE  /\ N(w) \in Walk
               /\ N(w).phase = w.phase /\ N(w).start = w.start /\ N(w).total = w.total
               /\ N(w).got = w.got /\ N(w).process = w.process /\ N(w).count = w.count
               /\ N(w).counted = w.counted /\ N(w).last = w.last /\ N(w).slice = w.slice
               /\ N(w).switched = w.switched
               /\ N(w).expired
    <2>1. N(w) = [w EXCEPT !.expired = TRUE] BY <1>3
    <2> HIDE DEF N
    <2> QED BY <2>1 DEF Walk
  <1>4. ASSUME NEW w \in Walk, w.moved # {} PROVE N(w) = Disturbed(w)
    BY <1>4
  <1> HIDE DEF N
  <1>5. ASSUME NEW c \in Client
        PROVE  /\ walk'[c] \in Walk /\ Kept(c)
               /\ Active(c) => \/ walk'[c].disturbed
                               \/ /\ ~walk[c].disturbed /\ walk[c].moved = {}
                                  /\ walk'[c].expired
    <2>0. walk[c] \in Walk BY <1>0
    <2>1. CASE ~Active(c) \/ walk[c].disturbed
      <3>1. walk'[c] = walk[c] BY <1>2, <2>1
      <3> QED BY <2>0, <2>1, <3>1 DEF Kept
    <2>2. CASE ~(~Active(c) \/ walk[c].disturbed) /\ walk[c].moved # {}
      <3>1. walk'[c] = N(walk[c]) BY <1>2, <2>2
      <3>2. walk'[c] = Disturbed(walk[c]) BY <1>4, <2>0, <2>2, <3>1
      <3> QED BY <2>0, <3>2, DisturbedIs DEF Kept
    <2>3. CASE ~(~Active(c) \/ walk[c].disturbed) /\ walk[c].moved = {}
      <3>1. walk'[c] = N(walk[c]) BY <1>2, <2>3
      <3> QED BY <1>3, <2>0, <2>3, <3>1 DEF Kept
    <2> QED BY <2>1, <2>2, <2>3
  <1>6. walk' \in [Client -> Walk] BY <1>2, <1>5
  <1>7. steps' \in 0 .. MaxSteps BY <1>0, <1>2, ConstantTypes
  <1>8. /\ cache' \in [Process -> [Position \X Position -> Row \cup {None}]]
        /\ \A q \in Process, l \in Position \X Position : cache'[q][l] \in {None, cache[q][l]}
    BY <1>0, <1>1
  <1> QED BY <1>2, <1>5, <1>6, <1>7, <1>8

(* The client's own steps. *)
LEMMA IdleIs ==
    /\ Idle \in Walk /\ Idle.phase = "idle"
    /\ Idle.got = <<>> /\ Idle.slice = <<>> /\ Idle.start = 0 /\ Idle.total = None
    /\ Idle.moved = {} /\ ~Idle.expired
  BY ConstantTypes DEF Idle, Walk, Phases, Position

(* What has been noted of a walk stays. *)
SameNotes(v, w) ==
    /\ v.moved = w.moved /\ (v.expired <=> w.expired) /\ (v.disturbed <=> w.disturbed)
    /\ w.switched => v.switched

LEMMA AskIs ==
    ASSUME NEW w \in Walk, NEW start \in Position, NEW v \in Ask(w, start)
    PROVE  /\ v \in Walk /\ v.phase = "next" /\ v.start = start /\ v.process \in Process
           /\ v.last = None /\ v.slice = <<>>
           /\ v.got = w.got /\ v.total = w.total /\ SameNotes(v, w)
           /\ v.switched \/ w.process \in {None, v.process}
  <1>1. PICK p \in Process :
          v = [w EXCEPT !.phase = "next", !.start = start, !.process = p,
                        !.switched = @ \/ w.process \notin {None, p},
                        !.count = 0, !.counted = 0, !.last = None, !.slice = <<>>]
    BY DEF Ask
  <1>2. 0 \in Position BY ConstantTypes DEF Position
  <1> DEFINE changed == w.switched \/ w.process \notin {None, p}
  <1>3. v \in Walk
    <2>1. /\ w.total \in Position \cup {None} /\ w.got \in Seq(Row)
          /\ w.moved \in SUBSET (1 .. MaxId) /\ w.expired \in BOOLEAN /\ w.disturbed \in BOOLEAN
      BY DEF Walk
    <2>2. v = [phase |-> "next", start |-> start, total |-> w.total, got |-> w.got,
               process |-> p, count |-> 0, counted |-> 0, last |-> None, slice |-> <<>>,
               switched |-> changed,
               moved |-> w.moved, expired |-> w.expired, disturbed |-> w.disturbed]
      BY <1>1 DEF Walk
    <2>3. "next" \in Phases /\ 0 \in Int /\ <<>> \in Seq(Row) BY DEF Phases
    <2>4. changed \in BOOLEAN OBVIOUS
    <2> HIDE DEF changed
    <2> QED BY <1>2, <2>1, <2>2, <2>3, <2>4 DEF Walk
  <1>4. /\ v.phase = "next" /\ v.start = start /\ v.process \in Process /\ v.process = p
        /\ v.last = None /\ v.slice = <<>> /\ v.got = w.got /\ v.total = w.total
        /\ v.switched = changed
    BY <1>1 DEF Walk
  <1>5. v.moved = w.moved /\ v.expired = w.expired /\ v.disturbed = w.disturbed
    BY <1>1 DEF Walk
  <1> QED BY <1>3, <1>4, <1>5 DEF SameNotes

Fresh(w) ==
    /\ w.got = <<>> /\ w.slice = <<>> /\ w.start = 0 /\ w.total = None
    /\ w.moved = {} /\ ~w.expired

LEMMA OpenIs ==
    ASSUME TypeOK, NEW c \in Client, Open(c)
    PROVE  /\ ~Active(c) /\ walk' \in [Client -> Walk] /\ Others(c)
           /\ UNCHANGED <<kind, rows, lastId, appendOnly, cache, steps>>
           /\ Fresh(walk'[c])
           /\ \/ walk'[c].phase = "open" /\ kind = "log"
              \/ /\ walk'[c].phase = "next" /\ kind = "objects"
                 /\ walk'[c].process \in Process
  <1> DEFINE w == [Idle EXCEPT !.phase = "open", !.disturbed = \E d \in Client : InFlight(d)]
  <1>1. PICK next \in IF kind = "log" THEN {w} ELSE Ask(w, 0) :
          walk' = Notice([walk EXCEPT ![c] = next], c)
    BY DEF Open
  <1>2. w \in Walk /\ w.phase = "open" /\ Fresh(w)
    <2>1. (\E d \in Client : InFlight(d)) \in BOOLEAN OBVIOUS
    <2> QED BY <2>1, IdleIs DEF Walk, Phases, Fresh
  <1> HIDE DEF w
  <1>3. kind \in {"objects", "log"} BY ConstantTypes DEF TypeOK
  <1>4. 0 \in Position BY ConstantTypes DEF Position
  <1>5. /\ next \in Walk /\ Fresh(next)
        /\ \/ next.phase = "open" /\ kind = "log"
           \/ next.phase = "next" /\ kind = "objects" /\ next.process \in Process
    <2>1. CASE kind = "log" BY <1>1, <1>2, <2>1
    <2>2. CASE kind # "log"
      <3>1. next \in Ask(w, 0) BY <1>1, <2>2
      <3> QED BY <1>2, <1>3, <1>4, <2>2, <3>1, AskIs DEF Fresh, SameNotes
    <2> QED BY <2>1, <2>2
  <1>6. /\ walk \in [Client -> Walk] /\ [walk EXCEPT ![c] = next] \in [Client -> Walk]
        /\ [walk EXCEPT ![c] = next][c] = next
        /\ \A d \in Client \ {c} : [walk EXCEPT ![c] = next][d] = walk[d]
    BY <1>5 DEF TypeOK
  <1>7. walk' \in [Client -> Walk] /\ walk'[c] = next /\ Others(c)
    BY <1>1, <1>6, NoticeIs
  <1> QED BY <1>5, <1>7 DEF Open

LEMMA GetTotalIs ==
    ASSUME SliceInv, NEW c \in Client, GetTotal(c)
    PROVE  /\ walk[c].phase = "open" /\ kind = "log"
           /\ walk' \in [Client -> Walk] /\ Others(c)
           /\ UNCHANGED <<kind, rows, lastId, appendOnly, cache, steps>>
           /\ walk'[c].phase = "next" /\ walk'[c].process \in Process
           /\ walk'[c].start = 0 /\ walk'[c].total = Total
           /\ walk'[c].got = <<>> /\ walk'[c].slice = <<>>
           /\ SameNotes(walk'[c], walk[c])
  <1>0. /\ walk \in [Client -> Walk] /\ Total \in Position /\ 0 \in Position
        /\ walk[c].phase = "open" /\ kind = "log" /\ walk[c].got = <<>>
    <2>1. Total \in Position BY RowsAre DEF SliceInv
    <2>2. 0 \in Position BY ConstantTypes DEF Position
    <2> QED BY <2>1, <2>2 DEF SliceInv, TypeOK, GetTotal, RequestsSound
  <1>1. PICK next \in Ask([walk[c] EXCEPT !.total = Total], 0) :
          walk' = Notice([walk EXCEPT ![c] = next], c)
    BY DEF GetTotal
  <1>2. [walk[c] EXCEPT !.total = Total] \in Walk BY <1>0 DEF Walk
  <1>3. /\ next \in Walk /\ next.phase = "next" /\ next.start = 0 /\ next.process \in Process
        /\ next.slice = <<>> /\ next.got = <<>> /\ next.total = Total
        /\ SameNotes(next, walk[c])
    <2>1. /\ [walk[c] EXCEPT !.total = Total].total = Total
          /\ [walk[c] EXCEPT !.total = Total].got = <<>>
          /\ SameNotes([walk[c] EXCEPT !.total = Total], walk[c])
      BY <1>0 DEF Walk, SameNotes
    <2> DEFINE u == [walk[c] EXCEPT !.total = Total]
    <2>2. /\ next \in Walk /\ next.phase = "next" /\ next.start = 0 /\ next.process \in Process
          /\ next.slice = <<>> /\ next.got = u.got /\ next.total = u.total /\ SameNotes(next, u)
      <3> HIDE DEF u
      <3>1. u \in Walk /\ next \in Ask(u, 0) BY <1>1, <1>2 DEF u
      <3> QED BY <1>0, <3>1, AskIs
    <2> QED BY <2>1, <2>2 DEF SameNotes
  <1>4. /\ [walk EXCEPT ![c] = next] \in [Client -> Walk]
        /\ [walk EXCEPT ![c] = next][c] = next
        /\ \A d \in Client \ {c} : [walk EXCEPT ![c] = next][d] = walk[d]
    BY <1>0, <1>3
  <1>5. walk' \in [Client -> Walk] /\ walk'[c] = next /\ Others(c)
    BY <1>0, <1>1, <1>4, NoticeIs
  <1> QED BY <1>0, <1>3, <1>5 DEF GetTotal

LEMMA BeginIs ==
    ASSUME SliceInv, NEW c \in Client, BeginRequest(c)
    PROVE  /\ walk[c].phase = "next"
           /\ walk' \in [Client -> Walk] /\ Others(c)
           /\ UNCHANGED <<kind, rows, lastId, appendOnly, cache, steps>>
           /\ \/ InvalidStart(walk[c].start, Total) /\ walk'[c] = Idle
              \/ /\ ~InvalidStart(walk[c].start, Total)
                 /\ walk'[c].phase = "select" /\ walk'[c].counted = Total
                 /\ walk'[c].count = Count(walk[c].start, PageSize[c], Total)
                 /\ walk'[c].last = cache[walk[c].process][Key(walk[c].start, Total)]
                 /\ walk'[c].start = walk[c].start /\ walk'[c].total = walk[c].total
                 /\ walk'[c].got = walk[c].got /\ walk'[c].process = walk[c].process
                 /\ walk'[c].slice = walk[c].slice
                 /\ SameNotes(walk'[c], walk[c])
  <1> DEFINE w == walk[c]
             v == [w EXCEPT !.phase = "select", !.counted = Total,
                            !.count = Count(w.start, PageSize[c], Total),
                            !.last = cache[w.process][Key(w.start, Total)]]
             next == IF InvalidStart(w.start, Total) THEN Idle ELSE v
  <1>0. /\ walk \in [Client -> Walk] /\ w \in Walk /\ Total \in Position /\ Total \in Nat
        /\ w.phase = "next" /\ w.process \in Process
        /\ cache \in [Process -> [Position \X Position -> Row \cup {None}]]
    BY RowsAre DEF SliceInv, TypeOK, BeginRequest, RequestsSound, RequestSound, Walking
  <1>1. walk' = Notice([walk EXCEPT ![c] = next], c)
    BY DEF BeginRequest
  <1>2. w.start \in Position /\ w.start \in Nat BY <1>0, ConstantTypes DEF Walk
  <1>3. Count(w.start, PageSize[c], Total) \in Int
    BY <1>0, <1>2, ConstantTypes DEF Count
  <1>4. cache[w.process][Key(w.start, Total)] \in Row \cup {None}
    BY <1>0, <1>2 DEF Key
  <1>5. /\ v \in Walk /\ v.phase = "select" /\ v.counted = Total
        /\ v.count = Count(w.start, PageSize[c], Total)
        /\ v.last = cache[w.process][Key(w.start, Total)]
        /\ v.start = w.start /\ v.total = w.total /\ v.got = w.got
        /\ v.process = w.process /\ v.slice = w.slice /\ SameNotes(v, w)
    <2> DEFINE n == Count(w.start, PageSize[c], Total)
               l == cache[w.process][Key(w.start, Total)]
    <2>1. n \in Int /\ l \in Row \cup {None} BY <1>3, <1>4
    <2> HIDE DEF n, l
    <2>2. v = [w EXCEPT !.phase = "select", !.counted = Total, !.count = n, !.last = l]
      BY DEF n, l
    <2> HIDE DEF v
    <2>3. /\ v \in Walk /\ v.phase = "select" /\ v.counted = Total /\ v.count = n /\ v.last = l
          /\ v.start = w.start /\ v.total = w.total /\ v.got = w.got
          /\ v.process = w.process /\ v.slice = w.slice /\ SameNotes(v, w)
      BY <1>0, <2>1, <2>2 DEF Walk, Phases, SameNotes
    <2> QED BY <2>3 DEF n, l
  <1> HIDE DEF v
  <1>6. next \in Walk BY <1>5, IdleIs
  <1> HIDE DEF next
  <1>9. /\ [walk EXCEPT ![c] = next] \in [Client -> Walk]
        /\ [walk EXCEPT ![c] = next][c] = next
        /\ \A d \in Client \ {c} : [walk EXCEPT ![c] = next][d] = walk[d]
    BY <1>0, <1>6
  <1>10. walk' \in [Client -> Walk] /\ walk'[c] = next /\ Others(c)
    BY <1>0, <1>1, <1>9, NoticeIs
  <1>11. UNCHANGED <<kind, rows, lastId, appendOnly, cache, steps>> BY DEF BeginRequest
  <1>12. CASE InvalidStart(w.start, Total)
    <2>1. next = Idle BY <1>12 DEF next
    <2> QED BY <1>0, <1>10, <1>11, <1>12, <2>1
  <1>13. CASE ~InvalidStart(w.start, Total)
    <2>1. next = v BY <1>13 DEF next
    <2> QED BY <1>0, <1>5, <1>10, <1>11, <1>13, <2>1
  <1> QED BY <1>12, <1>13

(* The first n members of a sequence. *)
LEMMA FirstOnes ==
    ASSUME NEW S, NEW q \in Seq(S), NEW n \in Int, n <= Len(q)
    PROVE  /\ SubSeq(q, 1, n) \in Seq(S)
           /\ Len(SubSeq(q, 1, n)) = IF n > 0 THEN n ELSE 0
           /\ \A i \in 1 .. n : SubSeq(q, 1, n)[i] = q[i]
  <1>1. \A i \in 1 .. n : q[i] \in S BY ElementOfSeq
  <1>2. /\ SubSeq(q, 1, n) \in Seq(S)
        /\ Len(SubSeq(q, 1, n)) = IF 1 <= n THEN n - 1 + 1 ELSE 0
        /\ \A i \in 1 .. n - 1 + 1 : SubSeq(q, 1, n)[i] = q[1 + i - 1]
    BY <1>1, SubSeqProperties
  <1> QED BY <1>2

(* A slice from a cached row. *)
LEMMA RowsAfter ==
    ASSUME TypeOK, RowsSound, NEW l
    PROVE  LET A == {r \in rows : After(r, l)}
           IN  /\ Rows(A) /\ Cardinality(A) \in Nat
               /\ Ordered(A) \in [1 .. Cardinality(A) -> A] /\ Increasing(Ordered(A))
               /\ Ordered(A) \in Seq(Row) /\ Len(Ordered(A)) = Cardinality(A)
  <1> DEFINE A == {r \in rows : After(r, l)}
  <1>1. Rows(A)
    <2>1. A \in SUBSET rows OBVIOUS
    <2>2. Rows(rows) BY RowsAre
    <2> HIDE DEF A
    <2> QED BY <2>1, <2>2, FS_Subset DEF Rows
  <1>2. A \subseteq Row BY DEF TypeOK
  <1> HIDE DEF A
  <1>3. /\ Cardinality(A) \in Nat /\ Ordered(A) \in [1 .. Cardinality(A) -> A]
        /\ Increasing(Ordered(A))
    BY <1>1, OrderedIs
  <1>4. Ordered(A) \in [1 .. Cardinality(A) -> Row] BY <1>2, <1>3
  <1>5. Ordered(A) \in Seq(Row) /\ Len(Ordered(A)) = Cardinality(A) BY <1>3, <1>4
  <1> QED BY <1>1, <1>3, <1>5 DEF A

LEMMA SliceFits ==
    ASSUME SliceInv, NEW c \in Client, walk[c].phase = "select"
    PROVE  /\ Slice(walk[c]) \in Seq(Row)
           /\ Len(Slice(walk[c])) <= MaxSlice
           /\ walk[c].start + Len(Slice(walk[c])) \in Position
  <1> DEFINE w == walk[c]
             all == Ordered(rows)
             A == {r \in rows : After(r, w.last)}
  <1>1. /\ w \in Walk /\ w.start \in Position /\ w.start \in Nat /\ w.counted \in Position
        /\ w.count \in Int /\ w.start <= MaxId
    BY ConstantTypes DEF SliceInv, TypeOK, Walk, Position
  <1>2. w.count <= MaxSlice /\ (w.count <= 0 \/ w.start + w.count <= w.counted)
    BY DEF SliceInv, RequestsSound, RequestSound, Walking
  <1>3. all \in Seq(Row) /\ Len(all) = Total /\ Total \in Nat /\ Total <= MaxId
    BY RowsAre, ConstantTypes DEF SliceInv, Position
  <1>4. Ordered(A) \in Seq(Row) /\ Len(Ordered(A)) \in Nat
    BY RowsAfter DEF SliceInv
  <1>5. w.counted \in Nat /\ w.counted <= MaxId BY <1>1, ConstantTypes DEF Position
  <1>6. MaxSlice \in Nat /\ MaxId \in Nat BY ConstantTypes
  <1>7. ASSUME NEW s \in Seq(Row), NEW m \in Int, Len(s) = IF m > 0 THEN m ELSE 0,
               m <= MaxSlice, w.start + m <= MaxId
        PROVE  s \in Seq(Row) /\ Len(s) <= MaxSlice /\ w.start + Len(s) \in Position
    BY <1>1, <1>6, <1>7 DEF Position
  <1>8. CASE w.last # None
    <2> DEFINE q == Ordered(A)
               n == Upto(q, w.count)
    <2>1. Slice(w) = SubSeq(q, 1, n) BY <1>8 DEF Slice
    <2> HIDE DEF A
    <2>2. n \in Int /\ n <= Len(q) /\ n <= w.count BY <1>1, <1>4 DEF Upto
    <2>3. q \in Seq(Row) BY <1>4
    <2> HIDE DEF n, q
    <2>4. Slice(w) \in Seq(Row) /\ Len(Slice(w)) = IF n > 0 THEN n ELSE 0
      BY <2>1, <2>2, <2>3, FirstOnes
    <2>5. n <= MaxSlice /\ w.start + n <= MaxId
      <3> DEFINE b == w.start
                 k == w.count
                 m == w.counted
      <3>1. /\ b \in Nat /\ b <= MaxId /\ k \in Int /\ k <= MaxSlice
            /\ m \in Nat /\ m <= MaxId /\ n \in Int /\ n <= k
            /\ (k <= 0 \/ b + k <= m)
        BY <1>1, <1>2, <1>5, <2>2
      <3> HIDE DEF b, k, m
      <3>2. n <= MaxSlice /\ b + n <= MaxId BY <1>6, <3>1
      <3> QED BY <3>2 DEF b
    <2> QED BY <1>7, <2>2, <2>4, <2>5
  <1>9. CASE w.last = None /\ w.count <= 0
    <2>1. Slice(w) = <<>> BY <1>9 DEF Slice
    <2>2. Slice(w) \in Seq(Row) /\ Len(Slice(w)) = 0 BY <2>1
    <2> QED BY <1>1, <1>6, <2>2
  <1>10. CASE w.last = None /\ ~(w.count <= 0)
    <2> DEFINE n == Upto(all, w.start + w.count)
               s == SubSeq(all, w.start + 1, n)
    <2>1. Slice(w) = s BY <1>10 DEF Slice
    <2> HIDE DEF all
    <2>2. n \in Int /\ n <= Len(all) /\ n <= w.start + w.count BY <1>1, <1>3 DEF Upto
    <2> HIDE DEF n
    <2>3. \A i \in w.start + 1 .. n : all[i] \in Row
      BY <1>1, <1>3, <2>2, ElementOfSeq
    <2>4. /\ s \in Seq(Row)
          /\ Len(s) = IF w.start + 1 <= n THEN n - (w.start + 1) + 1 ELSE 0
      BY <1>1, <2>2, <2>3, SubSeqProperties
    <2> HIDE DEF s
    <2>5. Len(s) <= MaxSlice /\ w.start + Len(s) \in Position
      <3> DEFINE m == Len(s)
                 b == w.start
                 k == w.count
      <3>1. /\ b \in Nat /\ b <= MaxId /\ k \in Int /\ k <= MaxSlice /\ n \in Int
            /\ n <= Len(all) /\ Len(all) \in Nat /\ Len(all) <= MaxId /\ n <= b + k
            /\ m = IF b + 1 <= n THEN n - (b + 1) + 1 ELSE 0
        BY <1>1, <1>2, <1>3, <2>2, <2>4
      <3> HIDE DEF m, b, k
      <3>2. m \in Nat /\ m <= MaxSlice /\ b + m <= MaxId BY <1>6, <3>1
      <3>3. b + m \in Position BY <1>6, <3>1, <3>2 DEF Position
      <3> QED BY <3>2, <3>3 DEF m, b
    <2> QED BY <2>1, <2>4, <2>5
  <1> QED BY <1>8, <1>9, <1>10

LEMMA SelectIs ==
    ASSUME SliceInv, NEW c \in Client, Select(c)
    PROVE  /\ walk[c].phase = "select"
           /\ walk' \in [Client -> Walk] /\ Others(c)
           /\ UNCHANGED <<kind, rows, lastId, appendOnly, cache, steps>>
           /\ walk'[c].phase = "respond" /\ walk'[c].slice = Slice(walk[c])
           /\ walk'[c].start = walk[c].start /\ walk'[c].total = walk[c].total
           /\ walk'[c].got = walk[c].got /\ walk'[c].process = walk[c].process
           /\ walk'[c].counted = walk[c].counted
           /\ SameNotes(walk'[c], walk[c])
  <1> DEFINE s == Slice(walk[c])
             w == [walk EXCEPT ![c].phase = "respond", ![c].slice = s]
  <1>0. walk \in [Client -> Walk] /\ walk[c] \in Walk /\ walk[c].phase = "select"
    BY DEF SliceInv, TypeOK, Select
  <1>1. walk' = Notice(w, c) BY DEF Select
  <1>2. s \in Seq(Row) BY <1>0, SliceFits
  <1> HIDE DEF s
  <1>3. /\ w[c] = [walk[c] EXCEPT !.phase = "respond", !.slice = s]
        /\ \A d \in Client \ {c} : w[d] = walk[d]
    BY <1>0 DEF Walk
  <1>4. /\ w[c] \in Walk /\ w[c].phase = "respond" /\ w[c].slice = s
        /\ w[c].start = walk[c].start /\ w[c].total = walk[c].total
        /\ w[c].got = walk[c].got /\ w[c].process = walk[c].process
        /\ w[c].counted = walk[c].counted /\ SameNotes(w[c], walk[c])
    <2> DEFINE u == walk[c]
               v == w[c]
    <2>1. u \in Walk /\ v = [u EXCEPT !.phase = "respond", !.slice = s] BY <1>0, <1>3
    <2> HIDE DEF w, u, v
    <2>2. /\ v.phase = "respond" /\ v.slice = s
          /\ v.start = u.start /\ v.total = u.total /\ v.got = u.got
          /\ v.process = u.process /\ v.counted = u.counted
          /\ v.moved = u.moved /\ v.expired = u.expired /\ v.disturbed = u.disturbed
          /\ v.switched = u.switched
      BY <2>1 DEF Walk
    <2>3. v \in Walk BY <1>2, <2>1 DEF Walk, Phases
    <2> QED BY <2>2, <2>3 DEF u, v, SameNotes
  <1>5. w \in [Client -> Walk]
    <2>1. \A d \in Client : w[d] \in Walk BY <1>0, <1>3, <1>4
    <2>2. w = [d \in Client |-> w[d]] BY <1>0
    <2> HIDE DEF w
    <2> QED BY <2>1, <2>2
  <1> HIDE DEF w
  <1>6. walk' \in [Client -> Walk] /\ walk'[c] = w[c] /\ Others(c)
    BY <1>0, <1>1, <1>3, <1>5, NoticeIs
  <1> QED BY <1>0, <1>4, <1>6 DEF s, Select

(* What a walk has when the slice has been yielded. *)
All(w) == w.got \o w.slice

LEMMA YieldedIs ==
    ASSUME SliceInv, NEW c \in Client, walk[c].phase = "respond"
    PROVE  /\ All(walk[c]) \in Seq(Row)
           /\ Len(All(walk[c])) = Len(walk[c].got) + Len(walk[c].slice)
           /\ MaxItem(walk[c]) \in Position /\ MaxItem(walk[c]) \in Nat
           /\ Yielded(walk[c]) \in Seq(Row)
           /\ kind = "log" => Yielded(walk[c]) = All(walk[c])
           /\ kind # "log" =>
                 /\ Len(Yielded(walk[c])) <= MaxItem(walk[c])
                 /\ Len(Yielded(walk[c])) <= Len(All(walk[c]))
                 /\ Yielded(walk[c]) = SubSeq(All(walk[c]), 1, Len(Yielded(walk[c])))
                 /\ Len(Yielded(walk[c])) < MaxItem(walk[c]) => Yielded(walk[c]) = All(walk[c])
  <1> DEFINE w == walk[c]
             q == All(w)
             n == Upto(q, MaxItem(w))
  <1>0. w \in Walk BY DEF SliceInv, TypeOK
  <1>1. q \in Seq(Row) /\ Len(q) = Len(w.got) + Len(w.slice) /\ Len(q) \in Nat
    <2>1. w.got \in Seq(Row) /\ w.slice \in Seq(Row) BY <1>0 DEF Walk
    <2>2. q \in Seq(Row) /\ Len(q) = Len(w.got) + Len(w.slice)
      BY <2>1, ConcatProperties DEF All
    <2> HIDE DEF q
    <2> QED BY <2>2, LenProperties
  <1>2. MaxItem(w) \in Position /\ MaxItem(w) \in Nat
    BY <1>0, ConstantTypes DEF MaxItem, Walk
  <1>3. n \in Nat /\ n <= Len(q) /\ n <= MaxItem(w) /\ (n < MaxItem(w) => n = Len(q))
    <2> DEFINE m == MaxItem(w)
    <2> HIDE DEF q, m
    <2>1. Len(q) \in Nat /\ m \in Nat BY <1>1, <1>2 DEF m
    <2>2. n = IF m < Len(q) THEN m ELSE Len(q) BY DEF Upto, m
    <2> HIDE DEF n
    <2>3. n \in Nat /\ n <= Len(q) /\ n <= m /\ (n < m => n = Len(q)) BY <2>1, <2>2
    <2> QED BY <2>3 DEF m
  <1>4. CASE kind = "log"
    <2>1. Yielded(w) = q BY <1>4 DEF Yielded, All
    <2> QED BY <1>1, <1>2, <1>4, <2>1
  <1>5. CASE kind # "log"
    <2>1. Yielded(w) = SubSeq(q, 1, n) BY <1>5 DEF Yielded, All
    <2> HIDE DEF q, n
    <2>2. Yielded(w) \in Seq(Row) /\ Len(Yielded(w)) = n
      <3>0. n \in Int BY <1>3
      <3>1. q \in Seq(Row) /\ n <= Len(q) BY <1>1, <1>3
      <3>2. /\ SubSeq(q, 1, n) \in Seq(Row)
            /\ Len(SubSeq(q, 1, n)) = IF n > 0 THEN n ELSE 0
        BY <3>0, <3>1, FirstOnes
      <3> QED BY <1>3, <2>1, <3>2
    <2>3. SubSeq(q, 1, Len(q)) = q BY <1>1, SubSeqFull
    <2>4. Len(Yielded(w)) < MaxItem(w) => Yielded(w) = q BY <1>3, <2>1, <2>2, <2>3
    <2> QED BY <1>1, <1>2, <1>3, <1>5, <2>1, <2>2, <2>4 DEF q
  <1> QED BY <1>4, <1>5

LEMMA CachedIs ==
    ASSUME SliceInv, NEW c \in Client, walk[c].phase = "respond"
    PROVE  /\ Cached(walk[c]) \in [Process -> [Position \X Position -> Row \cup {None}]]
           /\ \A p \in Process, k \in Position \X Position :
                 Cached(walk[c])[p][k] =
                    IF p = walk[c].process
                          /\ k = Key(walk[c].start + Len(walk[c].slice), walk[c].counted)
                    THEN LastOf(walk[c].slice) ELSE cache[p][k]
           /\ LastOf(walk[c].slice) \in Row \cup {None}
           /\ walk[c].slice = <<>> => LastOf(walk[c].slice) = None
           /\ walk[c].slice # <<>> =>
                 LastOf(walk[c].slice) = walk[c].slice[Len(walk[c].slice)]
  <1> DEFINE w == walk[c]
             key == Key(w.start + Len(w.slice), w.counted)
             l == LastOf(w.slice)
  <1>0. w \in Walk /\ w.process \in Process /\ w.start + Len(w.slice) \in Position
    BY DEF SliceInv, TypeOK, RequestsSound, RequestSound, Walking
  <1>1. key \in Position \X Position BY <1>0 DEF Key, Walk
  <1>2. w.slice \in Seq(Row) BY <1>0 DEF Walk
  <1>3. /\ w.slice = <<>> => l = None
        /\ w.slice # <<>> => l = w.slice[Len(w.slice)]
    BY DEF LastOf, Last
  <1>4. l \in Row \cup {None}
    <2>1. CASE w.slice = <<>> BY <1>3, <2>1
    <2>2. CASE w.slice # <<>>
      <3>1. Len(w.slice) \in 1 .. Len(w.slice) BY <1>2, <2>2, EmptySeq
      <3> QED BY <1>2, <1>3, <2>2, <3>1, ElementOfSeq
    <2> QED BY <2>1, <2>2
  <1>5. cache \in [Process -> [Position \X Position -> Row \cup {None}]]
    BY DEF SliceInv, TypeOK
  <1>6. Cached(w) = [cache EXCEPT ![w.process][key] = l] BY DEF Cached
  <1> HIDE DEF key, l
  <1>7. /\ Cached(w) \in [Process -> [Position \X Position -> Row \cup {None}]]
        /\ \A p \in Process, k \in Position \X Position :
              Cached(w)[p][k] = IF p = w.process /\ k = key THEN l ELSE cache[p][k]
    <2>1. Cached(w) = [cache EXCEPT ![w.process] = [cache[w.process] EXCEPT ![key] = l]]
      BY <1>6
    <2>2. [cache[w.process] EXCEPT ![key] = l] \in [Position \X Position -> Row \cup {None}]
      BY <1>0, <1>4, <1>5
    <2>3. Cached(w) \in [Process -> [Position \X Position -> Row \cup {None}]]
      BY <1>5, <2>1, <2>2
    <2>4. ASSUME NEW p \in Process, NEW k \in Position \X Position
          PROVE  Cached(w)[p][k] = IF p = w.process /\ k = key THEN l ELSE cache[p][k]
      <3>1. CASE p = w.process
        <4>1. Cached(w)[p] = [cache[w.process] EXCEPT ![key] = l] BY <1>0, <1>5, <2>1, <3>1
        <4>2. cache[w.process] \in [Position \X Position -> Row \cup {None}] BY <1>0, <1>5
        <4> QED BY <3>1, <4>1, <4>2
      <3>2. CASE p # w.process
        <4>1. Cached(w)[p] = cache[p] BY <1>5, <2>1, <3>2
        <4> QED BY <3>2, <4>1
      <3> QED BY <3>1, <3>2
    <2> QED BY <2>3, <2>4
  <1> QED BY <1>3, <1>4, <1>7 DEF key, l

LEMMA RespondIs ==
    ASSUME SliceInv, NEW c \in Client, Respond(c)
    PROVE  /\ walk[c].phase = "respond"
           /\ walk' \in [Client -> Walk] /\ Others(c)
           /\ UNCHANGED <<kind, rows, lastId, appendOnly, steps>>
           /\ cache' = Cached(walk[c])
           /\ \/ Finished(walk[c]) /\ walk'[c] = Idle
              \/ /\ ~Finished(walk[c])
                 /\ walk'[c].phase = "next" /\ walk'[c].process \in Process
                 /\ walk'[c].start = walk[c].start + Len(walk[c].slice)
                 /\ walk'[c].total = MaxItem(walk[c])
                 /\ walk'[c].got = Yielded(walk[c]) /\ walk'[c].slice = <<>>
                 /\ SameNotes(walk'[c], walk[c])
                 /\ walk'[c].switched \/ walk'[c].process = walk[c].process
  <1> DEFINE w == walk[c]
             y == Yielded(w)
             m == MaxItem(w)
             u == [w EXCEPT !.got = y, !.total = m]
             s == w.start + Len(w.slice)
  <1>0. /\ walk \in [Client -> Walk] /\ w \in Walk /\ w.phase = "respond"
        /\ s \in Position /\ w.process \in Process
    BY DEF SliceInv, TypeOK, Respond, RequestsSound, RequestSound, Walking
  <1>1. PICK next \in IF Finished(w) THEN {Idle} ELSE Ask(u, s) :
          walk' = Notice([walk EXCEPT ![c] = next], c)
    BY DEF Respond
  <1>2. y \in Seq(Row) /\ m \in Position BY <1>0, YieldedIs
  <1>3. UNCHANGED <<kind, rows, lastId, appendOnly, steps>> /\ cache' = Cached(w)
    BY DEF Respond
  <1> HIDE DEF y, m
  <1>4. u \in Walk /\ u.got = y /\ u.total = m /\ u.process = w.process /\ SameNotes(u, w)
    <2>1. u \in Walk BY <1>0, <1>2 DEF Walk
    <2> QED BY <1>0, <2>1 DEF Walk, SameNotes
  <1> HIDE DEF u, s
  <1>5. /\ next \in Walk
        /\ \/ Finished(w) /\ next = Idle
           \/ /\ ~Finished(w)
              /\ next.phase = "next" /\ next.process \in Process
              /\ next.start = s /\ next.total = m
              /\ next.got = y /\ next.slice = <<>> /\ SameNotes(next, w)
              /\ next.switched \/ next.process = w.process
    <2>1. CASE Finished(w) BY <1>1, <2>1, IdleIs
    <2>2. CASE ~Finished(w)
      <3>1. next \in Ask(u, s) BY <1>1, <2>2
      <3>2. /\ next \in Walk /\ next.phase = "next" /\ next.start = s /\ next.process \in Process
            /\ next.slice = <<>> /\ next.got = u.got /\ next.total = u.total
            /\ SameNotes(next, u)
            /\ next.switched \/ u.process \in {None, next.process}
        BY <1>0, <1>4, <3>1, AskIs
      <3>3. SameNotes(next, w) BY <1>4, <3>2 DEF SameNotes
      <3>4. next.switched \/ next.process = w.process
        BY <1>0, <1>4, <3>2, ConstantTypes
      <3> QED BY <1>4, <2>2, <3>2, <3>3, <3>4
    <2> QED BY <2>1, <2>2
  <1>6. /\ [walk EXCEPT ![c] = next] \in [Client -> Walk]
        /\ [walk EXCEPT ![c] = next][c] = next
        /\ \A d \in Client \ {c} : [walk EXCEPT ![c] = next][d] = walk[d]
    BY <1>0, <1>5
  <1>7. walk' \in [Client -> Walk] /\ walk'[c] = next /\ Others(c)
    BY <1>0, <1>1, <1>6, NoticeIs
  <1> QED BY <1>0, <1>3, <1>5, <1>7 DEF y, m, s

-----------------------------------------------------------------------------
(* Type correctness, and requests within the list.                         *)

(* What SliceInv says of one client. *)
ClientSound(c) ==
    /\ Len(walk[c].slice) <= MaxSlice
    /\ walk[c].phase = "open" => kind = "log" /\ walk[c].got = <<>>
    /\ Walking(c) => RequestSound(c)

LEMMA ClientKept ==
    ASSUME SliceInv, NEW c \in Client, Kept(c), UNCHANGED kind
    PROVE  ClientSound(c)'
  <1>1. ClientSound(c) BY DEF SliceInv, TypeOK, RequestsSound, ClientSound
  <1>2. Len(walk'[c].slice) <= MaxSlice BY <1>1 DEF ClientSound, Kept
  <1>3. walk'[c].phase = "open" => kind' = "log" /\ walk'[c].got = <<>>
    BY <1>1 DEF ClientSound, Kept
  <1>4. Walking(c)' => RequestSound(c)'
    BY <1>1 DEF ClientSound, Kept, Walking, RequestSound
  <1> QED BY <1>2, <1>3, <1>4 DEF ClientSound

LEMMA ClientsSound ==
    ASSUME SliceInv, UNCHANGED kind, \A c \in Client : ClientSound(c)',
           walk' \in [Client -> Walk], RowsSound', StartsUncached',
           rows' \subseteq Row, lastId' \in 0 .. MaxId, appendOnly' \in BOOLEAN,
           cache' \in [Process -> [Position \X Position -> Row \cup {None}]],
           steps' \in 0 .. MaxSteps
    PROVE  SliceInv'
  <1>1. TypeOK'
    <2>1. \A c \in Client : Len(walk'[c].slice) <= MaxSlice BY DEF ClientSound
    <2>2. kind' \in Kinds BY DEF SliceInv, TypeOK
    <2> QED BY <2>1, <2>2 DEF TypeOK
  <1>2. RequestsSound' BY DEF ClientSound, RequestsSound
  <1> QED BY <1>1, <1>2 DEF SliceInv

(* The rows keep their different ids. *)
LEMMA RowsStaySound ==
    ASSUME SliceInv, Insert \/ Delete \/ Touch
    PROVE  /\ rows' \subseteq Row /\ lastId' \in 0 .. MaxId /\ appendOnly' \in BOOLEAN
           /\ RowsSound'
  <1>0. /\ rows \subseteq Row /\ lastId \in 0 .. MaxId /\ appendOnly \in BOOLEAN
        /\ RowsSound /\ MaxId \in Nat
    BY ConstantTypes DEF SliceInv, TypeOK
  <1>1. CASE Insert
    <2>1. PICK t \in Times : /\ rows' = rows \cup {[ts |-> t, id |-> lastId + 1]}
                             /\ appendOnly' = (appendOnly /\ \A r \in rows : r.ts <= t)
      BY <1>1 DEF Insert
    <2>2. lastId < MaxId /\ lastId' = lastId + 1 BY <1>1 DEF Insert
    <2> DEFINE x == [ts |-> t, id |-> lastId + 1]
    <2>3. x \in Row /\ x.id = lastId' BY <1>0, <2>2 DEF Row
    <2>4. appendOnly' \in BOOLEAN BY <2>1
    <2> HIDE DEF x
    <2>5. rows' = rows \cup {x} BY <2>1 DEF x
    <2>6. \A r \in rows : r.id \in Int /\ r.id <= lastId
      BY <1>0, ConstantTypes DEF RowsSound
    <2>7. \A r \in rows : r.id < lastId' BY <1>0, <2>2, <2>6
    <2>8. lastId' \in 0 .. MaxId BY <1>0, <2>2
    <2>9. \A r \in rows' : r.id <= lastId' BY <2>3, <2>5, <2>7, <2>6, <2>8
    <2>10. \A r \in rows', s \in rows' : r.id = s.id => r = s
      BY <1>0, <2>3, <2>5, <2>6, <2>7, <2>8 DEF RowsSound
    <2> QED BY <1>0, <2>3, <2>4, <2>5, <2>8, <2>9, <2>10 DEF RowsSound
  <1>2. CASE Delete
    <2>1. rows' \subseteq rows /\ appendOnly' = FALSE /\ lastId' = lastId
      BY <1>2 DEF Delete
    <2> QED BY <1>0, <2>1 DEF RowsSound
  <1>3. CASE Touch
    <2>1. PICK r \in rows, t \in Times : TouchedAs(r, t)
      BY <1>3, TouchIs DEF SliceInv
    <2> DEFINE x == [r EXCEPT !.ts = t]
    <2>2. lastId' = lastId /\ appendOnly' = FALSE BY <1>3 DEF Touch
    <2>3. x \in Row /\ x.id = r.id BY <1>0 DEF Row
    <2>4. rows' = (rows \ {r}) \cup {x} BY <2>1 DEF TouchedAs
    <2> HIDE DEF x
    <2>5. RowsSound' BY <1>0, <2>2, <2>3, <2>4 DEF RowsSound
    <2> QED BY <1>0, <2>2, <2>3, <2>4, <2>5
  <1> QED BY <1>1, <1>2, <1>3

LEMMA SliceInvInit ==
    ASSUME Init PROVE SliceInv
  <1>1. /\ rows \subseteq Row /\ {r.id : r \in rows} = 1 .. Cardinality(rows)
        /\ \A r \in rows, s \in rows : r.id = s.id => r = s
    BY SliceConstants DEF Init
  <1>2. Rows(rows) /\ Cardinality(rows) \in Nat /\ Cardinality(rows) <= MaxId
    <2> DEFINE f == [r \in rows |-> r.id]
    <2>1. f \in [rows -> 1 .. MaxId] BY <1>1 DEF Row
    <2>2. f \in Injection(rows, 1 .. MaxId)
      BY <1>1, <2>1 DEF Injection, IsInjective
    <2>3. IsFiniteSet(1 .. MaxId) /\ Cardinality(1 .. MaxId) = MaxId
      BY FS_Interval, ConstantTypes
    <2> HIDE DEF f
    <2>4. IsFiniteSet(rows) /\ Cardinality(rows) <= MaxId BY <2>2, <2>3, FS_Injection
    <2> QED BY <1>1, <2>4, FS_CardinalityType DEF Rows
  <1>3. lastId = Cardinality(rows) BY DEF Init
  <1>4. \A r \in rows : r.id <= lastId
    <2> TAKE r \in rows
    <2>1. r.id \in 1 .. Cardinality(rows) BY <1>1
    <2> QED BY <1>2, <1>3, <2>1
  <1>5. RowsSound BY <1>1, <1>4 DEF RowsSound
  <1>6. lastId \in 0 .. MaxId BY <1>2, <1>3, ConstantTypes
  <1>7. walk \in [Client -> Walk] /\ \A c \in Client : walk[c] = Idle
    BY IdleIs DEF Init
  <1>8. cache \in [Process -> [Position \X Position -> Row \cup {None}]]
    BY DEF Init
  <1>9. StartsUncached BY ConstantTypes DEF Init, StartsUncached, Key, Position
  <1>10. TypeOK
    <2>1. \A c \in Client : Len(walk[c].slice) <= MaxSlice
      <3>1. Len(<<>>) = 0 OBVIOUS
      <3> QED BY <1>7, <3>1, IdleIs, ConstantTypes
    <2>2. steps \in 0 .. MaxSteps BY ConstantTypes DEF Init
    <2>3. kind \in Kinds /\ appendOnly \in BOOLEAN BY DEF Init
    <2> QED BY <1>1, <1>6, <1>7, <1>8, <2>1, <2>2, <2>3 DEF TypeOK
  <1>11. RequestsSound BY <1>7, IdleIs DEF RequestsSound, Walking
  <1> QED BY <1>5, <1>9, <1>10, <1>11 DEF SliceInv

(* A step of client c's. *)
LEMMA OwnStepSound ==
    ASSUME SliceInv, NEW c \in Client, Open(c) \/ Step(c)
    PROVE  SliceInv'
  <1>0. /\ TypeOK /\ RowsSound /\ StartsUncached
        /\ rows \subseteq Row /\ lastId \in 0 .. MaxId /\ appendOnly \in BOOLEAN
        /\ cache \in [Process -> [Position \X Position -> Row \cup {None}]]
        /\ steps \in 0 .. MaxSteps /\ walk \in [Client -> Walk]
    BY DEF SliceInv, TypeOK
  <1>1. /\ Open(c) \/ GetTotal(c) \/ BeginRequest(c) \/ Select(c) =>
              UNCHANGED <<kind, rows, lastId, appendOnly, cache, steps>>
        /\ Respond(c) => UNCHANGED <<kind, rows, lastId, appendOnly, steps>>
    BY DEF Open, GetTotal, BeginRequest, Select, Respond
  <1>2. UNCHANGED kind BY <1>1 DEF Step
  <1>3. RowsSound'
    <2>1. UNCHANGED <<rows, lastId>> BY <1>1 DEF Step
    <2> QED BY <1>0, <2>1 DEF RowsSound
  <1>4. walk' \in [Client -> Walk] /\ Others(c)
    BY <1>0, OpenIs, GetTotalIs, BeginIs, SelectIs, RespondIs DEF Step
  <1>5. Len(<<>>) = 0 /\ MaxSlice \in Nat BY ConstantTypes
  <1>6. walk[c] \in Walk /\ walk'[c] \in Walk BY <1>0, <1>4
  <1>7. ClientSound(c) BY DEF SliceInv, TypeOK, RequestsSound, ClientSound
  <1>8. ClientSound(c)'
    <2>1. CASE Open(c)
      <3>1. /\ Fresh(walk'[c])
            /\ \/ walk'[c].phase = "open" /\ kind = "log"
               \/ /\ walk'[c].phase = "next" /\ kind = "objects"
                  /\ walk'[c].process \in Process
        BY <1>0, <2>1, OpenIs
      <3> QED BY <1>2, <1>5, <3>1 DEF ClientSound, RequestSound, Walking, Fresh
    <2>2. CASE GetTotal(c)
      <3>1. /\ walk'[c].phase = "next" /\ walk'[c].process \in Process
            /\ walk'[c].total = Total /\ walk'[c].slice = <<>>
        BY <2>2, GetTotalIs
      <3>2. Total # None BY RowsAre, ConstantTypes DEF SliceInv
      <3> QED BY <1>5, <3>1, <3>2 DEF ClientSound, RequestSound, Walking
    <2>3. CASE BeginRequest(c)
      <3>0. walk[c].phase = "next" /\ RequestSound(c)
        BY <1>7, <2>3, BeginIs DEF ClientSound, Walking
      <3>1. CASE walk'[c] = Idle
        BY <1>5, <3>1, IdleIs DEF ClientSound, Walking
      <3>2. CASE walk'[c] # Idle
        <4>1. /\ ~InvalidStart(walk[c].start, Total)
              /\ walk'[c].phase = "select" /\ walk'[c].counted = Total
              /\ walk'[c].count = Count(walk[c].start, PageSize[c], Total)
              /\ walk'[c].start = walk[c].start /\ walk'[c].total = walk[c].total
              /\ walk'[c].process = walk[c].process /\ walk'[c].slice = walk[c].slice
          BY <2>3, <3>2, BeginIs
        <4>2. /\ walk[c].start \in Nat /\ Total \in Nat /\ PageSize[c] \in Nat
          BY <1>6, RowsAre, ConstantTypes DEF Walk, SliceInv
        <4>3. /\ Count(walk[c].start, PageSize[c], Total) <= MaxSlice
              /\ walk[c].start + Count(walk[c].start, PageSize[c], Total) <= Total
          BY <1>5, <4>2 DEF Count
        <4> QED BY <1>2, <1>5, <3>0, <4>1, <4>3 DEF ClientSound, RequestSound, Walking
      <3> QED BY <3>1, <3>2
    <2>4. CASE Select(c)
      <3>1. /\ walk[c].phase = "select" /\ walk'[c].phase = "respond"
            /\ walk'[c].slice = Slice(walk[c])
            /\ walk'[c].start = walk[c].start /\ walk'[c].total = walk[c].total
            /\ walk'[c].process = walk[c].process
        BY <2>4, SelectIs
      <3>2. /\ Len(Slice(walk[c])) <= MaxSlice
            /\ walk[c].start + Len(Slice(walk[c])) \in Position
        BY <3>1, SliceFits
      <3> QED BY <1>2, <1>7, <3>1, <3>2 DEF ClientSound, RequestSound, Walking
    <2>5. CASE Respond(c)
      <3>0. walk[c].phase = "respond" BY <2>5, RespondIs
      <3>1. CASE walk'[c] = Idle
        BY <1>5, <3>1, IdleIs DEF ClientSound, Walking
      <3>2. CASE walk'[c] # Idle
        <4>1. /\ walk'[c].phase = "next" /\ walk'[c].process \in Process
              /\ walk'[c].total = MaxItem(walk[c]) /\ walk'[c].slice = <<>>
          BY <2>5, <3>2, RespondIs
        <4>2. MaxItem(walk[c]) # None BY <3>0, YieldedIs, ConstantTypes
        <4> QED BY <1>5, <4>1, <4>2 DEF ClientSound, RequestSound, Walking
      <3> QED BY <3>1, <3>2
    <2> QED BY <2>1, <2>2, <2>3, <2>4, <2>5 DEF Step
  <1>9. \A d \in Client : ClientSound(d)'
    <2> TAKE d \in Client
    <2>1. CASE d = c BY <1>8, <2>1
    <2>2. CASE d # c
      <3>1. Kept(d) BY <1>4, <2>2 DEF Others
      <3> QED BY <1>2, <3>1, ClientKept
    <2> QED BY <2>1, <2>2
  <1>10. CASE ~Respond(c)
    <2>1. UNCHANGED <<kind, rows, lastId, appendOnly, cache, steps>> BY <1>1, <1>10 DEF Step
    <2>2. StartsUncached' BY <1>0, <2>1 DEF StartsUncached
    <2> QED BY <1>0, <1>3, <1>4, <1>9, <2>1, <2>2, ClientsSound
  <1>11. CASE Respond(c)
    <2>0. walk[c].phase = "respond" /\ cache' = Cached(walk[c]) BY <1>11, RespondIs
    <2>1. UNCHANGED <<kind, rows, lastId, appendOnly, steps>> BY <1>1, <1>11
    <2>2. cache' \in [Process -> [Position \X Position -> Row \cup {None}]]
      BY <2>0, CachedIs
    <2>3. StartsUncached'
      <3> SUFFICES ASSUME NEW p \in Process, NEW t \in Position
                   PROVE  cache'[p][Key(0, t)] = None
        BY DEF StartsUncached
      <3>1. Key(0, t) \in Position \X Position /\ cache[p][Key(0, t)] = None
        BY <1>0, ConstantTypes DEF StartsUncached, Key, Position
      <3>2. CASE /\ p = walk[c].process
                 /\ Key(0, t) = Key(walk[c].start + Len(walk[c].slice), walk[c].counted)
        <4>1. walk[c].start + Len(walk[c].slice) = 0 BY <3>2 DEF Key
        <4>2. walk[c].start \in Nat /\ walk[c].slice \in Seq(Row)
          BY <1>6, ConstantTypes DEF Walk
        <4>3. walk[c].slice = <<>> BY <4>1, <4>2, EmptySeq
        <4> QED BY <2>0, <3>1, <3>2, <4>3, CachedIs
      <3>3. CASE ~(/\ p = walk[c].process
                   /\ Key(0, t) = Key(walk[c].start + Len(walk[c].slice), walk[c].counted))
        BY <2>0, <3>1, <3>3, CachedIs
      <3> QED BY <3>2, <3>3
    <2> QED BY <1>0, <1>3, <1>4, <1>9, <2>1, <2>2, <2>3, ClientsSound
  <1> QED BY <1>10, <1>11

LEMMA SliceInvStep ==
    ASSUME SliceInv, [Next]_vars PROVE SliceInv'
  <1>0. /\ TypeOK /\ RowsSound /\ StartsUncached
        /\ rows \subseteq Row /\ lastId \in 0 .. MaxId /\ appendOnly \in BOOLEAN
        /\ cache \in [Process -> [Position \X Position -> Row \cup {None}]]
    BY DEF SliceInv, TypeOK
  <1>1. CASE Insert \/ Delete
    <2>1. /\ walk' \in [Client -> Walk] /\ steps' \in 0 .. MaxSteps
          /\ UNCHANGED <<kind, cache>> /\ \A c \in Client : Kept(c)
      BY <1>0, <1>1, StoredOrGone
    <2>2. \A c \in Client : ClientSound(c)' BY <2>1, ClientKept
    <2>3. StartsUncached' BY <1>0, <2>1 DEF StartsUncached
    <2> QED BY <1>0, <1>1, <2>1, <2>2, <2>3, RowsStaySound, ClientsSound
  <1>2. CASE Touch
    <2>1. /\ walk' \in [Client -> Walk] /\ steps' \in 0 .. MaxSteps
          /\ UNCHANGED <<kind, cache>> /\ \A c \in Client : Kept(c)
      BY <1>0, <1>2, TouchIs
    <2>2. \A c \in Client : ClientSound(c)' BY <2>1, ClientKept
    <2>3. StartsUncached' BY <1>0, <2>1 DEF StartsUncached
    <2> QED BY <1>0, <1>2, <2>1, <2>2, <2>3, RowsStaySound, ClientsSound
  <1>3. CASE Expire
    <2>1. /\ walk' \in [Client -> Walk] /\ steps' \in 0 .. MaxSteps
          /\ cache' \in [Process -> [Position \X Position -> Row \cup {None}]]
          /\ \A p \in Process, k \in Position \X Position : cache'[p][k] \in {None, cache[p][k]}
          /\ UNCHANGED <<kind, rows, lastId, appendOnly>>
          /\ \A c \in Client : Kept(c)
      BY <1>0, <1>3, ExpireIs
    <2>2. \A c \in Client : ClientSound(c)' BY <2>1, ClientKept
    <2>3. StartsUncached'
      <3>1. \A t \in Position : Key(0, t) \in Position \X Position
        BY ConstantTypes DEF Key, Position
      <3> QED BY <1>0, <2>1, <3>1 DEF StartsUncached
    <2>4. RowsSound' BY <1>0, <2>1 DEF RowsSound
    <2> QED BY <1>0, <2>1, <2>2, <2>3, <2>4, ClientsSound
  <1>4. CASE \E c \in Client : Open(c) \/ Step(c)
    BY <1>4, OwnStepSound
  <1>5. CASE UNCHANGED vars
    BY <1>5 DEF vars, SliceInv, TypeOK, RowsSound, RequestsSound, RequestSound,
                Walking, StartsUncached
  <1> QED BY <1>1, <1>2, <1>3, <1>4, <1>5 DEF Next

THEOREM SliceInvariant == Spec => []SliceInv
  <1>1. SliceInv /\ [Next]_vars => SliceInv' BY SliceInvStep
  <1> QED BY <1>1, SliceInvInit, PTL DEF Spec

(* The rows, the cache and the requests have their types: every slice fits  *)
(* MAX_SLICE_ITEMS, and every position lies within the list.                 *)
THEOREM SliceTypes == Spec => []TypeOK
  <1>1. SliceInv => TypeOK BY DEF SliceInv
  <1> QED BY <1>1, SliceInvariant, PTL

-----------------------------------------------------------------------------
(* A walk whose slices join up: one request.                               *)

(* The members of a sequence from the one after a to b. *)
LEMMA PartIs ==
    ASSUME NEW S, NEW q \in Seq(S), NEW a \in Nat, NEW b \in Nat, a <= b, b <= Len(q)
    PROVE  /\ SubSeq(q, a + 1, b) \in Seq(S) /\ Len(SubSeq(q, a + 1, b)) = b - a
           /\ \A i \in 1 .. b - a : SubSeq(q, a + 1, b)[i] = q[a + i]
  <1>1. \A i \in a + 1 .. b : q[i] \in S BY ElementOfSeq
  <1>2. /\ SubSeq(q, a + 1, b) \in Seq(S)
        /\ Len(SubSeq(q, a + 1, b)) = IF a + 1 <= b THEN b - (a + 1) + 1 ELSE 0
        /\ \A i \in 1 .. b - (a + 1) + 1 : SubSeq(q, a + 1, b)[i] = q[(a + 1) + i - 1]
    BY <1>1, SubSeqProperties
  <1> QED BY <1>2

(* Where the request lies in the list. *)
LEMMA JoinBounds ==
    ASSUME SliceInv, NEW c \in Client, Walking(c), JoinsUp(c)
    PROVE  LET w == walk[c]
           IN  /\ w \in Walk /\ w.start \in Nat /\ w.start <= Total /\ Total \in Nat
               /\ ~InvalidStart(w.start, Total)
               /\ w.got \in Seq(Row) /\ Len(w.got) = w.start
               /\ w.total # None => w.total \in Nat /\ w.total <= Total
               /\ w.phase \in {"select", "respond"} =>
                     /\ w.counted \in Nat /\ w.counted <= Total
                     /\ MaxItem(w) \in Nat /\ MaxItem(w) <= w.counted
                     /\ Sized(c) \in Nat /\ w.start + Sized(c) <= w.counted
                     /\ Sized(c) = 0 => w.start = w.counted
  <1> DEFINE w == walk[c]
  <1>1. /\ w \in Walk /\ w.start \in Nat /\ w.counted \in Nat
        /\ w.total # None => w.total \in Nat
    BY ConstantTypes DEF SliceInv, TypeOK, Walk
  <1>2. w.total # None \/ (w.start = 0 /\ kind = "objects")
    BY DEF SliceInv, RequestsSound, RequestSound
  <1>3. /\ w.got = SubSeq(Ordered(rows), 1, w.start)
        /\ w.total = None \/ (w.total <= Total /\ (w.start < w.total \/ w.start = 0))
        /\ w.phase \in {"select", "respond"} =>
              w.counted <= Total /\ (w.total = None \/ w.total <= w.counted)
    BY DEF JoinsUp
  <1>4. Total \in Nat /\ Ordered(rows) \in Seq(Row) /\ Len(Ordered(rows)) = Total
    BY RowsAre DEF SliceInv
  <1>5. w.start <= Total BY <1>1, <1>2, <1>3, <1>4
  <1>6. ~InvalidStart(w.start, Total) BY <1>1, <1>2, <1>3, <1>4 DEF InvalidStart
  <1>7. w.got \in Seq(Row) /\ Len(w.got) = w.start
    <2>1. w.start \in Int BY <1>1
    <2> QED BY <1>1, <1>3, <1>4, <1>5, <2>1, FirstOnes
  <1>8. ASSUME w.phase \in {"select", "respond"}
        PROVE  /\ w.counted \in Nat /\ w.counted <= Total
               /\ MaxItem(w) \in Nat /\ MaxItem(w) <= w.counted
               /\ Sized(c) \in Nat /\ w.start + Sized(c) <= w.counted
               /\ Sized(c) = 0 => w.start = w.counted
    <2>1. w.counted <= Total /\ (w.total = None \/ w.total <= w.counted) BY <1>3, <1>8
    <2>2. w.start <= w.counted
      <3>1. CASE w.start = 0 BY <1>1, <3>1
      <3>2. CASE w.start # 0
        <4>1. w.total \in Nat /\ w.start < w.total /\ w.total <= w.counted
          BY <1>1, <1>2, <1>3, <2>1, <3>2
        <4> QED BY <1>1, <4>1
      <3> QED BY <3>1, <3>2
    <2>3. MaxItem(w) \in Nat /\ MaxItem(w) <= w.counted BY <1>1, <2>1 DEF MaxItem
    <2>4. /\ Sized(c) \in Nat /\ w.start + Sized(c) <= w.counted
          /\ Sized(c) = 0 => w.start = w.counted
      <3>1. /\ PageSize[c] \in Nat /\ PageSize[c] > 0
            /\ MaxSlice \in Nat /\ MaxSlice > 0
        BY ConstantTypes
      <3> QED BY <1>1, <2>2, <3>1 DEF Sized, Count
    <2> QED BY <1>1, <2>1, <2>3, <2>4
  <1> QED BY <1>1, <1>3, <1>4, <1>5, <1>6, <1>7, <1>8

(* The slice that is selected follows what the walk has. *)
LEMMA JoinSelect ==
    ASSUME SliceInv, NEW c \in Client, walk[c].phase = "select", JoinsUp(c)
    PROVE  /\ Len(Slice(walk[c])) = Sized(c)
           /\ Slice(walk[c]) = SubSeq(Ordered(rows), walk[c].start + 1, walk[c].start + Sized(c))
  <1> DEFINE w == walk[c]
             o == Ordered(rows)
             a == w.start
             k == Sized(c)
  <1>1. /\ a \in Nat /\ a <= Total /\ Total \in Nat /\ k \in Nat /\ a + k <= Total
    <2>1. w.phase \in {"select", "respond"} /\ Walking(c) BY DEF Walking
    <2>2. /\ a \in Nat /\ a <= Total /\ Total \in Nat /\ k \in Nat
          /\ a + k <= w.counted /\ w.counted <= Total /\ w.counted \in Nat
      BY <2>1, JoinBounds
    <2> QED BY <2>2
  <1>2. w.count = k /\ (w.last # None => a \in 1 .. Total /\ w.last = o[a])
    BY DEF JoinsUp
  <1>3. o \in Seq(Row) /\ Len(o) = Total /\ Rows(rows)
    BY RowsAre DEF SliceInv
  <1> HIDE DEF o, k
  <1>4. /\ SubSeq(o, a + 1, a + k) \in Seq(Row) /\ Len(SubSeq(o, a + 1, a + k)) = k
        /\ \A i \in 1 .. k : SubSeq(o, a + 1, a + k)[i] = o[a + i]
    <2> DEFINE b == a + k
    <2>1. a \in Nat /\ b \in Nat /\ a <= b /\ b <= Len(o) /\ b - a = k BY <1>1, <1>3
    <2> HIDE DEF a, b
    <2>2. /\ SubSeq(o, a + 1, b) \in Seq(Row) /\ Len(SubSeq(o, a + 1, b)) = b - a
          /\ \A i \in 1 .. b - a : SubSeq(o, a + 1, b)[i] = o[a + i]
      BY <1>3, <2>1, PartIs
    <2>3. /\ SubSeq(o, a + 1, b) \in Seq(Row) /\ Len(SubSeq(o, a + 1, b)) = k
          /\ \A i \in 1 .. k : SubSeq(o, a + 1, b)[i] = o[a + i]
      BY <2>1, <2>2
    <2> QED BY <2>3 DEF b, a
  <1>5. CASE w.last # None
    <2> DEFINE A == {r \in rows : After(r, w.last)}
               q == Ordered(A)
    <2>1. /\ Cardinality(A) = Total - a
          /\ \A i \in 1 .. Total - a : q[i] = o[a + i]
      <3>1. A = {r \in rows : After(r, Ordered(rows)[a])} BY <1>2, <1>5 DEF o
      <3>2. a \in 1 .. Cardinality(rows) BY <1>2, <1>5 DEF Total
      <3> HIDE DEF A
      <3> QED BY <1>3, <3>1, <3>2, OrderedAfter DEF Total, o
    <2>2. q \in Seq(Row) /\ Len(q) = Cardinality(A)
      BY RowsAfter DEF SliceInv
    <2> HIDE DEF A
    <2>3. Upto(q, w.count) = k BY <1>1, <1>2, <2>1, <2>2 DEF Upto
    <2>4. Slice(w) = SubSeq(q, 1, k) BY <1>5, <2>3 DEF Slice, A
    <2>5. k \in Int /\ k <= Len(q) BY <1>1, <2>1, <2>2
    <2> HIDE DEF q
    <2>6. /\ Slice(w) \in Seq(Row) /\ Len(Slice(w)) = IF k > 0 THEN k ELSE 0
          /\ \A i \in 1 .. k : Slice(w)[i] = q[i]
      BY <2>2, <2>4, <2>5, FirstOnes
    <2>7. Len(Slice(w)) = k BY <1>1, <2>6
    <2>8. \A i \in 1 .. k : Slice(w)[i] = SubSeq(o, a + 1, a + k)[i]
      <3> TAKE i \in 1 .. k
      <3>1. i \in 1 .. Total - a BY <1>1
      <3> QED BY <1>4, <2>1, <2>6, <3>1
    <2>9. Slice(w) = SubSeq(o, a + 1, a + k)
      BY <1>4, <2>6, <2>7, <2>8, SeqEqual
    <2> QED BY <2>7, <2>9 DEF o, k
  <1>6. CASE w.last = None
    <2>1. CASE k = 0
      <3>1. w.count <= 0 BY <1>2, <2>1
      <3>2. Slice(w) = <<>> BY <1>6, <3>1 DEF Slice
      <3>3. SubSeq(o, a + 1, a + k) = <<>> BY <1>4, <2>1, EmptySeq
      <3> QED BY <2>1, <3>2, <3>3 DEF o, k
    <2>2. CASE k # 0
      <3>1. ~(w.count <= 0) BY <1>1, <1>2, <2>2
      <3>2. Upto(o, a + w.count) = a + k BY <1>1, <1>2, <1>3 DEF Upto
      <3>3. Slice(w) = SubSeq(o, a + 1, a + k) BY <1>6, <3>1, <3>2 DEF Slice, o
      <3> QED BY <1>4, <3>3 DEF o, k
    <2> QED BY <2>1, <2>2
  <1> QED BY <1>5, <1>6

(* What the walk has with the slice are the first rows. *)
LEMMA JoinAll ==
    ASSUME SliceInv, NEW c \in Client, walk[c].phase = "respond", JoinsUp(c)
    PROVE  LET w == walk[c]
               n == w.start + Len(w.slice)
           IN  /\ n \in Nat /\ n <= w.counted /\ n <= Total /\ w.start \in Nat
               /\ Len(w.slice) = Sized(c)
               /\ All(w) = SubSeq(Ordered(rows), 1, n) /\ Len(All(w)) = n
               /\ w.slice # <<>> =>
                     n \in 1 .. Total /\ w.slice[Len(w.slice)] = Ordered(rows)[n]
  <1> DEFINE w == walk[c]
             o == Ordered(rows)
             a == w.start
             k == Len(w.slice)
             n == a + k
  <1>1. /\ a \in Nat /\ a <= Total /\ Total \in Nat /\ w.counted \in Nat /\ w.counted <= Total
        /\ Sized(c) \in Nat /\ a + Sized(c) <= w.counted /\ w \in Walk
    <2>1. w.phase \in {"select", "respond"} /\ Walking(c) BY DEF Walking
    <2> QED BY <2>1, JoinBounds
  <1>2. /\ k = Sized(c) /\ w.slice = SubSeq(o, a + 1, a + k) /\ w.got = SubSeq(o, 1, a)
    BY DEF JoinsUp
  <1>3. o \in Seq(Row) /\ Len(o) = Total BY RowsAre DEF SliceInv
  <1>4. w.slice \in Seq(Row) BY <1>1 DEF Walk
  <1>5. k \in Nat /\ n \in Nat /\ n <= w.counted /\ n <= Total
    <2>1. k \in Nat BY <1>1, <1>2
    <2>2. a + k <= w.counted BY <1>1, <1>2
    <2> HIDE DEF a, k
    <2>3. n \in Nat BY <1>1, <2>1
    <2>4. n <= w.counted BY <2>2
    <2> QED BY <1>1, <2>1, <2>3, <2>4
  <1>6. All(w) = SubSeq(o, 1, n)
    <2> HIDE DEF o, a, n
    <2>1. a \in Nat /\ n \in Nat /\ a <= n /\ n <= Len(o) BY <1>1, <1>3, <1>5 DEF n
    <2>2. 1 \in 1 .. Len(o) + 1 /\ a \in 1 - 1 .. Len(o) /\ n \in a .. Len(o) BY <2>1
    <2>3. SubSeq(o, 1, a) \o SubSeq(o, a + 1, n) = SubSeq(o, 1, n)
      BY <1>3, <2>2, ConcatAdjacentSubSeq
    <2>4. w.slice = SubSeq(o, a + 1, n) BY <1>2 DEF n
    <2> QED BY <1>2, <2>3, <2>4 DEF All
  <1>7. Len(All(w)) = n
    <2>1. n \in Int /\ n <= Len(o) BY <1>3, <1>5
    <2> HIDE DEF o, n
    <2>2. Len(SubSeq(o, 1, n)) = IF n > 0 THEN n ELSE 0 BY <1>3, <2>1, FirstOnes
    <2> QED BY <1>5, <1>6, <2>2
  <1>8. ASSUME w.slice # <<>> PROVE n \in 1 .. Total /\ w.slice[Len(w.slice)] = o[n]
    <2>1. k > 0 BY <1>4, <1>8, EmptySeq
    <2>2. n \in 1 .. Total BY <1>1, <1>5, <2>1
    <2>3. \A i \in 1 .. n - a : SubSeq(o, a + 1, n)[i] = o[a + i]
      <3>1. a \in Nat /\ n \in Nat /\ a <= n /\ n <= Len(o) BY <1>1, <1>3, <1>5
      <3> HIDE DEF o, a, n
      <3> QED BY <1>3, <3>1, PartIs
    <2>4. k \in 1 .. n - a /\ a + k = n BY <1>1, <1>5, <2>1
    <2>5. SubSeq(o, a + 1, n)[k] = o[n] BY <2>3, <2>4
    <2>6. w.slice = SubSeq(o, a + 1, n) BY <1>2
    <2> QED BY <2>2, <2>5, <2>6
  <1> QED BY <1>1, <1>2, <1>5, <1>6, <1>7, <1>8

(* If the iteration goes on, the walk has the rows up to its new position;  *)
(* if it ends, at least as many as it has to have.                           *)
LEMMA JoinNext ==
    ASSUME SliceInv, NEW c \in Client, walk[c].phase = "respond", JoinsUp(c),
           ~Finished(walk[c])
    PROVE  LET w == walk[c]
               n == w.start + Len(w.slice)
           IN  Yielded(w) = SubSeq(Ordered(rows), 1, n) /\ n < MaxItem(w) /\ MaxItem(w) <= Total
  <1> DEFINE w == walk[c]
             n == w.start + Len(w.slice)
  <1>1. /\ n \in Nat /\ n <= w.counted /\ n <= Total
        /\ All(w) = SubSeq(Ordered(rows), 1, n) /\ Len(All(w)) = n
    BY JoinAll
  <1>2. MaxItem(w) \in Nat /\ MaxItem(w) <= w.counted /\ w.counted \in Nat
        /\ w.counted <= Total /\ Total \in Nat
    <2>1. w.phase \in {"select", "respond"} /\ Walking(c) BY DEF Walking
    <2> QED BY <2>1, JoinBounds
  <1>3. w.total # None \/ kind = "objects" BY DEF SliceInv, RequestsSound, RequestSound, Walking
  <1>4. Yielded(w) = All(w) /\ n < MaxItem(w)
    <2>1. CASE kind = "log"
      <3>1. Yielded(w) = All(w) BY <2>1, YieldedIs
      <3>2. MaxItem(w) = w.total BY <1>3, <2>1 DEF MaxItem
      <3>3. ~(n >= w.total) BY <2>1 DEF Finished
      <3> QED BY <1>1, <1>2, <3>1, <3>2, <3>3
    <2>2. CASE kind # "log"
      <3>1. ~(Len(Yielded(w)) >= MaxItem(w)) BY <2>2 DEF Finished
      <3>2. Yielded(w) \in Seq(Row) BY YieldedIs
      <3>3. Len(Yielded(w)) \in Nat BY <3>2
      <3>4. Len(Yielded(w)) < MaxItem(w) BY <1>2, <3>1, <3>3
      <3>5. Yielded(w) = All(w) BY <2>2, <3>4, YieldedIs
      <3> QED BY <1>1, <3>4, <3>5
    <2> QED BY <2>1, <2>2
  <1> QED BY <1>1, <1>2, <1>4

LEMMA JoinEnd ==
    ASSUME SliceInv, NEW c \in Client, walk[c].phase = "respond", JoinsUp(c),
           Finished(walk[c])
    PROVE  \E m \in MaxItem(walk[c]) .. Total : Yielded(walk[c]) = SubSeq(Ordered(rows), 1, m)
  <1> DEFINE w == walk[c]
             o == Ordered(rows)
             n == w.start + Len(w.slice)
  <1>1. /\ n \in Nat /\ n <= w.counted /\ n <= Total /\ w.start \in Nat
        /\ Len(w.slice) = Sized(c)
        /\ All(w) = SubSeq(o, 1, n) /\ Len(All(w)) = n
    BY JoinAll
  <1>2. /\ MaxItem(w) \in Nat /\ MaxItem(w) <= w.counted /\ w.counted \in Nat
        /\ w.counted <= Total /\ Total \in Nat
        /\ Sized(c) = 0 => w.start = w.counted
        /\ w.total # None => w.total \in Nat
    <2>1. w.phase \in {"select", "respond"} /\ Walking(c) BY DEF Walking
    <2> QED BY <2>1, JoinBounds
  <1>3. w.total # None \/ kind = "objects" BY DEF SliceInv, RequestsSound, RequestSound, Walking
  <1>4. o \in Seq(Row) /\ Len(o) = Total BY RowsAre DEF SliceInv
  <1> HIDE DEF o
  <1>5. CASE kind = "log"
    <2>1. Yielded(w) = All(w) BY <1>5, YieldedIs
    <2>2. MaxItem(w) = w.total BY <1>3, <1>5 DEF MaxItem
    <2>3. n >= w.total BY <1>5 DEF Finished
    <2>4. n \in MaxItem(w) .. Total BY <1>1, <1>2, <2>2, <2>3
    <2> QED BY <1>1, <2>1, <2>4 DEF o
  <1>6. CASE kind # "log"
    <2>1. /\ Len(Yielded(w)) <= MaxItem(w) /\ Len(Yielded(w)) <= Len(All(w))
          /\ Yielded(w) = SubSeq(All(w), 1, Len(Yielded(w)))
          /\ Yielded(w) \in Seq(Row)
      BY <1>6, YieldedIs
    <2>2. Len(Yielded(w)) \in Nat BY <2>1
    <2>3. Len(Yielded(w)) >= MaxItem(w)
      <3>1. ASSUME ~(Len(Yielded(w)) >= MaxItem(w)) PROVE FALSE
        <4>1. Len(Yielded(w)) < MaxItem(w) BY <1>2, <2>2, <3>1
        <4>2. w.slice = <<>> /\ w.total # None BY <1>6, <3>1 DEF Finished
        <4>3. Len(w.slice) = 0 BY <4>2
        <4>4. w.start = w.counted /\ n = w.counted BY <1>1, <1>2, <4>3
        <4>5. Yielded(w) = All(w) BY <1>6, <4>1, YieldedIs
        <4> QED BY <1>1, <1>2, <4>1, <4>4, <4>5
      <3> QED BY <3>1
    <2> DEFINE m == MaxItem(w)
    <2>4. Len(Yielded(w)) = m /\ m <= n BY <1>1, <1>2, <2>1, <2>2, <2>3
    <2>5. Yielded(w) = SubSeq(o, 1, m)
      <3>1. Yielded(w) = SubSeq(SubSeq(o, 1, n), 1, m) BY <1>1, <2>1, <2>4
      <3>2. m \in Int /\ n \in Int /\ n <= Len(o) /\ m <= n /\ m <= Len(o)
        BY <1>1, <1>2, <1>4, <2>4
      <3> HIDE DEF n, m
      <3>3. /\ SubSeq(o, 1, n) \in Seq(Row) /\ \A i \in 1 .. n : SubSeq(o, 1, n)[i] = o[i]
            /\ SubSeq(o, 1, m) \in Seq(Row) /\ Len(SubSeq(o, 1, m)) = IF m > 0 THEN m ELSE 0
            /\ \A i \in 1 .. m : SubSeq(o, 1, m)[i] = o[i]
        BY <1>4, <3>2, FirstOnes
      <3>4. Len(SubSeq(o, 1, n)) = n BY <1>1
      <3>5. /\ SubSeq(SubSeq(o, 1, n), 1, m) \in Seq(Row)
            /\ Len(SubSeq(SubSeq(o, 1, n), 1, m)) = IF m > 0 THEN m ELSE 0
            /\ \A i \in 1 .. m : SubSeq(SubSeq(o, 1, n), 1, m)[i] = SubSeq(o, 1, n)[i]
        BY <3>2, <3>3, <3>4, FirstOnes
      <3>6. Len(Yielded(w)) = Len(SubSeq(o, 1, m)) BY <3>1, <3>3, <3>5
      <3>7. \A i \in 1 .. Len(Yielded(w)) : Yielded(w)[i] = SubSeq(o, 1, m)[i]
        <4> TAKE i \in 1 .. Len(Yielded(w))
        <4>1. i \in 1 .. m /\ i \in 1 .. n BY <2>4, <3>2
        <4> QED BY <3>1, <3>3, <3>5, <4>1
      <3> QED BY <2>1, <3>3, <3>6, <3>7, SeqEqual
    <2>6. m \in m .. Total BY <1>2
    <2> HIDE DEF m
    <2> QED BY <2>5, <2>6 DEF m, o
  <1> QED BY <1>5, <1>6

-----------------------------------------------------------------------------
(* A walk whose slices join up: the steps.                                 *)

(* Rows are stored after all others, or not at all. *)
GrowsAtEnd ==
    /\ Total \in Nat /\ Total' \in Nat /\ Total <= Total'
    /\ \A i \in 1 .. Total : Ordered(rows')[i] = Ordered(rows)[i]

LEMMA SameRowsGrow ==
    ASSUME SliceInv, UNCHANGED rows
    PROVE  GrowsAtEnd /\ Total' = Total /\ Ordered(rows') = Ordered(rows)
  <1>1. Total \in Nat BY RowsAre DEF SliceInv
  <1>2. Total' = Total BY DEF Total
  <1> QED BY <1>1, <1>2 DEF GrowsAtEnd

LEMMA AppendGrows ==
    ASSUME SliceInv, SliceInv', Insert, appendOnly'
    PROVE  GrowsAtEnd /\ appendOnly
  <1>1. PICK t \in Times : /\ rows' = rows \cup {[ts |-> t, id |-> lastId + 1]}
                           /\ appendOnly' = (appendOnly /\ \A r \in rows : r.ts <= t)
    BY DEF Insert
  <1> DEFINE x == [ts |-> t, id |-> lastId + 1]
  <1>2. appendOnly /\ \A r \in rows : r.ts <= t
    BY <1>1 DEF SliceInv, TypeOK
  <1>3. x.ts = t /\ x.id = lastId + 1 OBVIOUS
  <1>4. \A r \in rows : r.id \in Nat /\ r.id <= lastId
    BY ConstantTypes DEF SliceInv, TypeOK, RowsSound
  <1>5. lastId \in Int BY DEF SliceInv, TypeOK
  <1>6. x.ts \in Nat /\ \A r \in rows : r.ts \in Nat
    BY <1>3, ConstantTypes DEF SliceInv, TypeOK
  <1> HIDE DEF x
  <1>7. \A r \in rows : Before(r, x) /\ r # x
    <2> TAKE r \in rows
    <2>1. r.ts <= x.ts /\ r.id < x.id BY <1>2, <1>3, <1>4, <1>5
    <2>2. Before(r, x) BY <1>6, <2>1 DEF Before
    <2>3. r # x BY <1>3, <1>4, <1>5, <2>1
    <2> QED BY <2>2, <2>3
  <1>8. rows' = rows \cup {x} BY <1>1 DEF x
  <1>9. Rows(rows \cup {x})
    <2>1. Rows(rows') BY RowsAfterStep
    <2> QED BY <1>8, <2>1
  <1>10. /\ Cardinality(rows \cup {x}) = Cardinality(rows) + 1
         /\ \A i \in 1 .. Cardinality(rows) : Ordered(rows \cup {x})[i] = Ordered(rows)[i]
    BY <1>7, <1>9, OrderedExtends
  <1>11. Total \in Nat BY RowsAre DEF SliceInv
  <1>12. Total' = Total + 1 /\ \A i \in 1 .. Total : Ordered(rows')[i] = Ordered(rows)[i]
    BY <1>8, <1>10 DEF Total
  <1> QED BY <1>2, <1>11, <1>12 DEF GrowsAtEnd

(* A part of the list stays. *)
LEMMA PartStays ==
    ASSUME SliceInv, SliceInv', GrowsAtEnd, NEW a \in Nat, NEW b \in Nat, a <= b, b <= Total
    PROVE  SubSeq(Ordered(rows'), a + 1, b) = SubSeq(Ordered(rows), a + 1, b)
  <1> DEFINE o == Ordered(rows)
             p == Ordered(rows')
  <1>1. o \in Seq(Row) /\ Len(o) = Total BY RowsAre DEF SliceInv
  <1>2. p \in Seq(Row) /\ Len(p) = Total' BY RowsAfterStep
  <1>3. /\ Total \in Nat /\ Total' \in Nat /\ Total <= Total'
        /\ \A i \in 1 .. Total : p[i] = o[i]
    BY DEF GrowsAtEnd
  <1>4. b <= Len(o) /\ b <= Len(p) BY <1>1, <1>2, <1>3
  <1> HIDE DEF o, p
  <1>5. /\ SubSeq(o, a + 1, b) \in Seq(Row) /\ Len(SubSeq(o, a + 1, b)) = b - a
        /\ \A i \in 1 .. b - a : SubSeq(o, a + 1, b)[i] = o[a + i]
    BY <1>1, <1>4, PartIs
  <1>6. /\ SubSeq(p, a + 1, b) \in Seq(Row) /\ Len(SubSeq(p, a + 1, b)) = b - a
        /\ \A i \in 1 .. b - a : SubSeq(p, a + 1, b)[i] = p[a + i]
    BY <1>2, <1>4, PartIs
  <1>7. \A i \in 1 .. b - a : SubSeq(p, a + 1, b)[i] = SubSeq(o, a + 1, b)[i]
    <2> TAKE i \in 1 .. b - a
    <2>1. a + i \in 1 .. Total BY <1>3
    <2> QED BY <1>3, <1>5, <1>6, <2>1
  <1>8. SubSeq(p, a + 1, b) = SubSeq(o, a + 1, b) BY <1>5, <1>6, <1>7, SeqEqual
  <1> QED BY <1>8 DEF o, p

LEMMA BeginningStays ==
    ASSUME SliceInv, SliceInv', GrowsAtEnd, NEW b \in Nat, b <= Total
    PROVE  SubSeq(Ordered(rows'), 1, b) = SubSeq(Ordered(rows), 1, b)
  <1>1. 0 \in Nat /\ 0 <= b OBVIOUS
  <1>2. SubSeq(Ordered(rows'), 0 + 1, b) = SubSeq(Ordered(rows), 0 + 1, b)
    BY <1>1, PartStays
  <1>3. 0 + 1 = 1 OBVIOUS
  <1> QED BY <1>2, <1>3

(* A walk that makes no step still joins up. *)
LEMMA JoinsUpKept ==
    ASSUME SliceInv, SliceInv', NEW c \in Client, Walking(c), JoinsUp(c),
           Kept(c), UNCHANGED kind, GrowsAtEnd
    PROVE  JoinsUp(c)'
  <1> DEFINE w == walk[c]
             v == walk'[c]
             o == Ordered(rows)
             p == Ordered(rows')
  <1>1. /\ v.phase = w.phase /\ v.start = w.start /\ v.total = w.total /\ v.got = w.got
        /\ v.count = w.count /\ v.counted = w.counted /\ v.last = w.last
        /\ v.slice = w.slice
    BY DEF Kept
  <1>2. /\ w.start \in Nat /\ w.start <= Total /\ Total \in Nat
        /\ w.total # None => w.total \in Nat /\ w.total <= Total
        /\ w.phase \in {"select", "respond"} =>
              w.counted \in Nat /\ w.counted <= Total
    BY JoinBounds
  <1>3. /\ Total' \in Nat /\ Total <= Total' /\ \A i \in 1 .. Total : p[i] = o[i]
    BY DEF GrowsAtEnd
  <1>4. v.got = SubSeq(p, 1, v.start)
    <2>1. w.got = SubSeq(o, 1, w.start) BY DEF JoinsUp
    <2>2. SubSeq(p, 1, w.start) = SubSeq(o, 1, w.start)
      BY <1>2, BeginningStays
    <2> HIDE DEF o, p
    <2> QED BY <1>1, <2>1, <2>2
  <1>5. v.total = None \/ (v.total <= Total' /\ (v.start < v.total \/ (v.start = 0 /\ kind' = "log")))
    <2>1. w.total = None \/ (w.total <= Total /\ (w.start < w.total \/ (w.start = 0 /\ kind = "log")))
      BY DEF JoinsUp
    <2>2. w.total # None => w.total <= Total' BY <1>2, <1>3
    <2> QED BY <1>1, <2>1, <2>2
  <1>6. v.phase \in {"select", "respond"} =>
              v.counted <= Total' /\ (v.total = None \/ v.total <= v.counted)
    <2>1. w.phase \in {"select", "respond"} => (w.total = None \/ w.total <= w.counted)
      BY DEF JoinsUp
    <2>2. w.phase \in {"select", "respond"} => w.counted <= Total' BY <1>2, <1>3
    <2> QED BY <1>1, <2>1, <2>2
  <1>7. Sized(c)' = Sized(c) BY <1>1 DEF Sized
  <1>8. v.phase = "select" =>
              /\ v.count = Sized(c)'
              /\ v.last # None => v.start \in 1 .. Total' /\ v.last = p[v.start]
    <2>1. w.phase = "select" =>
              /\ w.count = Sized(c)
              /\ w.last # None => w.start \in 1 .. Total /\ w.last = o[w.start]
      BY DEF JoinsUp
    <2>2. 1 .. Total \subseteq 1 .. Total' BY <1>2, <1>3
    <2> HIDE DEF o, p
    <2> QED BY <1>1, <1>3, <1>7, <2>1, <2>2
  <1>9. v.phase = "respond" =>
              /\ Len(v.slice) = Sized(c)'
              /\ v.slice = SubSeq(p, v.start + 1, v.start + Len(v.slice))
    <2> HAVE v.phase = "respond"
    <2>1. w.phase = "respond" BY <1>1
    <2>2. /\ Len(w.slice) = Sized(c)
          /\ w.slice = SubSeq(o, w.start + 1, w.start + Len(w.slice))
      BY <2>1 DEF JoinsUp
    <2> DEFINE b == w.start + Len(w.slice)
    <2>3. b \in Nat /\ b <= Total /\ w.start <= b
      <3>1. b \in Nat /\ b <= Total BY <2>1, JoinAll
      <3>2. Len(w.slice) \in Nat
        <4>1. w.slice \in Seq(Row) BY DEF SliceInv, TypeOK, Walk
        <4> QED BY <4>1
      <3> QED BY <1>2, <3>1, <3>2
    <2> HIDE DEF b
    <2>4. SubSeq(p, w.start + 1, b) = SubSeq(o, w.start + 1, b)
      BY <1>2, <2>3, PartStays
    <2> HIDE DEF o, p
    <2> QED BY <1>1, <1>7, <2>2, <2>4 DEF b
  <1> QED BY <1>4, <1>5, <1>6, <1>8, <1>9 DEF JoinsUp

(* A walk joins up after its own step, if it got a row from the cache that   *)
(* is where the cache says.                                                  *)
LEMMA JoinsUpOwn ==
    ASSUME SliceInv, SliceInv', NEW c \in Client, Open(c) \/ Step(c),
           Walking(c) => JoinsUp(c),
           walk[c].phase = "next" =>
              LET l == cache[walk[c].process][Key(walk[c].start, Total)]
              IN  l # None => /\ walk[c].start \in 1 .. Total
                              /\ l = Ordered(rows)[walk[c].start]
    PROVE  Walking(c)' => JoinsUp(c)'
  <1> DEFINE w == walk[c]
             v == walk'[c]
             o == Ordered(rows)
  <1>0. UNCHANGED <<kind, rows>> /\ TypeOK
    BY DEF Open, GetTotal, BeginRequest, Select, Respond, Step, SliceInv
  <1>1. Total' = Total /\ Ordered(rows') = o /\ Total \in Nat
    BY <1>0, SameRowsGrow DEF GrowsAtEnd
  <1>2. SubSeq(o, 1, 0) = <<>>
    <2>1. o \in Seq(Row) /\ Len(o) = Total BY RowsAre DEF SliceInv
    <2> HIDE DEF o
    <2>2. SubSeq(o, 1, 0) \in Seq(Row) /\ Len(SubSeq(o, 1, 0)) = 0
      BY <1>1, <2>1, FirstOnes
    <2> QED BY <2>2, EmptySeq
  <1>3. SUFFICES ASSUME Walking(c)'
                 PROVE  /\ v.got = SubSeq(o, 1, v.start)
                        /\ \/ v.total = None
                           \/ v.total <= Total /\ (v.start < v.total \/ (v.start = 0 /\ kind = "log"))
                        /\ v.phase \in {"select", "respond"} =>
                              v.counted <= Total /\ (v.total = None \/ v.total <= v.counted)
                        /\ v.phase = "select" =>
                              /\ v.count = Sized(c)'
                              /\ v.last # None => v.start \in 1 .. Total /\ v.last = o[v.start]
                        /\ v.phase = "respond" =>
                              /\ Len(v.slice) = Sized(c)'
                              /\ v.slice = SubSeq(o, v.start + 1, v.start + Len(v.slice))
    BY <1>0, <1>1 DEF JoinsUp
  <1>4. CASE Open(c)
    <2>1. Fresh(v) /\ v.phase \in {"open", "next"} BY <1>0, <1>4, OpenIs
    <2> HIDE DEF o
    <2> QED BY <1>2, <2>1 DEF Fresh
  <1>5. CASE GetTotal(c)
    <2>1. /\ kind = "log" /\ v.phase = "next" /\ v.start = 0 /\ v.total = Total /\ v.got = <<>>
      BY <1>5, GetTotalIs
    <2> HIDE DEF o
    <2> QED BY <1>1, <1>2, <2>1
  <1>6. CASE BeginRequest(c)
    <2>1. w.phase = "next" /\ Walking(c) /\ JoinsUp(c) BY <1>6, BeginIs DEF Walking
    <2>2. v # Idle BY <1>3, IdleIs DEF Walking
    <2>3. /\ v.phase = "select" /\ v.counted = Total
          /\ v.count = Count(w.start, PageSize[c], Total)
          /\ v.last = cache[w.process][Key(w.start, Total)]
          /\ v.start = w.start /\ v.total = w.total /\ v.got = w.got
      BY <1>6, <2>2, BeginIs
    <2>4. Sized(c)' = Count(v.start, PageSize[c], v.counted) BY DEF Sized
    <2>5. /\ w.got = SubSeq(o, 1, w.start)
          /\ w.total = None \/ (w.total <= Total /\ (w.start < w.total \/ (w.start = 0 /\ kind = "log")))
      BY <2>1 DEF JoinsUp
    <2> HIDE DEF o
    <2> QED BY <1>1, <2>1, <2>3, <2>4, <2>5 DEF o
  <1>7. CASE Select(c)
    <2>1. w.phase = "select" /\ Walking(c) /\ JoinsUp(c) BY <1>7, SelectIs DEF Walking
    <2>2. /\ v.phase = "respond" /\ v.slice = Slice(w)
          /\ v.start = w.start /\ v.total = w.total /\ v.got = w.got /\ v.counted = w.counted
      BY <1>7, SelectIs
    <2>3. Sized(c)' = Sized(c) BY <2>2 DEF Sized
    <2>4. Len(Slice(w)) = Sized(c) /\ Slice(w) = SubSeq(o, w.start + 1, w.start + Sized(c))
      BY <2>1, JoinSelect
    <2>5. /\ w.got = SubSeq(o, 1, w.start)
          /\ w.total = None \/ (w.total <= Total /\ (w.start < w.total \/ (w.start = 0 /\ kind = "log")))
          /\ w.counted <= Total /\ (w.total = None \/ w.total <= w.counted)
      BY <2>1 DEF JoinsUp
    <2> HIDE DEF o
    <2> QED BY <2>2, <2>3, <2>4, <2>5
  <1>8. CASE Respond(c)
    <2>1. w.phase = "respond" /\ Walking(c) /\ JoinsUp(c) BY <1>8, RespondIs DEF Walking
    <2>2. v # Idle BY <1>3, IdleIs DEF Walking
    <2>3. /\ ~Finished(w) /\ v.phase = "next" /\ v.start = w.start + Len(w.slice)
          /\ v.total = MaxItem(w) /\ v.got = Yielded(w)
      BY <1>8, <2>2, RespondIs
    <2>4. /\ Yielded(w) = SubSeq(o, 1, w.start + Len(w.slice))
          /\ w.start + Len(w.slice) < MaxItem(w) /\ MaxItem(w) <= Total
      BY <2>1, <2>3, JoinNext
    <2> HIDE DEF o
    <2> QED BY <2>3, <2>4
  <1> QED BY <1>4, <1>5, <1>6, <1>7, <1>8 DEF Step

(* What a walk that joins up puts in the cache. *)
LEMMA JoinsCached ==
    ASSUME SliceInv, NEW c \in Client, walk[c].phase = "respond", JoinsUp(c),
           NEW p \in Process, NEW k \in Position \X Position,
           Cached(walk[c])[p][k] # None,
           cache[p][k] # None => k[1] \in 1 .. Total /\ cache[p][k] = Ordered(rows)[k[1]]
    PROVE  k[1] \in 1 .. Total /\ Cached(walk[c])[p][k] = Ordered(rows)[k[1]]
  <1> DEFINE w == walk[c]
             n == w.start + Len(w.slice)
  <1>1. CASE p = w.process /\ k = Key(n, w.counted)
    <2>1. Cached(w)[p][k] = LastOf(w.slice) BY <1>1, CachedIs
    <2>2. w.slice # <<>> BY <2>1, CachedIs
    <2>3. LastOf(w.slice) = w.slice[Len(w.slice)] BY <2>2, CachedIs
    <2>4. n \in 1 .. Total /\ w.slice[Len(w.slice)] = Ordered(rows)[n] BY <2>2, JoinAll
    <2>5. k[1] = n BY <1>1 DEF Key
    <2> QED BY <2>1, <2>3, <2>4, <2>5
  <1>2. CASE ~(p = w.process /\ k = Key(n, w.counted))
    <2>1. Cached(w)[p][k] = cache[p][k] BY <1>2, CachedIs
    <2> QED BY <2>1
  <1> QED BY <1>1, <1>2

LEMMA CacheJoinsUpKept ==
    ASSUME CacheJoinsUp, GrowsAtEnd,
           \A p \in Process, k \in Position \X Position : cache'[p][k] \in {None, cache[p][k]}
    PROVE  CacheJoinsUp'
  <1>1. 1 .. Total \subseteq 1 .. Total' BY DEF GrowsAtEnd
  <1> SUFFICES ASSUME NEW p \in Process, NEW k \in Position \X Position,
                      cache'[p][k] # None
               PROVE  k[1] \in 1 .. Total' /\ cache'[p][k] = Ordered(rows')[k[1]]
    BY DEF CacheJoinsUp
  <1>2. cache'[p][k] = cache[p][k] OBVIOUS
  <1>3. k[1] \in 1 .. Total /\ cache[p][k] = Ordered(rows)[k[1]]
    BY <1>2 DEF CacheJoinsUp
  <1> QED BY <1>1, <1>2, <1>3 DEF GrowsAtEnd

LEMMA AppendInvStep ==
    ASSUME SliceInv, SliceInv', AppendInv, [Next]_vars, appendOnly'
    PROVE  AppendInv'
  <1> USE DEF AppendInv
  <1>1. ASSUME appendOnly, GrowsAtEnd, UNCHANGED kind, \A c \in Client : Kept(c),
               \A p \in Process, k \in Position \X Position : cache'[p][k] \in {None, cache[p][k]}
        PROVE  AppendInv'
    <2>1. CacheJoinsUp' BY <1>1, CacheJoinsUpKept
    <2>2. ASSUME NEW c \in Client, Walking(c)' PROVE JoinsUp(c)'
      <3>1. Walking(c) BY <1>1, <2>2 DEF Kept, Walking
      <3> QED BY <1>1, <2>2, <3>1, JoinsUpKept
    <2> QED BY <2>1, <2>2
  <1>2. CASE Insert
    <2>1. appendOnly /\ GrowsAtEnd BY <1>2, AppendGrows
    <2>2. UNCHANGED <<kind, cache>> /\ \A c \in Client : Kept(c)
      BY <1>2, StoredOrGone DEF SliceInv
    <2> QED BY <1>1, <2>1, <2>2
  <1>3. CASE Delete BY <1>3 DEF Delete
  <1>4. CASE Touch BY <1>4 DEF Touch
  <1>5. CASE Expire
    <2>1. /\ UNCHANGED <<kind, rows, appendOnly>> /\ \A c \in Client : Kept(c)
          /\ \A p \in Process, k \in Position \X Position : cache'[p][k] \in {None, cache[p][k]}
      BY <1>5, ExpireIs DEF SliceInv
    <2> QED BY <1>1, <2>1, SameRowsGrow
  <1>6. ASSUME NEW c \in Client, Open(c) \/ Step(c) PROVE AppendInv'
    <2>1. UNCHANGED <<kind, rows, appendOnly>>
      BY <1>6 DEF Open, GetTotal, BeginRequest, Select, Respond, Step
    <2>2. GrowsAtEnd /\ Total' = Total /\ Ordered(rows') = Ordered(rows)
      BY <2>1, SameRowsGrow
    <2>3. CacheJoinsUp /\ \A d \in Client : Walking(d) => JoinsUp(d) BY <2>1
    <2>4. ASSUME walk[c].phase = "next"
          PROVE  LET l == cache[walk[c].process][Key(walk[c].start, Total)]
                 IN  l # None => /\ walk[c].start \in 1 .. Total
                                 /\ l = Ordered(rows)[walk[c].start]
      <3>1. walk[c].process \in Process /\ walk[c].start \in Position
        BY <2>4 DEF SliceInv, TypeOK, Walk, RequestsSound, RequestSound, Walking
      <3>2. Key(walk[c].start, Total) \in Position \X Position
        BY <3>1, RowsAre DEF Key, SliceInv
      <3>3. Key(walk[c].start, Total)[1] = walk[c].start BY DEF Key
      <3> QED BY <2>3, <3>1, <3>2, <3>3 DEF CacheJoinsUp
    <2>5. Walking(c)' => JoinsUp(c)' BY <1>6, <2>3, <2>4, JoinsUpOwn
    <2>6. Others(c)
      BY <1>6, OpenIs, GetTotalIs, BeginIs, SelectIs, RespondIs DEF Step, SliceInv
    <2>7. ASSUME NEW d \in Client, Walking(d)' PROVE JoinsUp(d)'
      <3>1. CASE d = c BY <2>5, <2>7, <3>1
      <3>2. CASE d # c
        <4>1. Kept(d) BY <2>6, <3>2 DEF Others
        <4>2. Walking(d) BY <2>7, <4>1 DEF Kept, Walking
        <4> QED BY <2>1, <2>2, <2>3, <4>1, <4>2, JoinsUpKept
      <3> QED BY <3>1, <3>2
    <2>8. CacheJoinsUp'
      <3>1. CASE ~Respond(c)
        <4>1. UNCHANGED cache BY <1>6, <3>1 DEF Open, GetTotal, BeginRequest, Select, Step
        <4> QED BY <2>2, <2>3, <4>1, CacheJoinsUpKept
      <3>2. CASE Respond(c)
        <4>1. walk[c].phase = "respond" /\ cache' = Cached(walk[c]) BY <3>2, RespondIs
        <4>2. JoinsUp(c) BY <2>3, <4>1 DEF Walking
        <4> SUFFICES ASSUME NEW p \in Process, NEW k \in Position \X Position,
                            cache'[p][k] # None
                     PROVE  k[1] \in 1 .. Total' /\ cache'[p][k] = Ordered(rows')[k[1]]
          BY DEF CacheJoinsUp
        <4>3. cache[p][k] # None => k[1] \in 1 .. Total /\ cache[p][k] = Ordered(rows)[k[1]]
          BY <2>3 DEF CacheJoinsUp
        <4> QED BY <2>2, <4>1, <4>2, <4>3, JoinsCached
      <3> QED BY <3>1, <3>2
    <2> QED BY <2>7, <2>8
  <1>7. CASE UNCHANGED vars
    <2>1. /\ UNCHANGED <<kind, rows, appendOnly, cache>> /\ \A c \in Client : Kept(c)
      BY <1>7 DEF vars, Kept
    <2> QED BY <1>1, <2>1, SameRowsGrow
  <1> QED BY <1>2, <1>3, <1>4, <1>5, <1>6, <1>7 DEF Next

(* Only an answer, or an error, ends an iteration. *)
LEMMA AnswerEnds ==
    ASSUME SliceInv, [Next]_vars, NEW c \in Client, Ends(c),
           walk[c].phase = "next" => ~InvalidStart(walk[c].start, Total)
    PROVE  walk[c].phase = "respond" /\ Finished(walk[c])
  <1>0. walk[c].phase # "idle" /\ walk'[c].phase = "idle" BY DEF Ends, Active
  <1>1. \A d \in Client : Open(d) \/ Step(d) => d = c
    <2>1. ASSUME NEW d \in Client, Open(d) \/ Step(d), d # c PROVE FALSE
      <3>1. Others(d)
        BY <2>1, OpenIs, GetTotalIs, BeginIs, SelectIs, RespondIs DEF Step, SliceInv
      <3>2. Kept(c) BY <2>1, <3>1 DEF Others
      <3> QED BY <1>0, <3>2 DEF Kept
    <2> QED BY <2>1
  <1>2. Open(c) \/ Step(c)
    <2>1. ASSUME ~(Open(c) \/ Step(c)) PROVE FALSE
      <3>1. \/ Insert \/ Delete \/ Touch \/ Expire \/ UNCHANGED vars
        BY <1>1, <2>1 DEF Next
      <3>2. Kept(c)
        BY <3>1, StoredOrGone, TouchIs, ExpireIs DEF SliceInv, vars, Kept
      <3> QED BY <1>0, <3>2 DEF Kept
    <2> QED BY <2>1
  <1>3. ~Open(c) BY <1>0 DEF Open, Active
  <1>4. ~GetTotal(c) BY <1>0, GetTotalIs
  <1>5. ~BeginRequest(c) BY <1>0, BeginIs
  <1>6. ~Select(c) BY <1>0, SelectIs
  <1>7. Respond(c) BY <1>2, <1>3, <1>4, <1>5, <1>6 DEF Step
  <1> QED BY <1>0, <1>7, RespondIs

LEMMA JoinsUpEnds ==
    ASSUME SliceInv, [Next]_vars, NEW c \in Client, Ends(c), Walking(c) => JoinsUp(c)
    PROVE  walk[c].phase = "respond" /\ Finished(walk[c]) /\ JoinsUp(c)
  <1>1. walk[c].phase = "next" => ~InvalidStart(walk[c].start, Total)
    BY JoinBounds DEF Walking
  <1> QED BY <1>1, AnswerEnds DEF Walking

(* If rows are only ever appended, every client that gets to the end has the *)
(* rows in their order, none twice and none left out, at least as many as    *)
(* were counted for it: however many clients walk, whichever processes       *)
(* answer, and whatever the caches drop.                                     *)
THEOREM SliceAppendedJoinUp == Spec => AppendedRowsJoinUp
  <1>1. Init => AppendInv
    <2> SUFFICES ASSUME Init PROVE AppendInv OBVIOUS
    <2>1. \A c \in Client : ~Walking(c) BY IdleIs DEF Init, Walking
    <2>2. CacheJoinsUp BY DEF Init, CacheJoinsUp
    <2> QED BY <2>1, <2>2 DEF AppendInv
  <1>2. SliceInv /\ SliceInv' /\ AppendInv /\ [Next]_vars => AppendInv'
    <2>1. CASE appendOnly' BY <2>1, AppendInvStep
    <2>2. CASE ~appendOnly' BY <2>2 DEF AppendInv
    <2> QED BY <2>1, <2>2
  <1>3. Spec => [](SliceInv /\ AppendInv)
    BY <1>1, <1>2, SliceInvariant, PTL DEF Spec
  <1>4. SliceInv /\ AppendInv /\ [Next]_vars =>
          [\A c \in Client :
             Ends(c) /\ appendOnly =>
                \E n \in MaxItem(walk[c]) .. Total :
                    EndsWith(c, SubSeq(Ordered(rows), 1, n))]_vars
    <2> SUFFICES ASSUME SliceInv, AppendInv, [Next]_vars,
                        NEW c \in Client, Ends(c), appendOnly
                 PROVE  \E n \in MaxItem(walk[c]) .. Total :
                            EndsWith(c, SubSeq(Ordered(rows), 1, n))
      OBVIOUS
    <2>1. Walking(c) => JoinsUp(c) BY DEF AppendInv
    <2>2. walk[c].phase = "respond" /\ Finished(walk[c]) /\ JoinsUp(c)
      BY <2>1, JoinsUpEnds
    <2>3. \E m \in MaxItem(walk[c]) .. Total : Yielded(walk[c]) = SubSeq(Ordered(rows), 1, m)
      BY <2>2, JoinEnd
    <2> QED BY <2>2, <2>3 DEF EndsWith
  <1> QED BY <1>3, <1>4, PTL DEF Spec, AppendedRowsJoinUp

-----------------------------------------------------------------------------
(* A walk that nothing disturbs, and that one process answers.             *)

(* What the cache has for the position of a quiet walk. *)
LEMMA QuietFinds ==
    ASSUME SliceInv, NEW c \in Client, walk[c].phase = "next", FindsOwn(c), JoinsUp(c),
           cache[walk[c].process][Key(walk[c].start, Total)] # None
    PROVE  /\ walk[c].start \in 1 .. Total
           /\ cache[walk[c].process][Key(walk[c].start, Total)] = Ordered(rows)[walk[c].start]
  <1>1. /\ walk[c].process \in Process /\ walk[c].start \in Nat /\ walk[c].start <= Total
        /\ Total \in Nat /\ Total \in Position
    BY JoinBounds, RowsAre DEF SliceInv, RequestsSound, RequestSound, Walking
  <1>2. walk[c].start # 0
    BY <1>1 DEF SliceInv, StartsUncached
  <1>3. walk[c].start > 0 BY <1>1, <1>2
  <1>4. cache[walk[c].process][Key(walk[c].start, Total)] = Ordered(rows)[walk[c].start]
    BY <1>3 DEF FindsOwn
  <1> QED BY <1>1, <1>3, <1>4

LEMMA FindsOwnStep ==
    ASSUME SliceInv, NEW c \in Client, Open(c) \/ Step(c), OneProcess(c)', Walking(c)',
           Walking(c) => JoinsUp(c) /\ FindsOwn(c)
    PROVE  FindsOwn(c)'
  <1> DEFINE w == walk[c]
             v == walk'[c]
             o == Ordered(rows)
  <1>0. UNCHANGED rows /\ TypeOK
    BY DEF Open, GetTotal, BeginRequest, Select, Respond, Step, SliceInv
  <1>1. Total' = Total /\ Ordered(rows') = o
    BY <1>0, SameRowsGrow
  <1>2. SUFFICES /\ v.total \in {None, Total}
                 /\ v.phase \in {"select", "respond"} => v.counted = Total
                 /\ v.phase = "next" /\ v.start > 0 =>
                       cache'[v.process][Key(v.start, Total)] \in {None, o[v.start]}
    BY <1>1 DEF FindsOwn, Key
  <1> HIDE DEF o
  <1>3. CASE Open(c)
    <2>1. Fresh(v) /\ v.phase \in {"open", "next"} BY <1>0, <1>3, OpenIs
    <2> QED BY <2>1 DEF Fresh
  <1>4. CASE GetTotal(c)
    <2>1. v.phase = "next" /\ v.start = 0 /\ v.total = Total BY <1>4, GetTotalIs
    <2> QED BY <2>1
  <1>5. CASE BeginRequest(c)
    <2>1. w.phase = "next" /\ Walking(c) BY <1>5, BeginIs DEF Walking
    <2>2. v # Idle BY IdleIs DEF Walking
    <2>3. v.phase = "select" /\ v.counted = Total /\ v.total = w.total
      BY <1>5, <2>2, BeginIs
    <2> QED BY <2>1, <2>3 DEF FindsOwn
  <1>6. CASE Select(c)
    <2>1. w.phase = "select" /\ Walking(c) BY <1>6, SelectIs DEF Walking
    <2>2. v.phase = "respond" /\ v.counted = w.counted /\ v.total = w.total
      BY <1>6, SelectIs
    <2> QED BY <2>1, <2>2 DEF FindsOwn
  <1>7. CASE Respond(c)
    <2>1. w.phase = "respond" /\ Walking(c) /\ JoinsUp(c) /\ FindsOwn(c)
      BY <1>7, RespondIs DEF Walking
    <2>2. v # Idle BY IdleIs DEF Walking
    <2>3. /\ v.phase = "next" /\ v.start = w.start + Len(w.slice) /\ v.process \in Process
          /\ v.total = MaxItem(w) /\ cache' = Cached(w)
          /\ v.switched \/ v.process = w.process
      BY <1>7, <2>2, RespondIs
    <2>4. w.counted = Total /\ w.total \in {None, Total} BY <2>1 DEF FindsOwn
    <2>5. MaxItem(w) = Total BY <2>4 DEF MaxItem
    <2>6. w.process \in Process BY <2>1 DEF SliceInv, RequestsSound, RequestSound
    <2>7. v.process = w.process BY <2>3 DEF OneProcess
    <2>8. v.start \in Position /\ Total \in Position
      BY <2>1, <2>3, RowsAre DEF SliceInv, RequestsSound, RequestSound
    <2>9. cache'[v.process][Key(v.start, Total)] = LastOf(w.slice)
      <3>1. Key(v.start, Total) \in Position \X Position BY <2>8 DEF Key
      <3>2. Key(v.start, Total) = Key(w.start + Len(w.slice), w.counted) BY <2>3, <2>4
      <3> QED BY <2>1, <2>3, <2>6, <2>7, <3>1, <3>2, CachedIs
    <2>10. LastOf(w.slice) \in {None, o[v.start]}
      <3>1. CASE w.slice = <<>> BY <2>1, <3>1, CachedIs
      <3>2. CASE w.slice # <<>>
        <4>1. LastOf(w.slice) = w.slice[Len(w.slice)] BY <2>1, <3>2, CachedIs
        <4>2. w.slice[Len(w.slice)] = o[w.start + Len(w.slice)]
          BY <2>1, <3>2, JoinAll DEF o
        <4> QED BY <2>3, <4>1, <4>2
      <3> QED BY <3>1, <3>2
    <2> QED BY <2>3, <2>5, <2>9, <2>10
  <1> QED BY <1>3, <1>4, <1>5, <1>6, <1>7 DEF Step

LEMMA QuietInvStep ==
    ASSUME SliceInv, SliceInv', QuietInv, [Next]_vars
    PROVE  QuietInv'
  <1> SUFFICES ASSUME NEW c \in Client, Walking(c)', Quiet(c)'
               PROVE  JoinsUp(c)' /\ FindsOwn(c)'
    BY DEF QuietInv
  <1> DEFINE w == walk[c]
             v == walk'[c]
  <1>1. v.moved = {} /\ ~v.disturbed /\ ~v.switched /\ OneProcess(c)' BY DEF Quiet, OneProcess
  <1>2. Kept(c) => Walking(c) /\ Active(c) BY DEF Kept, Walking, Active
  <1>3. ASSUME Kept(c), Quiet(c), UNCHANGED <<kind, rows>>,
               \A p \in Process, k \in Position \X Position : cache'[p][k] \in {None, cache[p][k]}
        PROVE  JoinsUp(c)' /\ FindsOwn(c)'
    <2>1. Walking(c) /\ JoinsUp(c) /\ FindsOwn(c) BY <1>2, <1>3 DEF QuietInv
    <2>2. GrowsAtEnd /\ Total' = Total /\ Ordered(rows') = Ordered(rows)
      BY <1>3, SameRowsGrow
    <2>3. JoinsUp(c)' BY <1>3, <2>1, <2>2, JoinsUpKept
    <2>4. /\ v.phase = w.phase /\ v.start = w.start /\ v.total = w.total
          /\ v.process = w.process /\ v.counted = w.counted
      BY <1>3 DEF Kept
    <2>5. w.process \in Process /\ Key(w.start, Total) \in Position \X Position
      BY <2>1, RowsAre DEF SliceInv, TypeOK, Walk, RequestsSound, RequestSound, Key
    <2>6. cache'[w.process][Key(w.start, Total)] \in {None, cache[w.process][Key(w.start, Total)]}
      BY <1>3, <2>5
    <2>7. FindsOwn(c)' BY <2>1, <2>2, <2>4, <2>6 DEF FindsOwn, Key
    <2> QED BY <2>3, <2>7
  <1>4. CASE Insert \/ Delete
    <2>1. Kept(c) /\ (Active(c) => v.disturbed) BY <1>4, StoredOrGone DEF SliceInv
    <2> QED BY <1>1, <1>2, <2>1
  <1>5. CASE Touch
    <2>1. PICK r \in rows, t \in Times : TouchedAs(r, t) BY <1>5, TouchIs DEF SliceInv
    <2>2. Kept(c) BY <1>5, TouchIs DEF SliceInv
    <2>3. v.disturbed \/ v.moved = w.moved \cup {r.id}
      BY <1>2, <2>1, <2>2 DEF TouchedAs
    <2> QED BY <1>1, <2>3
  <1>6. CASE Expire
    <2>1. /\ UNCHANGED <<kind, rows>> /\ Kept(c)
          /\ \A p \in Process, k \in Position \X Position : cache'[p][k] \in {None, cache[p][k]}
          /\ Active(c) => v.disturbed \/ (~w.disturbed /\ w.moved = {})
      BY <1>6, ExpireIs DEF SliceInv
    <2>2. Quiet(c) BY <1>1, <1>2, <2>1 DEF Quiet, OneProcess, Kept
    <2> QED BY <1>3, <2>1, <2>2
  <1>7. ASSUME NEW d \in Client \ {c}, Open(d) \/ Step(d) PROVE FALSE
    <2>1. Others(d)
      BY <1>7, OpenIs, GetTotalIs, BeginIs, SelectIs, RespondIs DEF Step, SliceInv
    <2>2. Kept(c) /\ (Active(c) => v.disturbed) BY <2>1 DEF Others
    <2> QED BY <1>1, <1>2, <2>2
  <1>8. CASE Open(c) \/ Step(c)
    <2>1. Walking(c) => JoinsUp(c) /\ FindsOwn(c)
      <3>1. SUFFICES ASSUME Walking(c) PROVE Quiet(c) BY DEF QuietInv
      <3>2. v # Idle BY IdleIs DEF Walking
      <3>3. ~Open(c) BY <3>1 DEF Open, Active, Walking
      <3>4. SameNotes(v, w)
        BY <1>8, <3>2, <3>3, GetTotalIs, BeginIs, SelectIs, RespondIs DEF Step
      <3> QED BY <1>1, <3>4 DEF SameNotes, Quiet, OneProcess
    <2>2. ASSUME w.phase = "next"
          PROVE  LET l == cache[w.process][Key(w.start, Total)]
                 IN  l # None => w.start \in 1 .. Total /\ l = Ordered(rows)[w.start]
      <3>1. JoinsUp(c) /\ FindsOwn(c) BY <2>1, <2>2 DEF Walking
      <3> QED BY <2>2, <3>1, QuietFinds
    <2>3. JoinsUp(c)' BY <1>8, <2>1, <2>2, JoinsUpOwn
    <2>4. FindsOwn(c)' BY <1>1, <1>8, <2>1, FindsOwnStep
    <2> QED BY <2>3, <2>4
  <1>9. CASE UNCHANGED vars
    <2>1. /\ UNCHANGED <<kind, rows, cache>> /\ Kept(c) /\ v = w
      BY <1>9 DEF vars, Kept
    <2>2. Quiet(c) BY <1>1, <2>1 DEF Quiet, OneProcess
    <2> QED BY <1>3, <2>1, <2>2
  <1> QED BY <1>4, <1>5, <1>6, <1>7, <1>8, <1>9 DEF Next

(* "Retrieving a filtered result set in many small slices gives the same    *)
(* result as retrieving everything in a single call without slicing"        *)
(* (test_slice.py), however many processes the server has, if the same one   *)
(* answers all requests of the walk: whatever its cache holds from earlier   *)
(* walks and drops meanwhile.                                                *)
THEOREM SliceQuietComplete == Spec => QuietWalkComplete
  <1>1. Init => QuietInv
    <2> SUFFICES ASSUME Init PROVE QuietInv OBVIOUS
    <2>1. \A c \in Client : ~Walking(c) BY IdleIs DEF Init, Walking
    <2> QED BY <2>1 DEF QuietInv
  <1>2. SliceInv /\ SliceInv' /\ QuietInv /\ [Next]_vars => QuietInv'
    BY QuietInvStep
  <1>3. Spec => [](SliceInv /\ QuietInv)
    BY <1>1, <1>2, SliceInvariant, PTL DEF Spec
  <1>4. SliceInv /\ QuietInv /\ [Next]_vars =>
          [\A c \in Client :
             Ends(c) /\ OneProcess(c) /\ walk[c].moved = {} /\ ~walk[c].disturbed =>
                EndsWith(c, Ordered(rows))]_vars
    <2> SUFFICES ASSUME SliceInv, QuietInv, [Next]_vars,
                        NEW c \in Client, Ends(c), Quiet(c)
                 PROVE  EndsWith(c, Ordered(rows))
      BY DEF Quiet
    <2>1. Walking(c) => JoinsUp(c) /\ FindsOwn(c) BY DEF QuietInv
    <2>2. walk[c].phase = "respond" /\ Finished(walk[c]) /\ JoinsUp(c) /\ FindsOwn(c)
      BY <2>1, JoinsUpEnds DEF Walking
    <2>3. PICK m \in MaxItem(walk[c]) .. Total : Yielded(walk[c]) = SubSeq(Ordered(rows), 1, m)
      BY <2>2, JoinEnd
    <2>4. MaxItem(walk[c]) = Total BY <2>2 DEF FindsOwn, MaxItem
    <2>5. Total \in Nat /\ Ordered(rows) \in Seq(Row) /\ Len(Ordered(rows)) = Total
      BY RowsAre DEF SliceInv
    <2>6. m = Total BY <2>3, <2>4, <2>5
    <2>7. SubSeq(Ordered(rows), 1, Total) = Ordered(rows) BY <2>5, SubSeqFull
    <2> QED BY <2>2, <2>3, <2>6, <2>7 DEF EndsWith
  <1> QED BY <1>3, <1>4, PTL DEF Spec, QuietWalkComplete

-----------------------------------------------------------------------------
(* A walk during which rows are updated, and that one process answers.     *)

LEMMA RowOrder ==
    /\ \A r \in Row : ~Before(r, r)
    /\ \A r \in Row, s \in Row, t \in Row : Before(r, s) /\ Before(s, t) => Before(r, t)
    /\ \A r \in Row, s \in Row : ~(Before(r, s) /\ Before(s, r))
  BY ConstantTypes DEF Before

(* All members of an increasing sequence come before a row that its last    *)
(* one comes before.                                                         *)
LEMMA BeforeLast ==
    ASSUME NEW q \in Seq(Row), Increasing(q), NEW n \in 1 .. Len(q), NEW r \in Row,
           r = q[n] \/ Before(q[n], r)
    PROVE  /\ \A i \in 1 .. n : i < n => Before(q[i], r)
           /\ Before(q[n], r) => \A i \in 1 .. n : Before(q[i], r)
  <1>1. Len(q) \in Nat /\ DOMAIN q = 1 .. Len(q) /\ \A i \in 1 .. Len(q) : q[i] \in Row
    OBVIOUS
  <1>2. ASSUME NEW i \in 1 .. n, i < n PROVE Before(q[i], r)
    <2>1. i \in 1 .. Len(q) BY <1>1
    <2>2. Before(q[i], q[n]) BY <1>1, <1>2, <2>1 DEF Increasing
    <2>3. q[i] \in Row /\ q[n] \in Row BY <1>1, <2>1
    <2> QED BY <2>2, <2>3, RowOrder
  <1>3. ASSUME Before(q[n], r), NEW i \in 1 .. n PROVE Before(q[i], r)
    <2>1. i = n \/ i < n BY <1>1
    <2> QED BY <1>2, <1>3, <2>1
  <1> QED BY <1>2, <1>3

LEMMA IncreasingConcat ==
    ASSUME NEW s \in Seq(Row), NEW t \in Seq(Row), Increasing(s), Increasing(t),
           s # <<>> => \A i \in 1 .. Len(t) : Before(s[Len(s)], t[i])
    PROVE  Increasing(s \o t)
  <1> DEFINE q == s \o t
  <1>1. /\ Len(s) \in Nat /\ Len(t) \in Nat
        /\ DOMAIN s = 1 .. Len(s) /\ DOMAIN t = 1 .. Len(t)
        /\ \A i \in 1 .. Len(t) : t[i] \in Row
    OBVIOUS
  <1>2. /\ q \in Seq(Row) /\ Len(q) = Len(s) + Len(t)
        /\ \A i \in 1 .. Len(s) + Len(t) : q[i] = IF i <= Len(s) THEN s[i] ELSE t[i - Len(s)]
    BY ConcatProperties
  <1> HIDE DEF q
  <1>3. DOMAIN q = 1 .. Len(s) + Len(t) BY <1>2, LenProperties
  <1>4. ASSUME NEW i \in 1 .. Len(s) + Len(t), NEW j \in 1 .. Len(s) + Len(t), i < j
        PROVE  Before(q[i], q[j])
    <2>1. CASE j <= Len(s)
      <3>1. i \in 1 .. Len(s) /\ j \in 1 .. Len(s) BY <1>1, <1>4, <2>1
      <3>2. q[i] = s[i] /\ q[j] = s[j] BY <1>1, <1>2, <3>1
      <3> QED BY <1>1, <1>4, <3>1, <3>2 DEF Increasing
    <2>2. CASE i > Len(s)
      <3>1. /\ i - Len(s) \in 1 .. Len(t) /\ j - Len(s) \in 1 .. Len(t)
            /\ i - Len(s) < j - Len(s)
        BY <1>1, <1>4, <2>2
      <3>2. q[i] = t[i - Len(s)] /\ q[j] = t[j - Len(s)] BY <1>1, <1>2, <1>4, <2>2
      <3> QED BY <1>1, <3>1, <3>2 DEF Increasing
    <2>3. CASE i <= Len(s) /\ j > Len(s)
      <3>1. i \in 1 .. Len(s) /\ j - Len(s) \in 1 .. Len(t) BY <1>1, <2>3
      <3>2. q[i] = s[i] /\ q[j] = t[j - Len(s)] BY <1>1, <1>2, <2>3
      <3>3. s # <<>> /\ Len(s) \in 1 .. Len(s) BY <1>1, <3>1
      <3>4. Before(s[Len(s)], t[j - Len(s)]) /\ t[j - Len(s)] \in Row
        BY <1>1, <3>1, <3>3
      <3>5. Before(s[i], t[j - Len(s)]) BY <3>1, <3>3, <3>4, BeforeLast
      <3> QED BY <3>2, <3>5
    <2> QED BY <1>1, <2>1, <2>2, <2>3
  <1>5. Increasing(q) BY <1>3, <1>4 DEF Increasing
  <1> QED BY <1>5 DEF q

(* The first m of the rows A. *)
LEMMA FirstOfOrdered ==
    ASSUME NEW A, Rows(A), NEW m \in 0 .. Cardinality(A)
    PROVE  LET s == SubSeq(Ordered(A), 1, m)
           IN  /\ s \in Seq(Row) /\ Len(s) = m /\ Increasing(s)
               /\ \A i \in 1 .. m : s[i] \in A
               /\ \A r \in A : \/ \E i \in 1 .. m : s[i] = r
                               \/ m < Cardinality(A) /\ (m > 0 => Before(s[m], r))
  <1> DEFINE q == Ordered(A)
             n == Cardinality(A)
             s == SubSeq(q, 1, m)
  <1>1. n \in Nat /\ q \in [1 .. n -> A] /\ Increasing(q) BY OrderedIs
  <1>2. A \subseteq Row BY DEF Rows
  <1> HIDE DEF q, n
  <1>3. q \in Seq(A) /\ Len(q) = n BY <1>1
  <1>4. m \in Nat /\ m <= n BY <1>1 DEF n
  <1>5. /\ s \in Seq(A) /\ Len(s) = m /\ \A i \in 1 .. m : s[i] = q[i]
    <2>1. m \in Int /\ m <= Len(q) BY <1>3, <1>4
    <2>2. /\ s \in Seq(A) /\ Len(s) = IF m > 0 THEN m ELSE 0
          /\ \A i \in 1 .. m : s[i] = q[i]
      BY <1>3, <2>1, FirstOnes
    <2> QED BY <1>4, <2>2
  <1> HIDE DEF s
  <1>6. s \in Seq(Row) BY <1>2, <1>5, SeqMonotonic
  <1>7. DOMAIN s = 1 .. m BY <1>5, LenProperties
  <1>8. Increasing(s)
    <2>1. \A i \in 1 .. m : i \in 1 .. n BY <1>1, <1>4
    <2> QED BY <1>1, <1>5, <1>7, <2>1 DEF Increasing
  <1>9. \A i \in 1 .. m : s[i] \in A BY <1>1, <1>4, <1>5
  <1>10. ASSUME NEW r \in A, ~\E i \in 1 .. m : s[i] = r
         PROVE  m < n /\ (m > 0 => Before(s[m], r))
    <2>1. PICK j \in 1 .. n : q[j] = r BY <1>1, IncreasingInjective DEF n
    <2>2. m < j BY <1>4, <1>5, <1>10, <2>1
    <2>3. m > 0 => Before(q[m], q[j])
      <3> HAVE m > 0
      <3>1. m \in 1 .. n BY <1>4
      <3> QED BY <1>1, <2>2, <3>1 DEF Increasing
    <2>4. m > 0 => s[m] = q[m] BY <1>4, <1>5
    <2>5. m < n BY <1>1, <1>4, <2>1, <2>2
    <2>6. m > 0 => Before(s[m], r) BY <2>1, <2>3, <2>4
    <2> QED BY <2>5, <2>6
  <1> QED BY <1>5, <1>6, <1>8, <1>9, <1>10 DEF s, q, n

(* A sequence of rows that all come before r does not have all rows of S.    *)
LEMMA FewerThan ==
    ASSUME NEW q \in Seq(Row), Increasing(q), NEW S, IsFiniteSet(S), NEW r \in S, r \in Row,
           \A i \in 1 .. Len(q) : q[i] \in S /\ Before(q[i], r)
    PROVE  Len(q) < Cardinality(S)
  <1> DEFINE n == Len(q)
             T == S \ {r}
  <1>1. n \in Nat /\ DOMAIN q = 1 .. n /\ \A i \in 1 .. n : q[i] \in Row OBVIOUS
  <1>2. \A i \in 1 .. n : q[i] \in T BY <1>1, RowOrder
  <1>3. \A i \in 1 .. n, j \in 1 .. n : q[i] = q[j] => i = j
    <2>1. \A i \in 1 .. n, j \in 1 .. n : i < j => q[i] # q[j]
      BY <1>1, RowOrder DEF Increasing
    <2> QED BY <1>1, <2>1
  <1>4. q \in Injection(1 .. n, T)
    <2>1. q \in [1 .. n -> T] BY <1>1, <1>2
    <2> QED BY <1>3, <2>1 DEF Injection, IsInjective
  <1>5. IsFiniteSet(T) /\ Cardinality(T) = Cardinality(S) - 1
    BY FS_RemoveElement
  <1>6. Cardinality(S) \in Nat BY FS_CardinalityType
  <1>7. Cardinality(1 .. n) = n
    <2> HIDE DEF n
    <2>1. n \in Int /\ 1 \in Int BY <1>1
    <2>2. Cardinality(1 .. n) = IF 1 > n THEN 0 ELSE n - 1 + 1 BY <2>1, FS_Interval
    <2> QED BY <1>1, <2>2
  <1>8. Cardinality(1 .. n) <= Cardinality(T)
    <2> HIDE DEF n, T
    <2> QED BY <1>4, <1>5, FS_Injection
  <1> QED BY <1>1, <1>5, <1>6, <1>7, <1>8

(* A sequence that has all rows is at least as long as the list. *)
LEMMA HasAll ==
    ASSUME NEW q \in Seq(Row), NEW S, S \subseteq Range(q)
    PROVE  IsFiniteSet(S) /\ Cardinality(S) <= Len(q)
  <1> DEFINE n == Len(q)
             R == Range(q)
  <1>1. n \in Nat /\ DOMAIN q = 1 .. n OBVIOUS
  <1>2. q \in Surjection(1 .. n, R)
    <2>1. q \in [1 .. n -> R] BY <1>1 DEF Range
    <2>2. \A t \in R : \E i \in 1 .. n : q[i] = t BY <1>1 DEF Range
    <2> QED BY <2>1, <2>2 DEF Surjection
  <1> HIDE DEF n, R
  <1>3. IsFiniteSet(1 .. n) /\ Cardinality(1 .. n) = n
    <2>1. n \in Int /\ 1 \in Int BY <1>1
    <2>2. IsFiniteSet(1 .. n) /\ Cardinality(1 .. n) = IF 1 > n THEN 0 ELSE n - 1 + 1
      BY <2>1, FS_Interval
    <2> QED BY <1>1, <2>2
  <1>4. IsFiniteSet(R) /\ Cardinality(R) <= n BY <1>2, <1>3, FS_Surjection
  <1>5. IsFiniteSet(S) /\ Cardinality(S) <= Cardinality(R)
    <2>1. S \in SUBSET R BY DEF R
    <2> QED BY <1>4, <2>1, FS_Subset
  <1>6. Cardinality(S) \in Nat /\ Cardinality(R) \in Nat BY <1>4, <1>5, FS_CardinalityType
  <1> QED BY <1>1, <1>4, <1>5, <1>6 DEF n

(* Where the request of an undisturbed walk lies. *)
LEMMA PlaceBounds ==
    ASSUME SliceInv, NEW c \in Client, Walking(c), KeepsPlace(c)
    PROVE  LET w == walk[c]
           IN  /\ w \in Walk /\ w.start \in Nat /\ Total \in Nat
               /\ w.got \in Seq(Row) /\ Len(w.got) = w.start
               /\ w.total = None \/ w.total = Total
               /\ w.total # None => w.start < Total \/ (w.start = 0 /\ kind = "log")
               /\ w.total = None => w.start = 0 /\ kind = "objects"
               /\ ~InvalidStart(w.start, Total)
               /\ w.start = 0 <=> w.got = <<>>
               /\ w.phase \in {"select", "respond"} =>
                     /\ w.counted = Total /\ MaxItem(w) = Total
                     /\ Sized(c) \in Nat /\ (Sized(c) = 0 => Total = 0)
                     /\ w.start + Sized(c) <= Total
  <1> DEFINE w == walk[c]
  <1>1. w \in Walk /\ w.start \in Nat /\ w.got \in Seq(Row)
    BY ConstantTypes DEF SliceInv, TypeOK, Walk
  <1>2. Total \in Nat BY RowsAre DEF SliceInv
  <1>3. /\ Len(w.got) = w.start
        /\ w.total = None \/ w.total = Total
        /\ w.total # None => w.start < Total \/ (w.start = 0 /\ kind = "log")
        /\ w.phase \in {"select", "respond"} => w.counted = Total
    BY DEF KeepsPlace
  <1>4. w.total = None => w.start = 0 /\ kind = "objects"
    BY DEF SliceInv, RequestsSound, RequestSound
  <1>5. ~InvalidStart(w.start, Total) BY <1>1, <1>2, <1>3, <1>4 DEF InvalidStart
  <1>6. w.start = 0 <=> w.got = <<>> BY <1>1, <1>3, EmptySeq
  <1>7. ASSUME w.phase \in {"select", "respond"}
        PROVE  /\ w.counted = Total /\ MaxItem(w) = Total
               /\ Sized(c) \in Nat /\ (Sized(c) = 0 => Total = 0)
               /\ w.start + Sized(c) <= Total
    <2>1. w.counted = Total /\ MaxItem(w) = Total BY <1>3, <1>7 DEF MaxItem
    <2>2. w.start = 0 \/ w.start < Total BY <1>3, <1>4
    <2>3. /\ PageSize[c] \in Nat /\ PageSize[c] > 0
          /\ MaxSlice \in Nat /\ MaxSlice > 0
      BY ConstantTypes
    <2>4. Sized(c) = Count(w.start, PageSize[c], Total) BY <2>1 DEF Sized
    <2>5. /\ Sized(c) \in Nat /\ (Sized(c) = 0 => Total = 0)
          /\ w.start + Sized(c) <= Total
      BY <1>1, <1>2, <2>2, <2>3, <2>4 DEF Count
    <2> QED BY <2>1, <2>5
  <1> QED BY <1>1, <1>2, <1>3, <1>4, <1>5, <1>6, <1>7

(* The rows that the next slice is taken from. *)
Ahead(w) == {r \in rows : w.last # None => After(r, w.last)}

LEMMA SliceOfAhead ==
    ASSUME SliceInv, NEW c \in Client, walk[c].phase = "select", KeepsPlace(c)
    PROVE  LET w == walk[c]
           IN  /\ Rows(Ahead(w)) /\ Ahead(w) \subseteq rows /\ Cardinality(Ahead(w)) \in Nat
               /\ \E m \in 0 .. Cardinality(Ahead(w)) :
                     /\ m = Sized(c) \/ (m < Sized(c) /\ m = Cardinality(Ahead(w)))
                     /\ Slice(w) = SubSeq(Ordered(Ahead(w)), 1, m)
  <1> DEFINE w == walk[c]
             A == Ahead(w)
             q == Ordered(A)
             k == Sized(c)
             m == Upto(q, k)
  <1>1. /\ Total \in Nat /\ k \in Nat /\ (k = 0 => Total = 0)
        /\ w.start + k <= Total /\ w.start \in Nat
    BY PlaceBounds DEF Walking
  <1>2. w.count = k /\ w.last = IF w.start = 0 THEN None ELSE Last(w.got)
    BY DEF KeepsPlace
  <1>3. A \subseteq rows BY DEF Ahead
  <1>4. /\ Rows(A) /\ Cardinality(A) \in Nat /\ q \in Seq(Row) /\ Len(q) = Cardinality(A)
    <2>1. A \subseteq Row BY <1>3 DEF SliceInv, TypeOK
    <2>2. \A r \in A, s \in A : r.id = s.id => r = s BY <1>3 DEF SliceInv, RowsSound
    <2> HIDE DEF A
    <2> QED BY <2>1, <2>2, ListIs
  <1>5. /\ m \in 0 .. Cardinality(A)
        /\ m = k \/ (m < k /\ m = Cardinality(A))
    <2> HIDE DEF q, k, A
    <2> QED BY <1>1, <1>4 DEF Upto
  <1>6. Slice(w) = SubSeq(q, 1, m)
    <2>1. CASE w.last # None
      <3>1. A = {r \in rows : After(r, w.last)} BY <2>1 DEF Ahead
      <3> HIDE DEF A
      <3> QED BY <1>2, <2>1, <3>1 DEF Slice
    <2>2. CASE w.last = None
      <3>1. A = rows BY <2>2 DEF Ahead
      <3> HIDE DEF A
      <3>2. w.start = 0
        <4>1. ASSUME w.start # 0 PROVE FALSE
          <5>1. w.got \in Seq(Row) /\ w.got # <<>> BY <4>1, PlaceBounds DEF Walking
          <5>2. Len(w.got) \in 1 .. Len(w.got) BY <5>1, EmptySeq
          <5>3. Last(w.got) \in Row BY <5>1, <5>2, ElementOfSeq DEF Last
          <5> QED BY <1>2, <2>2, <4>1, <5>3, ConstantTypes
        <4> QED BY <4>1
      <3>3. CASE k = 0
        <4>1. Slice(w) = <<>> BY <1>2, <2>2, <3>3 DEF Slice
        <4>2. m \in Int /\ m < 1 BY <1>5, <3>3
        <4>3. SubSeq(q, 1, m) = <<>>
          <5> HIDE DEF m, q
          <5> QED BY <4>2, SubSeqEmpty
        <4> QED BY <4>1, <4>3
      <3>4. CASE k # 0
        <4>1. ~(w.count <= 0) BY <1>1, <1>2, <3>4
        <4>2. w.start + 1 = 1 /\ w.start + w.count = k BY <1>1, <1>2, <3>2
        <4> QED BY <2>2, <3>1, <4>1, <4>2 DEF Slice
      <3> QED BY <3>3, <3>4
    <2> QED BY <2>1, <2>2
  <1> HIDE DEF m, q, k, A
  <1>7. SubSeq(q, 1, m) = SubSeq(Ordered(A), 1, m) BY DEF q
  <1> QED BY <1>3, <1>4, <1>5, <1>6, <1>7 DEF k, A

LEMMA HoldsSelect ==
    ASSUME SliceInv, NEW c \in Client, walk[c].phase = "select", HoldsRows(c)
    PROVE  LET w == walk[c]
               s == Slice(w)
               g == w.got \o s
           IN  /\ Increasing(g)
               /\ \A r \in Unmoved(c) : r \in Range(g) \/ g = <<>> \/ Before(Last(g), r)
               /\ \A x \in Range(g) : x \in Range(w.got) \/ x \in rows
               /\ Len(s) <= Sized(c)
               /\ s = <<>> => Total = 0 \/ (w.start > 0 /\ Unmoved(c) \subseteq Range(w.got))
  <1> DEFINE w == walk[c]
             s == Slice(w)
             t == w.got
             g == t \o s
             A == Ahead(w)
             n == Len(t)
  <1>0. KeepsPlace(c) /\ Walking(c) BY DEF HoldsRows, Walking
  <1>1. /\ Total \in Nat /\ Sized(c) \in Nat /\ (Sized(c) = 0 => Total = 0)
        /\ t \in Seq(Row) /\ Len(t) = w.start /\ w.start \in Nat
        /\ w.start = 0 <=> t = <<>>
    BY <1>0, PlaceBounds
  <1>2. w.last = IF w.start = 0 THEN None ELSE Last(t)
    BY DEF HoldsRows, KeepsPlace
  <1>3. PICK m \in 0 .. Cardinality(A) :
          /\ m = Sized(c) \/ (m < Sized(c) /\ m = Cardinality(A))
          /\ s = SubSeq(Ordered(A), 1, m)
    BY <1>0, SliceOfAhead
  <1>4. Rows(A) /\ A \subseteq rows /\ Cardinality(A) \in Nat BY <1>0, SliceOfAhead
  <1> HIDE DEF A, s
  <1>5. /\ s \in Seq(Row) /\ Len(s) = m /\ Increasing(s)
        /\ \A i \in 1 .. m : s[i] \in A
        /\ \A r \in A : \/ \E i \in 1 .. m : s[i] = r
                        \/ m < Cardinality(A) /\ (m > 0 => Before(s[m], r))
    BY <1>3, <1>4, FirstOfOrdered
  <1>6. m \in Nat /\ m <= Sized(c) BY <1>1, <1>3, <1>4
  <1>7. /\ Increasing(t)
        /\ \A r \in Unmoved(c) : r \in Range(t) \/ t = <<>> \/ Before(Last(t), r)
    <2>1. w.slice = <<>> BY <1>0 DEF SliceInv, RequestsSound, RequestSound
    <2>2. Given(c) = t BY <1>1, <2>1, ConcatEmptySeq DEF Given
    <2> QED BY <2>2 DEF HoldsRows, HasUnmoved
  <1>8. rows \subseteq Row /\ Unmoved(c) \subseteq rows
    BY DEF SliceInv, TypeOK, Unmoved
  <1>9. \A r \in rows : t # <<>> => (r \in A <=> Before(t[n], r))
    <2> SUFFICES ASSUME NEW r \in rows, t # <<>> PROVE r \in A <=> Before(t[n], r)
      OBVIOUS
    <2>1. w.last = t[n] BY <1>1, <1>2 DEF Last
    <2>2. t[n] \in Row BY <1>1, EmptySeq
    <2>3. w.last # None BY <2>1, <2>2, ConstantTypes
    <2>4. r \in A <=> After(r, t[n]) BY <2>1, <2>3 DEF A, Ahead
    <2> QED BY <1>8, <2>2, <2>4, ConstantTypes DEF After, Before
  <1>10. t = <<>> => A = rows
    BY <1>1, <1>2 DEF A, Ahead
  <1>11. Increasing(g)
    <2>1. t # <<>> => \A i \in 1 .. Len(s) : Before(t[Len(t)], s[i])
      BY <1>4, <1>5, <1>9
    <2> QED BY <1>1, <1>5, <1>7, <2>1, IncreasingConcat
  <1>12. Range(g) = Range(t) \cup Range(s)
    BY <1>1, <1>5, RangeConcatenation
  <1>13. /\ g \in Seq(Row) /\ Len(g) = n + m
         /\ m > 0 => g # <<>> /\ Last(g) = s[m]
         /\ m = 0 => g = t
    <2>1. /\ g \in Seq(Row) /\ Len(g) = n + m
          /\ \A i \in 1 .. n + m : g[i] = IF i <= n THEN t[i] ELSE s[i - n]
      <3>1. /\ g \in Seq(Row) /\ Len(g) = Len(t) + Len(s)
            /\ \A i \in 1 .. Len(t) + Len(s) :
                  g[i] = IF i <= Len(t) THEN t[i] ELSE s[i - Len(t)]
        <4>1. t \in Seq(Row) /\ s \in Seq(Row) BY <1>1, <1>5
        <4> HIDE DEF t
        <4> QED BY <4>1, ConcatProperties
      <3>2. Len(s) = m /\ Len(t) = n BY <1>5
      <3> HIDE DEF g, n
      <3> QED BY <3>1, <3>2
    <2>2. m = 0 => g = t
      <3> HAVE m = 0
      <3>1. s = <<>> BY <1>5, EmptySeq
      <3> QED BY <1>1, <3>1, ConcatEmptySeq
    <2>3. m > 0 => g # <<>> /\ g[Len(g)] = s[m]
      <3> HAVE m > 0
      <3>1. n \in Nat BY <1>1
      <3> HIDE DEF g, n
      <3>2. n + m \in 1 .. n + m /\ ~(n + m <= n) /\ (n + m) - n = m BY <1>6, <3>1
      <3>3. g[n + m] = s[m] BY <2>1, <3>2
      <3> QED BY <2>1, <3>2, <3>3, EmptySeq
    <2> QED BY <2>1, <2>2, <2>3 DEF Last
  <1>14. \A i \in 1 .. m : s[i] \in Range(s) BY <1>5 DEF Range
  <1>15. ASSUME NEW r \in Unmoved(c), r \notin Range(g), g # <<>> PROVE Before(Last(g), r)
    <2>1. r \notin Range(t) /\ r \in rows BY <1>8, <1>12, <1>15
    <2>2. t # <<>> => Before(Last(t), r) BY <1>7, <2>1
    <2>3. r \in A BY <1>9, <1>10, <2>1, <2>2 DEF Last
    <2>4. \A i \in 1 .. m : s[i] # r BY <1>12, <1>14, <1>15
    <2>5. m > 0 => Before(s[m], r) BY <1>5, <2>3, <2>4
    <2>6. CASE m > 0 BY <1>13, <2>5, <2>6
    <2>7. CASE m = 0 BY <1>13, <1>15, <2>2, <2>7
    <2> QED BY <1>6, <2>6, <2>7
  <1>16. \A x \in Range(g) : x \in Range(t) \/ x \in rows
    <2>1. \A x \in Range(s) : x \in rows BY <1>4, <1>5 DEF Range
    <2> QED BY <1>12, <2>1
  <1>17. ASSUME s = <<>>, Total # 0
         PROVE  w.start > 0 /\ Unmoved(c) \subseteq Range(t)
    <2>1. m = 0 BY <1>5, <1>17, EmptySeq
    <2>2. Cardinality(A) = 0 BY <1>1, <1>3, <1>17, <2>1
    <2>3. A = {} BY <1>4, <2>2, FS_EmptySet DEF Rows
    <2>4. t # <<>>
      <3>1. ASSUME t = <<>> PROVE FALSE
        <4>1. rows = {} BY <1>10, <2>3, <3>1
        <4> QED BY <1>17, <4>1, FS_EmptySet DEF Total
      <3> QED BY <3>1
    <2>5. w.start > 0 BY <1>1, <2>4
    <2>6. ASSUME NEW r \in Unmoved(c) PROVE r \in Range(t)
      <3>1. ~Before(t[n], r) BY <1>8, <1>9, <2>3, <2>4
      <3> QED BY <1>7, <2>4, <3>1 DEF Last
    <2> QED BY <2>5, <2>6
  <1>18. Len(s) <= Sized(c) BY <1>5, <1>6
  <1> HIDE DEF g, t
  <1> QED BY <1>11, <1>15, <1>16, <1>17, <1>18 DEF g, t, s

(* Another row gets a later time stamp: it moves to the end, and the others  *)
(* stay where they are.                                                      *)
LEMMA HoldsTouch ==
    ASSUME SliceInv, NEW c \in Client, HoldsRows(c), Kept(c),
           UNCHANGED <<kind, cache>>, kind = "objects",
           NEW r \in rows, NEW t \in Times, TouchedAs(r, t),
           walk'[c].moved = walk[c].moved \cup {r.id}
    PROVE  HoldsRows(c)'
  <1> DEFINE x == [r EXCEPT !.ts = t]
             U == Unmoved(c)
  <1>0. /\ rows \subseteq Row /\ r \in Row /\ \A p \in rows, s \in rows : p.id = s.id => p = s
        /\ Rows(rows) /\ Total \in Nat
    BY RowsAre DEF SliceInv, TypeOK, RowsSound
  <1>1. x \in Row /\ x.ts = t /\ x.id = r.id BY <1>0 DEF Row
  <1> HIDE DEF x
  <1>2. rows' = (rows \ {r}) \cup {x} /\ \A s \in rows : s.ts < t
    BY DEF TouchedAs, x
  <1>3. \A s \in rows \ {r} : s.id # r.id BY <1>0
  <1>4. Total' = Total
    <2>1. x \notin rows \ {r} BY <1>1, <1>3
    <2>2. IsFiniteSet(rows) BY <1>0 DEF Rows
    <2>3. IsFiniteSet(rows \ {r}) /\ Cardinality(rows \ {r}) = Cardinality(rows) - 1
      BY <2>2, FS_RemoveElement
    <2>4. Cardinality((rows \ {r}) \cup {x}) = Cardinality(rows \ {r}) + 1
      BY <2>1, <2>3, FS_AddElement
    <2> QED BY <1>0, <1>2, <2>3, <2>4 DEF Total
  <1>5. \A q \in Unmoved(c)' : q \in U /\ q \in rows /\ q # r
    BY <1>1, <1>2 DEF Unmoved
  <1>6. \A s \in rows' \ Unmoved(c)' : s = x \/ s \in rows \ U
    BY <1>2, <1>3 DEF Unmoved
  <1>7. Given(c)' = Given(c) BY DEF Given, Kept
  <1>8. Increasing(Given(c)') /\ HasUnmoved(c)'
    BY <1>5, <1>7 DEF HoldsRows, HasUnmoved
  <1>9. FromTheBeginning(c)'
    <2>1. PICK S \in SUBSET Row :
            /\ IsFiniteSet(S) /\ Cardinality(S) = Total /\ U \subseteq S
            /\ \A p \in U, g \in Range(Given(c)) : Before(g, p) => g \in S
      BY DEF HoldsRows, FromTheBeginning
    <2>2. /\ Cardinality(S) = Total' /\ Unmoved(c)' \subseteq S
          /\ \A p \in Unmoved(c)', g \in Range(Given(c)') : Before(g, p) => g \in S
      BY <1>4, <1>5, <1>7, <2>1
    <2> QED BY <2>1, <2>2 DEF FromTheBeginning
  <1>10. MovedToEnd(c)'
    <2> SUFFICES ASSUME NEW p \in Unmoved(c)', NEW s \in rows' \ Unmoved(c)'
                 PROVE  Before(p, s)
      BY DEF MovedToEnd
    <2>1. CASE s = x BY <1>1, <1>2, <1>5, <2>1 DEF Before
    <2>2. CASE s \in rows \ U BY <1>5, <2>2 DEF HoldsRows, MovedToEnd
    <2> QED BY <1>6, <2>1, <2>2
  <1>11. KeepsPlace(c)'
    <2>1. Sized(c)' = Sized(c) BY DEF Sized, Kept
    <2>2. KeepsPlace(c) BY DEF HoldsRows
    <2> HIDE DEF U
    <2>3. kind' # "log" OBVIOUS
    <2>4. Unmoved(c) \subseteq Range(walk[c].got) => Unmoved(c)' \subseteq Range(walk[c].got)
      BY <1>5 DEF U
    <2> QED BY <1>4, <2>1, <2>2, <2>3, <2>4 DEF KeepsPlace, Kept, Key
  <1> QED BY <1>8, <1>9, <1>10, <1>11 DEF HoldsRows

(* The client itself goes on. *)
LEMMA HoldsGiven ==
    ASSUME NEW c \in Client, HoldsRows(c), UNCHANGED rows,
           walk'[c].moved = walk[c].moved, Given(c)' = Given(c), KeepsPlace(c)'
    PROVE  HoldsRows(c)'
  <1>1. Unmoved(c)' = Unmoved(c) /\ Total' = Total BY DEF Unmoved, Total
  <1>2. HasUnmoved(c)' /\ FromTheBeginning(c)' /\ MovedToEnd(c)'
    BY <1>1 DEF HoldsRows, HasUnmoved, FromTheBeginning, MovedToEnd
  <1> QED BY <1>2 DEF HoldsRows

LEMMA HoldsFirst ==
    ASSUME SliceInv, NEW c \in Client, UNCHANGED <<kind, rows>>,
           LET v == walk'[c]
           IN  /\ v.phase = "next" /\ v.start = 0 /\ v.got = <<>> /\ v.slice = <<>>
               /\ v.moved = {}
               /\ v.total = None \/ (v.total = Total /\ kind = "log")
    PROVE  HoldsRows(c)'
  <1>1. Given(c)' = <<>>
    <2>1. <<>> \in Seq(Row) OBVIOUS
    <2>2. <<>> \o <<>> = <<>> BY <2>1, ConcatEmptySeq
    <2> QED BY <2>2 DEF Given
  <1>2. Unmoved(c)' = rows /\ Total' = Total BY DEF Unmoved, Total
  <1>3. Increasing(Given(c)') BY <1>1 DEF Increasing
  <1>4. HasUnmoved(c)' BY <1>1 DEF HasUnmoved
  <1>5. FromTheBeginning(c)'
    <2>1. rows \in SUBSET Row /\ IsFiniteSet(rows) /\ Cardinality(rows) = Total
      BY RowsAre DEF SliceInv, TypeOK, Rows, Total
    <2>2. Range(<<>>) = {} BY DEF Range
    <2> QED BY <1>1, <1>2, <2>1, <2>2 DEF FromTheBeginning
  <1>6. MovedToEnd(c)' BY <1>2 DEF MovedToEnd
  <1>7. KeepsPlace(c)'
    <2>1. Len(<<>>) = 0 OBVIOUS
    <2> QED BY <1>2, <2>1 DEF KeepsPlace
  <1> QED BY <1>3, <1>4, <1>5, <1>6, <1>7 DEF HoldsRows

LEMMA HoldsBegin ==
    ASSUME SliceInv, NEW c \in Client, BeginRequest(c), HoldsRows(c)
    PROVE  HoldsRows(c)'
  <1> DEFINE w == walk[c]
             v == walk'[c]
  <1>0. w.phase = "next" /\ KeepsPlace(c) BY BeginIs DEF HoldsRows
  <1>1. /\ w.start \in Nat /\ ~InvalidStart(w.start, Total)
        /\ Total \in Position /\ w.process \in Process
    BY <1>0, PlaceBounds, RowsAre DEF Walking, SliceInv, RequestsSound, RequestSound
  <1>2. /\ v.phase = "select" /\ v.counted = Total
        /\ v.count = Count(w.start, PageSize[c], Total)
        /\ v.last = cache[w.process][Key(w.start, Total)]
        /\ v.start = w.start /\ v.total = w.total /\ v.got = w.got
        /\ v.slice = w.slice /\ v.moved = w.moved
        /\ UNCHANGED <<kind, rows>>
    BY <1>1, BeginIs DEF SameNotes
  <1>3. v.last = IF v.start = 0 THEN None ELSE Last(v.got)
    <2>1. CASE w.start = 0
      <3>1. cache[w.process][Key(0, Total)] = None BY <1>1 DEF SliceInv, StartsUncached
      <3> QED BY <1>2, <2>1, <3>1
    <2>2. CASE w.start # 0
      <3>1. w.start > 0 BY <1>1, <2>2
      <3>2. cache[w.process][Key(w.start, Total)] = Last(w.got)
        BY <1>0, <3>1 DEF KeepsPlace
      <3> QED BY <1>2, <2>2, <3>2
    <2> QED BY <2>1, <2>2
  <1>4. Total' = Total BY <1>2 DEF Total
  <1>5. v.count = Sized(c)' BY <1>2 DEF Sized
  <1>6. KeepsPlace(c)' BY <1>0, <1>2, <1>3, <1>4, <1>5 DEF KeepsPlace
  <1>7. Given(c)' = Given(c) BY <1>2 DEF Given
  <1> QED BY <1>2, <1>6, <1>7, HoldsGiven

LEMMA HoldsAnswer ==
    ASSUME SliceInv, NEW c \in Client, Select(c), HoldsRows(c)
    PROVE  HoldsRows(c)'
  <1> DEFINE w == walk[c]
             v == walk'[c]
             s == Slice(w)
             g == w.got \o s
             U == Unmoved(c)
  <1>0. w.phase = "select" /\ KeepsPlace(c) BY SelectIs DEF HoldsRows
  <1>1. /\ v.phase = "respond" /\ v.slice = s /\ v.counted = w.counted
        /\ v.start = w.start /\ v.total = w.total /\ v.got = w.got /\ v.moved = w.moved
        /\ UNCHANGED <<kind, rows>>
    BY SelectIs DEF SameNotes
  <1>2. /\ Increasing(g)
        /\ \A r \in U : r \in Range(g) \/ g = <<>> \/ Before(Last(g), r)
        /\ \A x \in Range(g) : x \in Range(w.got) \/ x \in rows
        /\ Len(s) <= Sized(c)
        /\ s = <<>> => Total = 0 \/ (w.start > 0 /\ U \subseteq Range(w.got))
    BY <1>0, HoldsSelect
  <1>3. Given(c) = w.got
    <2>1. w.slice = <<>> /\ w.got \in Seq(Row)
      BY <1>0 DEF SliceInv, TypeOK, Walk, RequestsSound, RequestSound, Walking
    <2> QED BY <2>1, ConcatEmptySeq DEF Given
  <1>4. Given(c)' = g BY <1>1 DEF Given
  <1>5. Unmoved(c)' = U /\ Total' = Total /\ Sized(c)' = Sized(c)
    BY <1>1 DEF Unmoved, Total, Sized
  <1> HIDE DEF s, g, U
  <1>6. HasUnmoved(c)' BY <1>2, <1>4, <1>5 DEF HasUnmoved
  <1>7. MovedToEnd(c)' BY <1>1, <1>5 DEF HoldsRows, MovedToEnd, U
  <1>8. FromTheBeginning(c)'
    <2>1. PICK S \in SUBSET Row :
            /\ IsFiniteSet(S) /\ Cardinality(S) = Total /\ U \subseteq S
            /\ \A p \in U, x \in Range(w.got) : Before(x, p) => x \in S
      BY <1>3 DEF HoldsRows, FromTheBeginning, U
    <2>2. ASSUME NEW p \in U, NEW x \in Range(g), Before(x, p) PROVE x \in S
      <3>1. CASE x \in Range(w.got) BY <2>1, <2>2, <3>1
      <3>2. CASE x \in rows /\ x \notin U
        <4>1. Before(p, x) BY <3>2 DEF HoldsRows, MovedToEnd, U
        <4>2. p \in Row /\ x \in Row BY <3>2 DEF SliceInv, TypeOK, Unmoved, U
        <4> QED BY <2>2, <4>1, <4>2, RowOrder
      <3>3. CASE x \in U BY <2>1, <3>3
      <3> QED BY <1>2, <3>1, <3>2, <3>3
    <2> QED BY <1>4, <1>5, <2>1, <2>2 DEF FromTheBeginning
  <1>9. KeepsPlace(c)'
    BY <1>0, <1>1, <1>2, <1>5 DEF KeepsPlace
  <1> QED BY <1>2, <1>4, <1>6, <1>7, <1>8, <1>9 DEF HoldsRows

(* The list is not at its end, so that the slice had rows. *)
LEMMA HoldsMore ==
    ASSUME SliceInv, NEW c \in Client, walk[c].phase = "respond", HoldsRows(c),
           ~Finished(walk[c])
    PROVE  LET w == walk[c]
               n == w.start + Len(w.slice)
           IN  /\ Yielded(w) = Given(c) /\ Given(c) \in Seq(Row) /\ Len(Given(c)) = n
               /\ MaxItem(w) = Total /\ n < Total
               /\ w.slice # <<>> /\ Last(Given(c)) = w.slice[Len(w.slice)]
  <1> DEFINE w == walk[c]
             n == w.start + Len(w.slice)
             q == Given(c)
  <1>0. KeepsPlace(c) BY DEF HoldsRows
  <1>1. /\ w \in Walk /\ w.start \in Nat /\ Total \in Nat /\ MaxItem(w) = Total
        /\ w.got \in Seq(Row) /\ Len(w.got) = w.start
        /\ w.total = None \/ w.total = Total
        /\ w.total = None => w.start = 0 /\ kind = "objects"
    BY <1>0, PlaceBounds DEF Walking
  <1>2. w.slice \in Seq(Row) /\ Len(w.slice) \in Nat BY <1>1, LenProperties DEF Walk
  <1>3. q = All(w) BY DEF Given, All
  <1>4. q \in Seq(Row) /\ Len(q) = n
    <2>1. All(w) \in Seq(Row) /\ Len(All(w)) = Len(w.got) + Len(w.slice) BY YieldedIs
    <2> QED BY <1>1, <1>3, <2>1
  <1>5. Yielded(w) = q /\ n < Total
    <2>1. CASE kind = "log"
      <3>1. Yielded(w) = q BY <1>3, <2>1, YieldedIs
      <3>2. ~(n >= w.total) BY <2>1 DEF Finished
      <3>3. w.total = Total BY <1>1, <2>1
      <3>4. n \in Nat BY <1>1, <1>2
      <3> HIDE DEF n
      <3> QED BY <1>1, <3>1, <3>2, <3>3, <3>4
    <2>2. CASE kind # "log"
      <3> DEFINE y == Yielded(w)
      <3>1. ~(Len(y) >= MaxItem(w)) BY <2>2 DEF Finished
      <3>2. y \in Seq(Row) BY YieldedIs
      <3>3. Len(y) \in Nat BY <3>2, LenProperties
      <3>4. Len(y) < MaxItem(w) => y = q BY <1>3, <2>2, YieldedIs
      <3> HIDE DEF y, q, n
      <3>5. Len(y) < Total BY <1>1, <3>1, <3>3
      <3>6. y = q BY <1>1, <3>4, <3>5
      <3> QED BY <1>4, <3>5, <3>6 DEF y
    <2> QED BY <2>1, <2>2
  <1>6. ASSUME w.slice = <<>> PROVE FALSE
    <2>1. Total = 0 \/ (w.start > 0 /\ Unmoved(c) \subseteq Range(w.got))
      BY <1>0, <1>6 DEF KeepsPlace
    <2>2. n = w.start /\ w.start < Total
      <3>1. Len(w.slice) = 0 BY <1>6
      <3> QED BY <1>1, <1>5, <3>1
    <2>3. w.start > 0 /\ Unmoved(c) \subseteq Range(w.got) BY <1>1, <2>1, <2>2
    <2>4. w.total # None BY <1>1, <2>3
    <2>5. kind = "log" BY <1>6, <2>4 DEF Finished
    <2>6. w.moved = {} BY <1>0, <2>5 DEF KeepsPlace
    <2>7. Unmoved(c) = rows BY <2>6 DEF Unmoved
    <2>8. Total <= w.start BY <1>1, <2>3, <2>7, HasAll DEF Total
    <2> QED BY <1>1, <2>2, <2>8
  <1>7. Last(q) = w.slice[Len(w.slice)]
    <2>1. Len(w.slice) \in 1 .. Len(w.slice) BY <1>2, <1>6, EmptySeq
    <2> DEFINE a == w.got
               b == w.slice
               k == Len(b)
    <2>2. a \in Seq(Row) /\ b \in Seq(Row) BY <1>1, <1>2
    <2>3. \A i \in 1 .. Len(a) + Len(b) : q[i] = IF i <= Len(a) THEN a[i] ELSE b[i - Len(a)]
      <3>1. q = a \o b BY DEF Given
      <3> HIDE DEF a, b, q
      <3> QED BY <2>2, <3>1, ConcatProperties
    <2>4. Len(a) \in Nat /\ k \in Nat /\ k > 0 /\ Len(q) = Len(a) + k
      BY <1>1, <1>2, <1>4, <2>1
    <2> HIDE DEF a, b, q
    <2>5. q[Len(a) + k] = b[k] BY <2>3, <2>4
    <2> QED BY <2>4, <2>5 DEF Last, b, q
  <1> QED BY <1>1, <1>4, <1>5, <1>6, <1>7

LEMMA HoldsNext ==
    ASSUME SliceInv, NEW c \in Client, Respond(c), HoldsRows(c), OneProcess(c)',
           ~Finished(walk[c])
    PROVE  HoldsRows(c)'
  <1> DEFINE w == walk[c]
             v == walk'[c]
             n == w.start + Len(w.slice)
  <1>0. w.phase = "respond" /\ KeepsPlace(c) BY RespondIs DEF HoldsRows
  <1>1. /\ Yielded(w) = Given(c) /\ Given(c) \in Seq(Row) /\ Len(Given(c)) = n
        /\ MaxItem(w) = Total /\ n < Total
        /\ w.slice # <<>> /\ Last(Given(c)) = w.slice[Len(w.slice)]
    BY <1>0, HoldsMore
  <1>2. /\ v.phase = "next" /\ v.process \in Process /\ v.start = n
        /\ v.total = MaxItem(w) /\ v.got = Yielded(w) /\ v.slice = <<>>
        /\ v.moved = w.moved /\ cache' = Cached(w) /\ UNCHANGED <<kind, rows>>
        /\ v.process = w.process
    BY RespondIs, IdleIs DEF SameNotes, OneProcess
  <1>3. Total' = Total BY <1>2 DEF Total
  <1>4. Given(c)' = Given(c)
    <2>1. Given(c) \o <<>> = Given(c) BY <1>1, ConcatEmptySeq
    <2> QED BY <1>1, <1>2, <2>1 DEF Given
  <1>5. cache'[v.process][Key(v.start, Total)] = Last(v.got)
    <2>1. w.process \in Process /\ n \in Position /\ Total \in Position
      BY <1>0, RowsAre DEF SliceInv, RequestsSound, RequestSound, Walking
    <2>3. w.counted = Total BY <1>0 DEF KeepsPlace
    <2>4. Key(n, Total) \in Position \X Position BY <2>1 DEF Key
    <2>5. Cached(w)[w.process][Key(n, Total)] = LastOf(w.slice)
      BY <1>0, <2>1, <2>3, <2>4, CachedIs
    <2>6. LastOf(w.slice) = w.slice[Len(w.slice)] BY <1>0, <1>1, CachedIs
    <2> QED BY <1>1, <1>2, <2>5, <2>6
  <1>6. KeepsPlace(c)'
    <2>1. kind' = "log" => v.moved = {} BY <1>0, <1>2 DEF KeepsPlace
    <2>2. Len(v.got) = v.start BY <1>1, <1>2
    <2>3. v.total = Total' /\ v.start < v.total BY <1>1, <1>2, <1>3
    <2> QED BY <1>2, <1>3, <1>5, <2>1, <2>2, <2>3 DEF KeepsPlace, Key
  <1> QED BY <1>2, <1>4, <1>6, HoldsGiven

(* A row that did not move is there when the iteration is at its end. *)
LEMMA HoldsEnd ==
    ASSUME SliceInv, NEW c \in Client, walk[c].phase = "respond", HoldsRows(c),
           Finished(walk[c]), NEW r \in Unmoved(c)
    PROVE  LET y == Yielded(walk[c])
           IN  Cardinality({i \in DOMAIN y : y[i] = r}) = 1
  <1> DEFINE w == walk[c]
             q == Given(c)
             y == Yielded(w)
             n == Len(y)
  <1>0. KeepsPlace(c) BY DEF HoldsRows
  <1>1. /\ w.start \in Nat /\ Total \in Nat /\ MaxItem(w) = Total
        /\ w.got \in Seq(Row) /\ Len(w.got) = w.start
        /\ w.total = None \/ w.total = Total
        /\ w.total = None => w.start = 0 /\ kind = "objects"
    BY <1>0, PlaceBounds DEF Walking
  <1>2. q = All(w) BY DEF Given, All
  <1>3. /\ q \in Seq(Row) /\ Len(q) = w.start + Len(w.slice) /\ y \in Seq(Row)
        /\ kind = "log" => y = q
        /\ kind # "log" =>
              /\ Len(y) <= Len(q) /\ y = SubSeq(q, 1, Len(y))
              /\ Len(y) < Total => y = q
    BY <1>1, <1>2, YieldedIs
  <1>4. Len(q) \in Nat /\ DOMAIN q = 1 .. Len(q) /\ n \in Nat /\ DOMAIN y = 1 .. n
    BY <1>3, LenProperties
  <1>5. Increasing(q) BY DEF HoldsRows
  <1>6. r \in rows /\ r \in Row BY DEF SliceInv, TypeOK, Unmoved
  <1> HIDE DEF q
  <1>7. n <= Len(q) /\ \A i \in 1 .. n : y[i] = q[i]
    <2>1. CASE kind = "log" BY <1>3, <1>4, <2>1
    <2>2. CASE kind # "log"
      <3>1. n <= Len(q) /\ y = SubSeq(q, 1, n) BY <1>3, <2>2
      <3>2. n \in Int BY <1>4
      <3> HIDE DEF n, y
      <3>3. \A i \in 1 .. n : SubSeq(q, 1, n)[i] = q[i] BY <1>3, <3>1, <3>2, FirstOnes
      <3> QED BY <3>1, <3>3
    <2> QED BY <2>1, <2>2
  <1> HIDE DEF y, n
  <1>8. Increasing(y)
    <2>1. \A i \in 1 .. n : i \in 1 .. Len(q) BY <1>4, <1>7
    <2> QED BY <1>4, <1>5, <1>7, <2>1 DEF Increasing
  <1>9. ASSUME \A i \in 1 .. n : y[i] # r PROVE FALSE
    <2>1. CASE n >= Total
      <3>1. ASSUME NEW i \in 1 .. n PROVE Before(y[i], r)
        <4>1. i \in 1 .. Len(q) BY <1>4, <1>7
        <4>2. CASE r \in Range(q)
          <5>1. PICK j \in 1 .. Len(q) : q[j] = r BY <1>4, <4>2 DEF Range
          <5>2. ~(j <= n) BY <1>7, <1>9, <5>1
          <5>3. i < j BY <1>4, <5>2
          <5> QED BY <1>4, <1>5, <1>7, <4>1, <5>1, <5>3 DEF Increasing
        <4>3. CASE r \notin Range(q)
          <5>1. q # <<>> BY <1>3, <4>1, EmptySeq
          <5>2. Before(Last(q), r) BY <4>3, <5>1 DEF HoldsRows, HasUnmoved, q
          <5>3. Len(q) \in 1 .. Len(q) BY <1>4, <4>1
          <5>4. Before(q[i], r) BY <1>3, <1>5, <1>6, <4>1, <5>2, <5>3, BeforeLast DEF Last
          <5> QED BY <1>7, <5>4
        <4> QED BY <4>2, <4>3
      <3>2. PICK S \in SUBSET Row :
              /\ IsFiniteSet(S) /\ Cardinality(S) = Total /\ Unmoved(c) \subseteq S
              /\ \A p \in Unmoved(c), g \in Range(q) : Before(g, p) => g \in S
        BY DEF HoldsRows, FromTheBeginning, q
      <3>3. \A i \in 1 .. n : y[i] \in S /\ Before(y[i], r)
        <4>1. \A i \in 1 .. n : y[i] \in Range(q) BY <1>4, <1>7 DEF Range
        <4> QED BY <3>1, <3>2, <4>1
      <3>4. Len(y) < Cardinality(S)
        BY <1>3, <1>6, <1>8, <3>2, <3>3, FewerThan DEF y, n
      <3> QED BY <1>1, <1>4, <2>1, <3>2, <3>4 DEF n
    <2>2. CASE ~(n >= Total)
      <3>1. n < Total BY <1>1, <1>4, <2>2
      <3>2. kind # "log"
        <4>1. ASSUME kind = "log" PROVE FALSE
          <5>1. w.start + Len(w.slice) >= w.total BY <4>1 DEF Finished
          <5>2. w.total = Total BY <1>1, <4>1
          <5>3. n = Len(q) BY <1>3, <4>1 DEF n
          <5> QED BY <1>3, <2>2, <5>1, <5>2, <5>3
        <4> QED BY <4>1
      <3>3. ~(Len(y) >= MaxItem(w)) BY <1>1, <2>2 DEF n
      <3>4. w.slice = <<>> /\ w.total # None BY <3>2, <3>3 DEF Finished, y
      <3>5. y = q BY <1>3, <3>1, <3>2 DEF n
      <3>6. q = w.got BY <1>1, <3>4, ConcatEmptySeq DEF q, Given
      <3>7. Unmoved(c) \subseteq Range(w.got)
        <4>1. Total # 0 BY <1>1, <1>4, <3>1
        <4> QED BY <1>0, <3>4, <4>1 DEF KeepsPlace
      <3>8. r \in Range(y) BY <3>5, <3>6, <3>7
      <3> QED BY <1>4, <1>9, <3>8 DEF Range
    <2> QED BY <2>1, <2>2
  <1>10. PICK i \in 1 .. n : y[i] = r BY <1>9
  <1>11. ASSUME NEW j \in 1 .. n, y[j] = r PROVE j = i
    <2>1. \A a \in 1 .. n, b \in 1 .. n : a < b => Before(y[a], y[b])
      BY <1>4, <1>8 DEF Increasing
    <2>2. ~(i < j) /\ ~(j < i) BY <1>6, <1>10, <1>11, <2>1, RowOrder
    <2> QED BY <1>4, <2>2
  <1>12. {j \in DOMAIN y : y[j] = r} = {i} BY <1>4, <1>10, <1>11
  <1> QED BY <1>12, FS_Singleton DEF y

(* The client's own step. *)
LEMMA HoldsStep ==
    ASSUME SliceInv, NEW c \in Client, Open(c) \/ Step(c), OneProcess(c)', Active(c)',
           Active(c) => IF walk[c].phase = "open" THEN walk[c].moved = {} ELSE HoldsRows(c)
    PROVE  IF walk'[c].phase = "open" THEN walk'[c].moved = {} ELSE HoldsRows(c)'
  <1> DEFINE w == walk[c]
             v == walk'[c]
  <1>0. TypeOK /\ v # Idle BY IdleIs DEF SliceInv, Active
  <1>1. CASE Open(c)
    <2>1. /\ UNCHANGED <<kind, rows>> /\ Fresh(v)
          /\ v.phase = "open" \/ v.phase = "next"
      BY <1>0, <1>1, OpenIs
    <2>2. CASE v.phase = "open" BY <2>1, <2>2 DEF Fresh
    <2>3. CASE v.phase = "next"
      <3>1. HoldsRows(c)' BY <2>1, <2>3, HoldsFirst DEF Fresh
      <3> QED BY <2>3, <3>1
    <2> QED BY <2>1, <2>2, <2>3
  <1>2. CASE GetTotal(c)
    <2>1. /\ w.phase = "open" /\ kind = "log" /\ UNCHANGED <<kind, rows>>
          /\ v.phase = "next" /\ v.start = 0 /\ v.total = Total
          /\ v.got = <<>> /\ v.slice = <<>> /\ v.moved = w.moved
      BY <1>2, GetTotalIs DEF SameNotes
    <2>2. v.moved = {} BY <2>1 DEF Active
    <2>3. HoldsRows(c)' BY <2>1, <2>2, HoldsFirst
    <2> QED BY <2>1, <2>3
  <1>3. CASE BeginRequest(c)
    <2>1. w.phase = "next" /\ v.phase = "select" BY <1>0, <1>3, BeginIs
    <2>2. HoldsRows(c) BY <2>1 DEF Active
    <2>3. HoldsRows(c)' BY <1>3, <2>2, HoldsBegin
    <2> QED BY <2>1, <2>3
  <1>4. CASE Select(c)
    <2>1. w.phase = "select" /\ v.phase = "respond" BY <1>4, SelectIs
    <2>2. HoldsRows(c) BY <2>1 DEF Active
    <2>3. HoldsRows(c)' BY <1>4, <2>2, HoldsAnswer
    <2> QED BY <2>1, <2>3
  <1>5. CASE Respond(c)
    <2>1. w.phase = "respond" /\ v.phase = "next" /\ ~Finished(w) BY <1>0, <1>5, RespondIs
    <2>2. HoldsRows(c) BY <2>1 DEF Active
    <2>3. HoldsRows(c)' BY <1>5, <2>1, <2>2, HoldsNext
    <2> QED BY <2>1, <2>3
  <1> QED BY <1>1, <1>2, <1>3, <1>4, <1>5 DEF Step

LEMMA UntouchedInvStep ==
    ASSUME SliceInv, UntouchedInv, [Next]_vars
    PROVE  UntouchedInv'
  <1> SUFFICES ASSUME NEW c \in Client, Active(c)', Undisturbed(c)'
               PROVE  IF walk'[c].phase = "open" THEN walk'[c].moved = {} ELSE HoldsRows(c)'
    BY DEF UntouchedInv
  <1> DEFINE w == walk[c]
             v == walk'[c]
             Good == IF w.phase = "open" THEN w.moved = {} ELSE HoldsRows(c)
  <1>1. ~v.expired /\ ~v.disturbed /\ ~v.switched /\ OneProcess(c)'
    BY DEF Undisturbed, OneProcess
  <1>2. Kept(c) => Active(c) BY DEF Kept, Active
  <1>3. Active(c) /\ Undisturbed(c) => Good BY DEF UntouchedInv
  <1>4. CASE Insert \/ Delete
    <2>1. Kept(c) /\ (Active(c) => v.disturbed) BY <1>4, StoredOrGone DEF SliceInv
    <2> QED BY <1>1, <1>2, <2>1
  <1>5. CASE Touch
    <2>1. PICK r \in rows, t \in Times : TouchedAs(r, t) BY <1>5, TouchIs DEF SliceInv
    <2>2. Kept(c) /\ UNCHANGED <<kind, cache>> /\ kind = "objects"
      BY <1>5, TouchIs DEF SliceInv
    <2>3. ~w.disturbed /\ ~w.expired /\ v.moved = w.moved \cup {r.id}
      BY <1>1, <1>2, <2>1, <2>2 DEF TouchedAs
    <2>4. w.phase # "open" BY <2>2 DEF SliceInv, RequestsSound
    <2>5. HoldsRows(c) BY <1>1, <1>2, <1>3, <2>2, <2>3, <2>4 DEF Undisturbed, OneProcess, Kept
    <2>6. HoldsRows(c)' BY <2>1, <2>2, <2>3, <2>5, HoldsTouch
    <2> QED BY <2>2, <2>4, <2>6 DEF Kept
  <1>6. CASE Expire
    <2>1. Kept(c) /\ (Active(c) => v.disturbed \/ v.expired) BY <1>6, ExpireIs DEF SliceInv
    <2> QED BY <1>1, <1>2, <2>1
  <1>7. ASSUME NEW d \in Client \ {c}, Open(d) \/ Step(d) PROVE FALSE
    <2>1. Others(d)
      BY <1>7, OpenIs, GetTotalIs, BeginIs, SelectIs, RespondIs DEF Step, SliceInv
    <2>2. Kept(c) /\ (Active(c) => v.disturbed) BY <2>1 DEF Others
    <2> QED BY <1>1, <1>2, <2>2
  <1>8. CASE Open(c) \/ Step(c)
    <2>1. Active(c) => Good
      <3>1. SUFFICES ASSUME Active(c) PROVE Undisturbed(c) BY <1>3
      <3>2. v # Idle BY IdleIs DEF Active
      <3>3. ~Open(c) BY <3>1 DEF Open
      <3>4. SameNotes(v, w)
        BY <1>8, <3>2, <3>3, GetTotalIs, BeginIs, SelectIs, RespondIs DEF Step
      <3> QED BY <1>1, <3>4 DEF SameNotes, Undisturbed, OneProcess
    <2> QED BY <1>1, <1>8, <2>1, HoldsStep
  <1>9. CASE UNCHANGED vars
    <2>1. UNCHANGED <<kind, rows, cache>> /\ v = w BY <1>9 DEF vars
    <2>2. Active(c) /\ Undisturbed(c) BY <2>1 DEF Active, Undisturbed, OneProcess
    <2>3. HoldsRows(c) => HoldsRows(c)'
      <3>1. /\ Given(c)' = Given(c) /\ Unmoved(c)' = Unmoved(c) /\ Total' = Total
            /\ Sized(c)' = Sized(c)
        BY <2>1 DEF Given, Unmoved, Total, Sized
      <3>2. KeepsPlace(c) => KeepsPlace(c)' BY <2>1, <3>1 DEF KeepsPlace, Key
      <3>3. HoldsRows(c) => KeepsPlace(c) BY DEF HoldsRows
      <3> QED BY <2>1, <3>1, <3>2, <3>3, HoldsGiven
    <2> QED BY <1>3, <2>1, <2>2, <2>3
  <1> QED BY <1>4, <1>5, <1>6, <1>7, <1>8, <1>9 DEF Next

(* What the cached positions are for: a row that is not updated while a      *)
(* client walks is returned to it, and once only, however many other rows    *)
(* are updated meanwhile and move to the end, if one process of the server's *)
(* answers all requests of the walk.                                         *)
THEOREM SliceUntouchedOnce == Spec => UntouchedRowsOnce
  <1>1. Init => UntouchedInv
    <2> SUFFICES ASSUME Init PROVE UntouchedInv OBVIOUS
    <2>1. \A c \in Client : ~Active(c) BY IdleIs DEF Init, Active
    <2> QED BY <2>1 DEF UntouchedInv
  <1>2. SliceInv /\ UntouchedInv /\ [Next]_vars => UntouchedInv'
    BY UntouchedInvStep
  <1>3. Spec => [](SliceInv /\ UntouchedInv)
    BY <1>1, <1>2, SliceInvariant, PTL DEF Spec
  <1>4. SliceInv /\ UntouchedInv /\ [Next]_vars =>
          [\A c \in Client :
             Ends(c) /\ OneProcess(c) /\ ~walk[c].expired /\ ~walk[c].disturbed =>
                \A r \in rows : r.id \notin walk[c].moved =>
                   Cardinality({i \in DOMAIN Yielded(walk[c]) : Yielded(walk[c])[i] = r}) = 1]_vars
    <2> SUFFICES ASSUME SliceInv, UntouchedInv, [Next]_vars,
                        NEW c \in Client, Ends(c), Undisturbed(c),
                        NEW r \in rows, r.id \notin walk[c].moved
                 PROVE  Cardinality({i \in DOMAIN Yielded(walk[c]) : Yielded(walk[c])[i] = r}) = 1
      BY DEF Undisturbed
    <2>1. walk[c].phase # "open" => HoldsRows(c)
      BY DEF UntouchedInv, Ends
    <2>2. walk[c].phase = "next" => ~InvalidStart(walk[c].start, Total)
      BY <2>1, PlaceBounds DEF HoldsRows, Walking
    <2>3. walk[c].phase = "respond" /\ Finished(walk[c]) BY <2>2, AnswerEnds
    <2>4. r \in Unmoved(c) BY DEF Unmoved
    <2> QED BY <2>1, <2>3, <2>4, HoldsEnd
  <1> QED BY <1>3, <1>4, PTL DEF Spec, UntouchedRowsOnce
=============================================================================
