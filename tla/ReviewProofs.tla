----------------------------- MODULE ReviewProofs -----------------------------
\* What a report of a review, and a delta of two reports, are worth
\* (iacreview/dedup.py, report.py, reportcheck.py, delta.py, deltareport.py), for
\* every pair of reviews, whatever their Sources find and in whatever order.
\*
\* A report: PublishedIsAccepted and MergeIsFaithful, of every behaviour of
\* ReviewSpec. Their invariant is ReviewInv; the rest is about one report. What a
\* report is rebuilt from is the report again (NumberedTwice, Rebuilt), because a
\* sort by keys moves nothing that ascends already. A merge keeps the evidence
\* because each of its steps does: putting it in order, joining it, splitting it
\* by key and by file (Same, SameByClass). No lemma is by induction over a list: a
\* sort is a ranking of places, and what joining does follows from where each
\* element came from.
\*
\* A delta: the theorems are of match_and_classify(); they follow from the same
\* facts of one group (GroupIs, GroupOnce, MatchedOfGroup, OneSidedOfGroup), and
\* those from SinglesAreAlone: a Finding that occurs once is told by its
\* Fingerprint. ExitIsTrue is of what the tool makes of its failures: they are
\* listed once, in their order, and the first decides.
\*
\* A report holds finitely many Findings, and a Finding is not null; null, and a
\* value of the wrong type, are neither lists nor objects, and null is neither
\* "base" nor "head". These are all the
\* theorems assume, besides the assumptions on the constants.
EXTENDS Review, DeltaResult, FiniteSetTheorems, FunctionTheorems, SequenceTheorems, WellFoundedInduction, TLAPS

-----------------------------------------------------------------------------
\* Orders and sorting: what is ranked is listed once, sorting by keys moves every
\* place to one of its own and leaves in place what ascends already.

\* R orders S: no two elements of S are equal in it.
Orders(R, S) ==
  /\ \A a \in S : <<a, a>> \notin R
  /\ \A a, b, c \in S : <<a, b>> \in R /\ <<b, c>> \in R => <<a, c>> \in R
  /\ \A a, b \in S : a # b => <<a, b>> \in R \/ <<b, a>> \in R

\* q lists every element of S once, in the order R.
Lists(q, S, R) ==
  /\ Cardinality(S) \in Nat
  /\ q \in [1..Cardinality(S) -> S]
  /\ \A e \in S : \E n \in 1..Cardinality(S) : q[n] = e
  /\ \A m, n \in 1..Cardinality(S) : m < n => <<q[m], q[n]>> \in R

\* A nonempty set of natural numbers has a least element.
LEMMA LeastNumber ==
  ASSUME NEW T \in SUBSET Nat, T # {}
  PROVE  \E n \in T : \A m \in T : n <= m
PROOF
  <1>1. PICK n \in T : \A m \in T : ~ (<<m, n>> \in OpToRel(<, Nat))
    BY NatLessThanWellFounded, WFMin
  <1>2. \A m \in T : ~ (m < n)
    BY <1>1 DEF OpToRel
  <1> QED BY <1>2

\* Counting what comes before each element of a finite set puts it in order.
LEMMA RankedLists ==
  ASSUME NEW S, IsFiniteSet(S), NEW R, Orders(R, S)
  PROVE  Lists(Ranked(S, R), S, R)
PROOF
  <1> DEFINE below(e) == {d \in S : <<d, e>> \in R}
             N == Cardinality(S)
             rank == [e \in S |-> Cardinality(below(e)) + 1]
  <1>1. N \in Nat
    BY FS_CardinalityType
  <1>2. \A e \in S : IsFiniteSet(below(e)) /\ Cardinality(below(e)) \in Nat
    BY FS_Subset, FS_CardinalityType
  <1>3. ASSUME NEW e \in S
        PROVE  rank[e] \in 1..N
    <2>1. below(e) \in SUBSET S /\ below(e) # S
      BY DEF Orders
    <2>2. Cardinality(below(e)) <= N /\ Cardinality(below(e)) # N
      <3> HIDE DEF below
      <3> QED BY <2>1, FS_Subset
    <2> QED BY <1>1, <1>2, <2>2
  <1>4. ASSUME NEW a \in S, NEW b \in S, <<a, b>> \in R
        PROVE  rank[a] < rank[b]
    <2>1. below(a) \in SUBSET below(b) /\ below(a) # below(b)
      BY <1>4 DEF Orders
    <2>2. Cardinality(below(a)) <= Cardinality(below(b)) /\ Cardinality(below(a)) # Cardinality(below(b))
      <3>1. IsFiniteSet(below(b))
        BY <1>2
      <3> HIDE DEF below
      <3> QED BY <2>1, <3>1, FS_Subset
    <2> QED BY <1>2, <2>2
  <1>5. \A a, b \in S : rank[a] = rank[b] => a = b
    <2>1. ASSUME NEW a \in S, NEW b \in S, rank[a] = rank[b], a # b
          PROVE  FALSE
      <3>1. rank[a] \in Int /\ rank[b] \in Int
        BY <1>3
      <3>2. <<a, b>> \in R \/ <<b, a>> \in R
        BY <2>1 DEF Orders
      <3>3. rank[a] < rank[b] \/ rank[b] < rank[a]
        BY <1>4, <3>2
      <3> HIDE DEF rank
      <3> QED BY <2>1, <3>1, <3>3
    <2> QED BY <2>1
  <1>6. rank \in [S -> 1..N]
    <2>1. rank = [e \in S |-> rank[e]]
      OBVIOUS
    <2> HIDE DEF rank
    <2> QED BY <1>3, <2>1
  <1>7. \A n \in 1..N : \E e \in S : rank[e] = n
    <2>1. rank \in Injection(S, 1..N)
      <3> HIDE DEF rank
      <3> QED BY <1>5, <1>6 DEF Injection, IsInjective
    <2>2. IsFiniteSet(1..N) /\ Cardinality(1..N) = N
      BY <1>1, FS_Interval
    <2>3. rank \in Surjection(S, 1..N)
      <3> HIDE DEF rank
      <3> QED BY <2>1, <2>2, FS_Injection
    <2> HIDE DEF rank
    <2> QED BY <2>3 DEF Surjection
  <1> DEFINE ranks == {<<e, Cardinality(below(e))>> : e \in S}
             at(n) == (CHOOSE r \in ranks : r[2] = n - 1)[1]
  <1>8. Ranked(S, R) = [n \in 1..N |-> at(n)]
    BY DEF Ranked
  <1>9. ASSUME NEW n \in 1..N
        PROVE  at(n) \in S /\ rank[at(n)] = n
    <2>1. PICK e \in S : rank[e] = n
      BY <1>7
    <2>2. Cardinality(below(e)) = n - 1
      BY <1>2, <2>1
    <2>3. <<e, Cardinality(below(e))>> \in ranks
      OBVIOUS
    <2>4. \E r \in ranks : r[2] = n - 1
      <3> HIDE DEF ranks, below
      <3> QED BY <2>2, <2>3
    <2> DEFINE r == CHOOSE r \in ranks : r[2] = n - 1
    <2>5. r \in ranks /\ r[2] = n - 1
      <3> HIDE DEF ranks
      <3> QED BY <2>4
    <2>6. PICK d \in S : r = <<d, Cardinality(below(d))>>
      <3> HIDE DEF r
      <3> QED BY <2>5
    <2>7. r[1] = d /\ Cardinality(below(d)) = n - 1
      <3> HIDE DEF r, below, ranks
      <3> QED BY <2>5, <2>6
    <2>8. rank[d] = n
      <3>1. rank[d] = Cardinality(below(d)) + 1
        OBVIOUS
      <3> HIDE DEF rank, below
      <3> QED BY <2>7, <3>1
    <2>9. at(n) = d
      BY <2>7
    <2> QED BY <2>8, <2>9
  <1> HIDE DEF at, rank, below, ranks
  <1>10. \A e \in S : at(rank[e]) = e
    <2> TAKE e \in S
    <2>1. rank[e] \in 1..N
      BY <1>3
    <2>2. at(rank[e]) \in S /\ rank[at(rank[e])] = rank[e]
      BY <1>9, <2>1
    <2> QED BY <1>5, <2>2
  <1> DEFINE q == Ranked(S, R)
  <1>11. q \in [1..N -> S]
    BY <1>8, <1>9
  <1>12. \A e \in S : \E n \in 1..N : q[n] = e
    BY <1>3, <1>8, <1>10
  <1>13. ASSUME NEW m \in 1..N, NEW n \in 1..N, m < n
         PROVE  <<q[m], q[n]>> \in R
    <2>1. q[m] = at(m) /\ q[n] = at(n)
      BY <1>8
    <2>2. at(m) \in S /\ at(n) \in S /\ rank[at(m)] = m /\ rank[at(n)] = n
      BY <1>9
    <2>3. at(m) # at(n)
      BY <1>13, <2>2
    <2>4. <<at(n), at(m)>> \notin R
      BY <1>4, <1>13, <2>2
    <2> QED BY <2>1, <2>2, <2>3, <2>4 DEF Orders
  <1> HIDE DEF q, N
  <1>14. Lists(q, S, R)
    BY <1>1, <1>11, <1>12, <1>13 DEF Lists, N
  <1> QED BY <1>14 DEF q

\* A listing names no element twice.
LEMMA ListsOnce ==
  ASSUME NEW S, NEW R, Orders(R, S), NEW q, Lists(q, S, R)
  PROVE  /\ DOMAIN q = 1..Cardinality(S) /\ Range(q) = S
         /\ \A m, n \in DOMAIN q : q[m] = q[n] => m = n
         /\ q \in Bijection(1..Cardinality(S), S)
PROOF
  <1>1. /\ Cardinality(S) \in Nat /\ q \in [1..Cardinality(S) -> S]
        /\ \A e \in S : \E n \in 1..Cardinality(S) : q[n] = e
    BY DEF Lists
  <1>2. \A m, n \in 1..Cardinality(S) : m < n => q[m] # q[n]
    BY <1>1 DEF Lists, Orders
  <1>3. \A m, n \in 1..Cardinality(S) : q[m] = q[n] => m = n
    BY <1>1, <1>2
  <1> QED BY <1>1, <1>3 DEF Range, Bijection, Injection, Surjection, IsInjective

\* There is one listing of a set in an order.
LEMMA OneListing ==
  ASSUME NEW S, NEW R, Orders(R, S), NEW p, NEW q, Lists(p, S, R), Lists(q, S, R)
  PROVE  p = q
PROOF
  <1> DEFINE N == Cardinality(S)
             differ == {n \in 1..N : p[n] # q[n]}
  <1>1. /\ N \in Nat /\ p \in [1..N -> S] /\ q \in [1..N -> S]
        /\ \A e \in S : (\E n \in 1..N : p[n] = e) /\ (\E n \in 1..N : q[n] = e)
        /\ \A m, n \in 1..N : m < n => <<p[m], p[n]>> \in R /\ <<q[m], q[n]>> \in R
    BY DEF Lists
  <1>2. \A m, n \in 1..N : (p[m] = p[n] => m = n) /\ (q[m] = q[n] => m = n)
    BY ListsOnce DEF Lists
  <1>3. ASSUME differ # {}
        PROVE  FALSE
    <2>1. PICK n \in differ : \A m \in differ : n <= m
      <3>1. differ \in SUBSET Nat
        BY <1>1
      <3> HIDE DEF differ
      <3> QED BY <1>3, <3>1, LeastNumber
    <2>2. n \in 1..N /\ p[n] # q[n] /\ p[n] \in S /\ q[n] \in S
      BY <1>1, <2>1
    <2>3. \A m \in 1..N : m < n => p[m] = q[m]
      BY <1>1, <2>1
    <2>4. PICK i \in 1..N : q[i] = p[n]
      BY <1>1, <2>2
    <2>5. PICK j \in 1..N : p[j] = q[n]
      BY <1>1, <2>2
    <2> HIDE DEF differ, N
    <2>6. ~(i < n) /\ ~(j < n) /\ i # n /\ j # n
      BY <1>2, <2>2, <2>3, <2>4, <2>5
    <2>7. n < i /\ n < j
      BY <1>1, <2>2, <2>4, <2>5, <2>6
    <2>8. <<q[n], p[n]>> \in R /\ <<p[n], q[n]>> \in R
      BY <1>1, <2>2, <2>4, <2>5, <2>7
    <2> QED BY <2>2, <2>8 DEF Orders
  <1>4. \A n \in 1..N : p[n] = q[n]
    BY <1>3
  <1> HIDE DEF differ, N
  <1> QED BY <1>1, <1>4

\* Python's order of two tuples of numbers.
LEMMA LexIrreflexive ==
  ASSUME NEW s \in Seq(Int)
  PROVE  ~LexLess(s, s)
BY DEF LexLess

\* The order of sequences of numbers is transitive.
LEMMA LexTransitive ==
  ASSUME NEW s \in Seq(Int), NEW t \in Seq(Int), NEW u \in Seq(Int), LexLess(s, t), LexLess(t, u)
  PROVE  LexLess(s, u)
PROOF
  <1>1. PICK i \in 1..(Len(s) + 1) :
          /\ \A j \in 1..(i - 1) : j <= Len(t) /\ s[j] = t[j]
          /\ i <= Len(t) /\ (i > Len(s) \/ s[i] < t[i])
    BY DEF LexLess
  <1>2. PICK k \in 1..(Len(t) + 1) :
          /\ \A j \in 1..(k - 1) : j <= Len(u) /\ t[j] = u[j]
          /\ k <= Len(u) /\ (k > Len(t) \/ t[k] < u[k])
    BY DEF LexLess
  <1>3. CASE i <= k
    <2>0. \A j \in 1..(i - 1) : j \in 1..(k - 1)
      BY <1>1, <1>2, <1>3
    <2>1. \A j \in 1..(i - 1) : s[j] = t[j] /\ t[j] = u[j] /\ j <= Len(u)
      BY <1>1, <1>2, <2>0
    <2>3. i <= Len(u)
      BY <1>1, <1>2, <1>3
    <2>2. i > Len(s) \/ s[i] < u[i]
      <3>1. CASE i = k
        BY <1>1, <1>2, <3>1
      <3>2. CASE i < k
        BY <1>1, <1>2, <3>2
      <3> QED BY <1>3, <3>1, <3>2
    <2> QED BY <2>1, <2>2, <2>3 DEF LexLess
  <1>4. CASE k < i
    <2>1. k \in 1..(Len(s) + 1) /\ k <= Len(s) /\ s[k] = t[k]
      BY <1>1, <1>4
    <2>2. \A j \in 1..(k - 1) : j \in 1..(i - 1) /\ s[j] = t[j] /\ t[j] = u[j] /\ j <= Len(u)
      BY <1>1, <1>2, <1>4
    <2>3. s[k] < u[k]
      BY <1>1, <1>2, <1>4, <2>1
    <2> QED BY <1>2, <2>1, <2>2, <2>3 DEF LexLess
  <1> QED BY <1>3, <1>4

\* Of two different sequences of numbers one comes first.
LEMMA LexTotal ==
  ASSUME NEW s \in Seq(Int), NEW t \in Seq(Int), ~LexLess(s, t), ~LexLess(t, s)
  PROVE  s = t
PROOF
  <1>0. Len(s) \in Nat /\ Len(t) \in Nat
    OBVIOUS
  <1> DEFINE differ == {j \in Nat \ {0} : j > Len(s) \/ j > Len(t) \/ s[j] # t[j]}
  <1>1. differ # {}
    <2>1. Len(s) + 1 \in differ
      OBVIOUS
    <2> QED BY <2>1
  <1>2. PICK i \in differ : \A j \in differ : i <= j
    <2>1. differ \in SUBSET Nat
      OBVIOUS
    <2> HIDE DEF differ
    <2> QED BY <1>1, <2>1, LeastNumber
  <1>3. i \in Nat \ {0} /\ (i > Len(s) \/ i > Len(t) \/ s[i] # t[i])
    BY <1>2
  <1>4. \A j \in 1..(i - 1) : j <= Len(s) /\ j <= Len(t) /\ s[j] = t[j]
    BY <1>2, <1>3
  <1>5. i <= Len(s) + 1 /\ i <= Len(t) + 1
    <2>1. i - 1 \in 1..(i - 1) \/ i = 1
      BY <1>3
    <2> QED BY <1>3, <1>4, <2>1
  <1> HIDE DEF differ
  <1>6. CASE i > Len(s) /\ i > Len(t)
    <2>1. Len(s) = Len(t) /\ \A j \in 1..Len(s) : s[j] = t[j]
      BY <1>3, <1>4, <1>5, <1>6
    <2> QED BY <2>1, SeqEqual
  <1>7. ASSUME i <= Len(t), i > Len(s) \/ s[i] < t[i]
        PROVE  LexLess(s, t)
    <2>1. i \in 1..(Len(s) + 1)
      BY <1>0, <1>3, <1>5
    <2>2. \A j \in 1..(i - 1) : j <= Len(t) /\ s[j] = t[j]
      BY <1>4
    <2> QED BY <1>7, <2>1, <2>2 DEF LexLess
  <1>8. ASSUME i <= Len(s), i > Len(t) \/ t[i] < s[i]
        PROVE  LexLess(t, s)
    <2>1. i \in 1..(Len(t) + 1)
      BY <1>0, <1>3, <1>5
    <2>2. \A j \in 1..(i - 1) : j <= Len(s) /\ t[j] = s[j]
      BY <1>4
    <2> QED BY <1>8, <2>1, <2>2 DEF LexLess
  <1>9. CASE i <= Len(s) /\ i <= Len(t)
    <2>1. s[i] \in Int /\ t[i] \in Int /\ s[i] # t[i]
      BY <1>3, <1>9
    <2>2. s[i] < t[i] \/ t[i] < s[i]
      BY <2>1
    <2> QED BY <1>7, <1>8, <1>9, <2>2
  <1> QED BY <1>0, <1>3, <1>6, <1>7, <1>8, <1>9

\* The order of the places of a sequence when it is sorted by keys.
ByKeys(keys) ==
  {p \in (DOMAIN keys) \X (DOMAIN keys) :
     IF p[1] < p[2] THEN ~LexLess(keys[p[2]], keys[p[1]]) ELSE LexLess(keys[p[1]], keys[p[2]])}

\* No key comes after a larger one.
Ascending(keys) == \A m, n \in DOMAIN keys : m < n => ~LexLess(keys[n], keys[m])

\* Keys order all the places, since places with one key keep theirs.
LEMMA ByKeysOrders ==
  ASSUME NEW keys \in Seq(Seq(Int))
  PROVE  Orders(ByKeys(keys), DOMAIN keys)
PROOF
  <1> DEFINE D == DOMAIN keys
             L(i, j) == LexLess(keys[i], keys[j])
  <1>1. D = 1..Len(keys) /\ Len(keys) \in Nat /\ \A i \in D : keys[i] \in Seq(Int)
    OBVIOUS
  <1>2. /\ \A i \in D : ~L(i, i)
        /\ \A i, j, k \in D : L(i, j) /\ L(j, k) => L(i, k)
        /\ \A i, j \in D : L(i, j) \/ L(j, i) \/ keys[i] = keys[j]
    BY <1>1, LexIrreflexive, LexTransitive, LexTotal
  <1>3. \A i, j \in D : ~L(i, j) /\ ~L(j, i) => \A k \in D : (L(i, k) <=> L(j, k)) /\ (L(k, i) <=> L(k, j))
    BY <1>2
  <1>4. \A i, j \in D : <<i, j>> \in ByKeys(keys) <=> (IF i < j THEN ~L(j, i) ELSE L(i, j))
    BY DEF ByKeys
  <1>5. \A i, j, k \in D : (i < j /\ j < k => i < k) /\ (i < j \/ j < i \/ i = j) /\ ~(i < i)
    BY <1>1
  <1> HIDE DEF L, D
  <1>6. \A a \in D : <<a, a>> \notin ByKeys(keys)
    BY <1>2, <1>4, <1>5
  <1>7. ASSUME NEW a \in D, NEW b \in D, NEW c \in D, <<a, b>> \in ByKeys(keys), <<b, c>> \in ByKeys(keys)
        PROVE  <<a, c>> \in ByKeys(keys)
    <2>1. (IF a < b THEN ~L(b, a) ELSE L(a, b)) /\ (IF b < c THEN ~L(c, b) ELSE L(b, c))
      BY <1>4, <1>7
    <2>2. L(a, b) \/ (a < b /\ ~L(a, b) /\ ~L(b, a))
      BY <1>2, <2>1
    <2>3. L(b, c) \/ (b < c /\ ~L(b, c) /\ ~L(c, b))
      BY <1>2, <2>1
    <2>4. L(a, c) \/ (a < c /\ ~L(c, a))
      BY <1>2, <1>3, <1>5, <2>2, <2>3
    <2>5. IF a < c THEN ~L(c, a) ELSE L(a, c)
      BY <1>2, <2>4
    <2> QED BY <1>4, <2>5
  <1>8. \A a, b \in D : a # b => <<a, b>> \in ByKeys(keys) \/ <<b, a>> \in ByKeys(keys)
    BY <1>2, <1>4, <1>5
  <1>9. Orders(ByKeys(keys), D)
    BY <1>6, <1>7, <1>8 DEF Orders
  <1> QED BY <1>9 DEF D

\* Where each element of the sorted sequence came from.
Placement(keys) == Ranked(DOMAIN keys, ByKeys(keys))

\* Sorting by keys moves every place to one of its own, the keys ascend from then
\* on, and what ascends already stays as it is.
LEMMA PlacementSorts ==
  ASSUME NEW keys \in Seq(Seq(Int))
  PROVE  /\ Placement(keys) \in Bijection(DOMAIN keys, DOMAIN keys)
         /\ \A m, n \in DOMAIN keys : m < n => ~LexLess(keys[Placement(keys)[n]], keys[Placement(keys)[m]])
         /\ \A m, n \in DOMAIN keys : 
               m < n /\ keys[Placement(keys)[n]] = keys[Placement(keys)[m]] => Placement(keys)[m] < Placement(keys)[n]
         /\ Ascending(keys) => Placement(keys) = [i \in DOMAIN keys |-> i]
PROOF
  <1> DEFINE D == DOMAIN keys
             q == Placement(keys)
  <1>1. D = 1..Len(keys) /\ Len(keys) \in Nat /\ \A i \in D : keys[i] \in Seq(Int)
    OBVIOUS
  <1>2. IsFiniteSet(D) /\ Cardinality(D) = Len(keys)
    BY <1>1, FS_Interval
  <1>3. Orders(ByKeys(keys), D)
    BY ByKeysOrders
  <1>4. Lists(q, D, ByKeys(keys))
    BY <1>2, <1>3, RankedLists DEF Placement
  <1>5. q \in Bijection(D, D)
    BY <1>1, <1>2, <1>3, <1>4, ListsOnce
  <1>6. \A m, n \in D : m < n => <<q[m], q[n]>> \in ByKeys(keys)
    BY <1>1, <1>2, <1>4 DEF Lists
  <1>7. \A m \in D : q[m] \in D
    BY <1>5 DEF Bijection, Injection
  <1>8. ASSUME NEW m \in D, NEW n \in D, m < n
        PROVE  /\ ~LexLess(keys[q[n]], keys[q[m]])
               /\ keys[q[n]] = keys[q[m]] => q[m] < q[n]
    <2>1. IF q[m] < q[n] THEN ~LexLess(keys[q[n]], keys[q[m]]) ELSE LexLess(keys[q[m]], keys[q[n]])
      BY <1>6, <1>8 DEF ByKeys
    <2>2. keys[q[m]] \in Seq(Int) /\ keys[q[n]] \in Seq(Int)
      BY <1>1, <1>7
    <2> QED BY <2>1, <2>2, LexIrreflexive, LexTransitive
  <1>9. ASSUME Ascending(keys)
        PROVE  q = [i \in D |-> i]
    <2> DEFINE id == [i \in D |-> i]
    <2>1. \A m, n \in D : m < n => <<m, n>> \in ByKeys(keys)
      BY <1>9 DEF Ascending, ByKeys
    <2>2. Lists(id, D, ByKeys(keys))
      BY <1>1, <1>2, <2>1 DEF Lists
    <2> HIDE DEF q, id
    <2> QED BY <1>3, <1>4, <2>2, OneListing DEF id
  <1> HIDE DEF q, D
  <1> QED BY <1>5, <1>8, <1>9 DEF q, D

-----------------------------------------------------------------------------
\* Joining sequences.

\* The places of the elements of several sequences, up to the k-th.
PlacesTo(seqs, k) == {x \in (1..k) \X (Nat \ {0}) : x[2] <= Len(seqs[x[1]])}
PlacesOf(seqs) == PlacesTo(seqs, Len(seqs))

\* t is made of the elements at the places of seqs, each once.
MadeOf(t, seqs, k) ==
  \E p \in Bijection(DOMAIN t, PlacesTo(seqs, k)) : \A i \in DOMAIN t : t[i] = seqs[p[i][1]][p[i][2]]

\* The function by which sequences are joined.
Flattening(f, seqs, k) == f = [i \in 1..k |-> IF i = 1 THEN seqs[i] ELSE f[i - 1] \o seqs[i]]

\* The function that FlattenSeq is defined by exists.
LEMMA FlatteningExists ==
  ASSUME NEW seqs, NEW N \in Nat \ {0}
  PROVE  \E f : Flattening(f, seqs, N)
PROOF
  <1> DEFINE bad == {k \in Nat \ {0} : ~\E f : Flattening(f, seqs, k)}
  <1>1. ASSUME bad # {}
        PROVE  FALSE
    <2>1. bad \in SUBSET Nat
      OBVIOUS
    <2>2. PICK k \in bad : \A j \in bad : k <= j
      <3> HIDE DEF bad
      <3> QED BY <1>1, <2>1, LeastNumber
    <2>3. CASE k = 1
      <3>1. Flattening([i \in 1..1 |-> seqs[1]], seqs, 1)
        BY DEF Flattening
      <3> QED BY <2>2, <2>3, <3>1
    <2>4. CASE k # 1
      <3>1. k - 1 \in Nat \ {0} /\ k - 1 \notin bad
        BY <2>2, <2>4
      <3>2. PICK f : Flattening(f, seqs, k - 1)
        BY <3>1
      <3> DEFINE g == [i \in 1..k |-> IF i = k THEN f[k - 1] \o seqs[k] ELSE f[i]]
      <3>3. /\ \A i \in 1..(k - 1) : g[i] = f[i]
            /\ g[k] = f[k - 1] \o seqs[k]
        <4>1. k \in Nat /\ k >= 1
          BY <2>2
        <4>2. \A i \in 1..(k - 1) : i \in 1..k /\ i # k
          BY <4>1
        <4>3. k \in 1..k
          BY <4>1
        <4> QED BY <4>2, <4>3
      <3>4. \A i \in 1..(k - 1) : f[i] = IF i = 1 THEN seqs[i] ELSE f[i - 1] \o seqs[i]
        BY <3>2 DEF Flattening
      <3>5. \A i \in 1..k : g[i] = IF i = 1 THEN seqs[i] ELSE g[i - 1] \o seqs[i]
        <4> TAKE i \in 1..k
        <4>1. CASE i = k
          <5>1. k - 1 \in 1..(k - 1)
            BY <3>1
          <5> HIDE DEF g
          <5> QED BY <2>4, <3>3, <4>1, <5>1
        <4>2. CASE i # k
          <5>1. i \in 1..(k - 1) /\ (i # 1 => i - 1 \in 1..(k - 1))
            BY <3>1, <4>2
          <5> HIDE DEF g
          <5> QED BY <3>3, <3>4, <5>1
        <4> QED BY <4>1, <4>2
      <3>6. g = [i \in 1..k |-> g[i]]
        OBVIOUS
      <3> HIDE DEF g
      <3>7. Flattening(g, seqs, k)
        BY <3>5, <3>6 DEF Flattening
      <3> QED BY <2>2, <3>7
    <2> QED BY <2>3, <2>4
  <1> QED BY <1>1

\* One more sequence at the end.
LEMMA MadeOfMore ==
  ASSUME NEW S, NEW seqs \in Seq(Seq(S)), NEW k \in 1..Len(seqs), NEW t \in Seq(S), MadeOf(t, seqs, k - 1)
  PROVE  MadeOf(t \o seqs[k], seqs, k)
PROOF
  <1>1. seqs[k] \in Seq(S) /\ t \o seqs[k] \in Seq(S) /\ Len(t) \in Nat /\ Len(seqs[k]) \in Nat
        /\ k \in Nat
    OBVIOUS
  <1> DEFINE u == t \o seqs[k]
             n == Len(t)
             A == PlacesTo(seqs, k - 1)
             B == PlacesTo(seqs, k)
  <1>2. /\ DOMAIN u = 1..(n + Len(seqs[k])) /\ DOMAIN t = 1..n
        /\ \A i \in 1..n : u[i] = t[i]
        /\ \A i \in DOMAIN u : i > n => i - n \in 1..Len(seqs[k]) /\ u[i] = seqs[k][i - n]
    BY <1>1
  <1>3. PICK p \in Bijection(1..n, A) : \A i \in 1..n : t[i] = seqs[p[i][1]][p[i][2]]
    BY <1>2 DEF MadeOf
  <1>4. /\ p \in [1..n -> A] /\ \A i, j \in 1..n : p[i] = p[j] => i = j
        /\ \A x \in A : \E i \in 1..n : p[i] = x
    BY <1>3 DEF Bijection, Injection, Surjection, IsInjective
  <1>5. /\ \A x \in A : x \in B /\ x[1] # k
        /\ \A m \in 1..Len(seqs[k]) : <<k, m>> \in B
        /\ \A x \in B : x \in A \/ (x = <<k, x[2]>> /\ x[2] \in 1..Len(seqs[k]))
    <2>1. \A x \in A : x \in B /\ x[1] # k
      BY <1>1 DEF PlacesTo
    <2>2. \A m \in 1..Len(seqs[k]) : <<k, m>> \in B
      BY <1>1 DEF PlacesTo
    <2>3. ASSUME NEW x \in B
          PROVE  x \in A \/ (x = <<k, x[2]>> /\ x[2] \in 1..Len(seqs[k]))
      <3>1. x \in (1..k) \X (Nat \ {0}) /\ x[2] <= Len(seqs[x[1]])
        BY DEF PlacesTo
      <3>2. CASE x[1] = k
        BY <1>1, <3>1, <3>2
      <3>3. CASE x[1] # k
        BY <1>1, <3>1, <3>3 DEF PlacesTo
      <3> QED BY <3>2, <3>3
    <2> QED BY <2>1, <2>2, <2>3
  <1> DEFINE q == [i \in DOMAIN u |-> IF i <= n THEN p[i] ELSE <<k, i - n>>]
  <1>6. \A i \in DOMAIN u : /\ i <= n => i \in 1..n /\ q[i] = p[i] /\ q[i] \in A
                            /\ i > n => q[i] = <<k, i - n>> /\ i - n \in 1..Len(seqs[k])
                            /\ i \in Nat
    BY <1>1, <1>2, <1>4
  <1>7. q = [i \in DOMAIN u |-> q[i]]
    OBVIOUS
  <1> HIDE DEF u, A, B, q, n
  <1>8. ASSUME NEW i \in DOMAIN u
        PROVE  q[i] \in B
    <2>0. n \in Nat /\ i \in Nat
      BY <1>1, <1>6 DEF n
    <2>1. CASE i <= n
      <3>1. q[i] \in A
        BY <1>6, <2>1
      <3> QED BY <1>5, <3>1
    <2>2. CASE i > n
      <3>1. q[i] = <<k, i - n>> /\ i - n \in 1..Len(seqs[k])
        BY <1>6, <2>2
      <3> QED BY <1>5, <3>1
    <2> QED BY <2>0, <2>1, <2>2
  <1>9. \A i, j \in DOMAIN u : q[i] = q[j] => i = j
    <2>1. ASSUME NEW i \in DOMAIN u, NEW j \in DOMAIN u, q[i] = q[j]
          PROVE  i = j
      <3>0. n \in Nat
        BY <1>1 DEF n
      <3>1. CASE i <= n /\ j <= n
        BY <1>4, <1>6, <2>1, <3>1
      <3>2. CASE i > n /\ j > n
        BY <1>6, <2>1, <3>2, <3>0
      <3>3. CASE i <= n /\ j > n
        BY <1>5, <1>6, <2>1, <3>3
      <3>4. CASE i > n /\ j <= n
        BY <1>5, <1>6, <2>1, <3>4
      <3> QED BY <1>6, <3>0, <3>1, <3>2, <3>3, <3>4
    <2> QED BY <2>1
  <1>10. \A x \in B : \E i \in DOMAIN u : q[i] = x
    <2> TAKE x \in B
    <2>1. CASE x \in A
      <3>1. PICK i \in 1..n : p[i] = x
        BY <1>4, <2>1
      <3>2. i \in DOMAIN u /\ i <= n
        BY <1>1, <1>2 DEF n
      <3> QED BY <1>6, <3>1, <3>2
    <2>2. CASE x = <<k, x[2]>> /\ x[2] \in 1..Len(seqs[k])
      <3> DEFINE i == n + x[2]
      <3>1. i \in DOMAIN u /\ i > n /\ i - n = x[2]
        BY <1>1, <1>2, <2>2 DEF n
      <3> HIDE DEF i
      <3> QED BY <1>6, <2>2, <3>1
    <2> QED BY <1>5, <2>1, <2>2
  <1>11. q \in Bijection(DOMAIN u, B)
    BY <1>7, <1>8, <1>9, <1>10 DEF Bijection, Injection, Surjection, IsInjective
  <1>12. \A i \in DOMAIN u : u[i] = seqs[q[i][1]][q[i][2]]
    <2> TAKE i \in DOMAIN u
    <2>1. CASE i <= n
      BY <1>2, <1>3, <1>6, <2>1
    <2>2. CASE i > n
      BY <1>2, <1>6, <2>2
    <2> QED BY <1>1, <1>6, <2>1, <2>2 DEF n
  <1>13. MadeOf(u, seqs, k)
    BY <1>11, <1>12 DEF MadeOf, B
  <1> QED BY <1>13 DEF u

\* Flattening keeps every element, each once.
LEMMA FlattenMadeOf ==
  ASSUME NEW S, NEW seqs \in Seq(Seq(S))
  PROVE  FlattenSeq(seqs) \in Seq(S) /\ MadeOf(FlattenSeq(seqs), seqs, Len(seqs))
PROOF
  <1>1. MadeOf(<<>>, seqs, 0)
    <2>1. PlacesTo(seqs, 0) = {}
      BY DEF PlacesTo
    <2> DEFINE p == [i \in {} |-> 0]
    <2>2. p \in Bijection({}, {})
      BY DEF Bijection, Injection, Surjection, IsInjective
    <2> HIDE DEF p
    <2>3. DOMAIN (<<>>) = {}
      OBVIOUS
    <2> QED BY <2>1, <2>2, <2>3 DEF MadeOf
  <1>2. CASE Len(seqs) = 0
    <2>1. FlattenSeq(seqs) = seqs /\ seqs = <<>>
      BY <1>2 DEF FlattenSeq
    <2> QED BY <1>1, <1>2, <2>1
  <1>3. CASE Len(seqs) # 0
    <2> DEFINE N == Len(seqs)
               f == CHOOSE f : Flattening(f, seqs, N)
    <2>1. N \in Nat \ {0}
      BY <1>3
    <2>2. FlattenSeq(seqs) = f[N]
      BY <1>3 DEF FlattenSeq, Flattening
    <2>3. Flattening(f, seqs, N)
      BY <2>1, FlatteningExists
    <2> HIDE DEF f
    <2>4. /\ f[1] = seqs[1]
          /\ \A i \in 1..N : i # 1 => f[i] = f[i - 1] \o seqs[i]
      <3>1. \A i \in 1..N : f[i] = IF i = 1 THEN seqs[i] ELSE f[i - 1] \o seqs[i]
        BY <2>3, Zenon DEF Flattening
      <3>2. 1 \in 1..N
        BY <2>1
      <3> HIDE DEF N
      <3> QED BY <3>1, <3>2
    <2> DEFINE bad == {i \in 1..N : ~(f[i] \in Seq(S) /\ MadeOf(f[i], seqs, i))}
    <2>5. ASSUME bad # {}
          PROVE  FALSE
      <3>1. bad \in SUBSET Nat
        BY <2>1
      <3>2. PICK i \in bad : \A j \in bad : i <= j
        <4> HIDE DEF bad
        <4> QED BY <2>5, <3>1, LeastNumber
      <3>3. CASE i = 1
        <4>1. seqs[1] \in Seq(S)
          BY <2>1
        <4>2. MadeOf(<<>> \o seqs[1], seqs, 1)
          <5>1. 1 \in 1..Len(seqs) /\ <<>> \in Seq(S) /\ 1 - 1 = 0
            BY <2>1
          <5> QED BY <1>1, <5>1, MadeOfMore
        <4>3. <<>> \o seqs[1] = seqs[1]
          BY <4>1, ConcatEmptySeq
        <4> QED BY <2>4, <3>2, <3>3, <4>1, <4>2, <4>3
      <3>4. CASE i # 1
        <4>1. i - 1 \in 1..N /\ i \in 1..Len(seqs) /\ i - 1 \notin bad
          BY <2>1, <3>2, <3>4
        <4>2. f[i - 1] \in Seq(S) /\ MadeOf(f[i - 1], seqs, i - 1)
          BY <4>1
        <4>3. MadeOf(f[i - 1] \o seqs[i], seqs, i)
          BY <4>1, <4>2, MadeOfMore
        <4>4. f[i - 1] \o seqs[i] \in Seq(S)
          BY <4>1, <4>2
        <4>5. f[i] = f[i - 1] \o seqs[i]
          BY <2>4, <3>4, <4>1
        <4> QED BY <3>2, <4>3, <4>4, <4>5
      <3> QED BY <3>3, <3>4
    <2>6. f[N] \in Seq(S) /\ MadeOf(f[N], seqs, N)
      <3>1. N \in 1..N /\ N \notin bad
        BY <2>1, <2>5
      <3> QED BY <3>1
    <2> QED BY <2>2, <2>6
  <1> QED BY <1>2, <1>3

-----------------------------------------------------------------------------
\* The texts, the Sources and the keys of findings as numbers.

\* The place of a text tells the texts and null apart.
LEMMA LexPlaces ==
  /\ \A s \in OptionalTexts : Lex(s) \in Nat
  /\ \A s, t \in OptionalTexts : Lex(s) = Lex(t) => s = t
PROOF
  <1>1. ASSUME NEW s \in Texts
        PROVE  /\ s # None /\ Lex(s) \in Nat /\ Lex(s) >= 1 /\ Lexical[Lex(s)] = s
    <2>1. \E i \in DOMAIN Lexical : Lexical[i] = s
      BY DEF Texts, Range
    <2>2. Place[s] \in DOMAIN Lexical /\ Lexical[Place[s]] = s
      BY <2>1 DEF Place, Texts
    <2>3. s # None
      BY LexicalAssumption DEF Texts
    <2>4. DOMAIN Lexical \subseteq Nat \ {0}
      <3>1. PICK S : Lexical \in Seq(S)
        BY LexicalAssumption
      <3>2. DOMAIN Lexical = 1..Len(Lexical) /\ Len(Lexical) \in Nat
        BY <3>1
      <3> QED BY <3>2
    <2> QED BY <2>2, <2>3, <2>4 DEF Lex
  <1>2. Lex(None) = 0
    BY DEF Lex
  <1> QED BY <1>1, <1>2 DEF OptionalTexts

\* The order of the Sources tells them apart.
LEMMA SourceNumbers ==
  /\ DOMAIN SOURCE_ORDER = Range(SOURCES) /\ AGENT_SOURCE \in DOMAIN SOURCE_ORDER
  /\ \A s \in DOMAIN SOURCE_ORDER : SOURCE_ORDER[s] \in Nat
  /\ \A s, t \in DOMAIN SOURCE_ORDER : SOURCE_ORDER[s] = SOURCE_ORDER[t] => s = t
PROOF
  <1>1. ASSUME NEW s \in Range(SOURCES)
        PROVE  SOURCE_ORDER[s] \in DOMAIN SOURCES /\ SOURCES[SOURCE_ORDER[s]] = s
    <2>1. \E i \in DOMAIN SOURCES : SOURCES[i] = s
      BY DEF Range
    <2> QED BY <2>1 DEF SOURCE_ORDER
  <1>2. DOMAIN SOURCE_ORDER = Range(SOURCES)
    BY DEF SOURCE_ORDER
  <1>3. DOMAIN SOURCES \subseteq Nat
    BY DEF SOURCES
  <1>4. AGENT_SOURCE \in Range(SOURCES)
    <2>1. SOURCES[7] = AGENT_SOURCE /\ 7 \in DOMAIN SOURCES
      BY DEF SOURCES, AGENT_SOURCE
    <2> QED BY <2>1 DEF Range
  <1> QED BY <1>1, <1>2, <1>3, <1>4

\* The notices of an entry can be counted.
LEMMA NoticesFinite ==
  ASSUME NEW n \in SUBSET NOTICES
  PROVE  Cardinality(n) \in Nat
PROOF
  <1>1. IsFiniteSet({"credential_rule"})
    BY FS_Singleton
  <1>2. NOTICES = {"credential_rule"} \cup {"no_echo_parameter"}
    BY DEF NOTICES
  <1>3. IsFiniteSet(NOTICES)
    BY <1>1, <1>2, FS_Singleton, FS_Union
  <1> QED BY <1>3, FS_Subset, FS_CardinalityType

\* What a Finding is written as is made of numbers, and so are the two keys it
\* is sorted by.
LEMMA CanonicalNumbers ==
  ASSUME NEW f \in Findings, NEW id \in Nat
  PROVE  CanonicalForm(f, id) \in Seq(Int)
PROOF
  <1>1. /\ CONFIDENCE_ORDER[f.Confidence] \in Int /\ FINDING_TYPE_ORDER[f.FindingType] \in Int
        /\ SEVERITY_ORDER[f.Severity] \in Int
    BY DEF Findings, CONFIDENCE_ORDER, FINDING_TYPE_ORDER, SEVERITY_ORDER
  <1>2. f.Evidence \in Seq(EvidenceEntries)
    BY DEF Findings
  <1>3. ASSUME NEW e \in EvidenceEntries
        PROVE  EvidenceText(e) \in Seq(Int)
    <2>1. Cardinality(e.Notices) \in Nat
      BY NoticesFinite DEF EvidenceEntries
    <2>2. /\ e.Detail \in OptionalTexts /\ e.Excerpt \in OptionalTexts /\ e.RuleId \in OptionalTexts
          /\ e.Source \in DOMAIN SOURCE_ORDER
      BY DEF EvidenceEntries, OptionalTexts
    <2>3. SOURCE_ORDER[e.Source] \in Nat
      BY <2>2, SourceNumbers
    <2>4. Lex(e.Detail) \in Nat /\ Lex(e.Excerpt) \in Nat /\ Lex(e.RuleId) \in Nat
      BY <2>2, LexPlaces
    <2> QED BY <2>1, <2>3, <2>4 DEF EvidenceText
  <1> DEFINE texts == [i \in DOMAIN f.Evidence |-> EvidenceText(f.Evidence[i])]
  <1>4. texts \in Seq(Seq(Int))
    <2>1. \A i \in DOMAIN f.Evidence : EvidenceText(f.Evidence[i]) \in Seq(Int)
      BY <1>2, <1>3
    <2>2. DOMAIN f.Evidence = 1..Len(f.Evidence) /\ Len(f.Evidence) \in Nat
      BY <1>2
    <2> QED BY <2>1, <2>2
  <1>5. FlattenSeq(texts) \in Seq(Int)
    BY <1>4, FlattenMadeOf
  <1>6. LocationText(f) \in Seq(Int)
    <2>1. f.File \in OptionalTexts /\ f.Line \in Nat \cup {None} /\ f.Path \in Seq(Texts) \cup {None}
      BY DEF Findings, OptionalTexts
    <2>2. Lex(f.File) \in Int /\ (IF f.Line = None THEN 0 ELSE f.Line) \in Int
      BY <2>1, LexPlaces
    <2>3. (IF f.Path = None THEN <<-1>> ELSE <<Len(f.Path)>> \o [i \in DOMAIN f.Path |-> Lex(f.Path[i])]) \in Seq(Int)
      <3>1. CASE f.Path = None
        BY <3>1
      <3>2. CASE f.Path # None
        <4>1. f.Path \in Seq(Texts)
          BY <2>1, <3>2
        <4>2. \A i \in DOMAIN f.Path : Lex(f.Path[i]) \in Int
          BY <4>1, LexPlaces DEF OptionalTexts
        <4>3. [i \in DOMAIN f.Path |-> Lex(f.Path[i])] \in Seq(Int)
          BY <4>1, <4>2
        <4> QED BY <3>2, <4>1, <4>3
      <3> QED BY <3>1, <3>2
    <2> QED BY <2>2, <2>3 DEF LocationText
  <1>7. f.Source \in Seq(DOMAIN SOURCE_ORDER) /\ Len(f.Source) \in Int
    BY DEF Findings
  <1>8. [i \in DOMAIN f.Source |-> SOURCE_ORDER[f.Source[i]]] \in Seq(Int)
    BY <1>7, SourceNumbers
  <1>9. Lex(f.Text) \in Int /\ Lex(f.Normalized_Category) \in Int /\ Lex(f.Resource) \in Int /\ Lex(f.Fix) \in Int
    <2>1. f.Text \in OptionalTexts /\ f.Normalized_Category \in OptionalTexts /\ f.Resource \in OptionalTexts
          /\ f.Fix \in OptionalTexts
      <3>1. Categories \subseteq Texts
        BY LexicalAssumption DEF Texts
      <3> QED BY <3>1 DEF Findings, OptionalTexts
    <2> QED BY <2>1, LexPlaces
  <1>10. Len(f.Evidence) \in Int
    BY <1>2
  <1> DEFINE a == <<CONFIDENCE_ORDER[f.Confidence], Len(f.Evidence)>>
             b == FlattenSeq(texts)
             c == <<Lex(f.Text), FINDING_TYPE_ORDER[f.FindingType], id>>
             d == LocationText(f)
             e == <<Lex(f.Normalized_Category), Lex(f.Resource), SEVERITY_ORDER[f.Severity], Len(f.Source)>>
             g == [i \in DOMAIN f.Source |-> SOURCE_ORDER[f.Source[i]]]
             h == <<Lex(f.Fix)>>
  <1>11. a \in Seq(Int) /\ c \in Seq(Int) /\ e \in Seq(Int) /\ h \in Seq(Int)
    BY <1>1, <1>7, <1>9, <1>10
  <1>12. b \in Seq(Int) /\ d \in Seq(Int) /\ g \in Seq(Int)
    BY <1>5, <1>6, <1>8
  <1>13. CanonicalForm(f, id) = a \o b \o c \o d \o e \o g \o h
    BY DEF CanonicalForm
  <1> HIDE DEF a, b, c, d, e, g, h
  <1> QED BY <1>11, <1>12, <1>13

\* The keys that order a report, and a group, are sequences of numbers.
LEMMA SortNumbers ==
  ASSUME NEW f \in Findings
  PROVE  SortKey(f) \in Seq(Int) /\ OrderKey(f) \in Seq(Int)
PROOF
  <1>1. CanonicalForm(f, UNASSIGNED_ID) \in Seq(Int) /\ CanonicalForm(f, f.ID) \in Seq(Int)
    BY CanonicalNumbers DEF UNASSIGNED_ID, Findings
  <1>2. -SEVERITY_ORDER[f.Severity] \in Int
    BY DEF Findings, SEVERITY_ORDER
  <1>3. Lex(f.Text) \in Int /\ Lex(f.Normalized_Category) \in Int /\ Lex(f.Resource) \in Int
    <2>1. f.Text \in OptionalTexts /\ f.Normalized_Category \in OptionalTexts /\ f.Resource \in OptionalTexts
          /\ f.Fix \in OptionalTexts
      <3>1. Categories \subseteq Texts
        BY LexicalAssumption DEF Texts
      <3> QED BY <3>1 DEF Findings, OptionalTexts
    <2> QED BY <2>1, LexPlaces
  <1>4. SOURCE_ORDER[f.Source[1]] \in Int
    <2>1. f.Source \in Seq(DOMAIN SOURCE_ORDER) /\ f.Source # <<>>
      BY DEF Findings
    <2>2. f.Source[1] \in DOMAIN SOURCE_ORDER
      BY <2>1
    <2> QED BY <2>2, SourceNumbers
  <1>5. SortKey(f) \in Seq(Int)
    BY <1>1, <1>2, <1>3 DEF SortKey
  <1>6. OrderKey(f) \in Seq(Int)
    BY <1>1, <1>3, <1>4 DEF OrderKey
  <1> QED BY <1>5, <1>6

-----------------------------------------------------------------------------
\* Numbering: the findings of a report, and the same once more.

\* A sequence in the order of its keys.
Arranged(s, keys) == [n \in DOMAIN s |-> s[Placement(keys)[n]]]

\* The keys of the order of a report, and of that of a group.
SortKeys(fs) == [i \in DOMAIN fs |-> SortKey(fs[i])]
OrderKeys(fs) == [i \in DOMAIN fs |-> OrderKey(fs[i])]

\* Arranging a sequence keeps what is in it, each as often as it was.
LEMMA ArrangedKeeps ==
  ASSUME NEW S, NEW s \in Seq(S), NEW keys \in Seq(Seq(Int)), DOMAIN keys = DOMAIN s
  PROVE  /\ Arranged(s, keys) \in Seq(S) /\ DOMAIN Arranged(s, keys) = DOMAIN s
         /\ Len(Arranged(s, keys)) = Len(s)
         /\ Placement(keys) \in Bijection(DOMAIN s, DOMAIN s)
         /\ \A n \in DOMAIN s : Placement(keys)[n] \in DOMAIN s /\ Arranged(s, keys)[n] = s[Placement(keys)[n]]
         /\ Range(Arranged(s, keys)) = Range(s)
         /\ Ascending([n \in DOMAIN s |-> keys[Placement(keys)[n]]])
         /\ Ascending(keys) => Arranged(s, keys) = s
PROOF
  <1> DEFINE D == DOMAIN s
             q == Placement(keys)
             t == Arranged(s, keys)
  <1>1. D = 1..Len(s) /\ Len(s) \in Nat
    OBVIOUS
  <1>2. q \in Bijection(D, D)
    BY PlacementSorts
  <1>3. q \in [D -> D] /\ \A m \in D : \E n \in D : q[n] = m
    BY <1>2 DEF Bijection, Injection, Surjection
  <1>4. /\ DOMAIN t = D /\ \A n \in D : t[n] = s[q[n]] /\ q[n] \in D
        /\ t = [n \in D |-> t[n]]
    BY <1>3 DEF Arranged
  <1>5. t \in Seq(S) /\ Len(t) = Len(s)
    <2>0. \A n \in D : s[n] \in S
      OBVIOUS
    <2>1. \A n \in D : t[n] \in S
      <3> HIDE DEF t, D, q
      <3> QED BY <1>4, <2>0
    <2> HIDE DEF t
    <2>2. t \in [1..Len(s) -> S]
      BY <1>1, <1>4, <2>1
    <2>3. t \in Seq(S)
      <3>1. PICK n \in Nat : n = Len(s)
        BY <1>1
      <3>2. t \in [1..n -> S]
        BY <2>2, <3>1
      <3> QED BY <3>2
    <2>4. DOMAIN t = 1..Len(t)
      BY <2>3
    <2>5. Len(t) = Len(s)
      BY <1>1, <1>4, <2>3, <2>4
    <2> QED BY <2>3, <2>5
  <1>6. Range(t) = Range(s)
    <2>1. ASSUME NEW x \in Range(s)
          PROVE  x \in Range(t)
      <3>1. PICK m \in D : s[m] = x
        BY DEF Range
      <3>2. PICK n \in D : q[n] = m
        BY <1>3
      <3>3. t[n] = x /\ n \in DOMAIN t
        BY <1>4, <3>1, <3>2
      <3> QED BY <3>3 DEF Range
    <2>2. ASSUME NEW x \in Range(t)
          PROVE  x \in Range(s)
      <3>1. PICK n \in D : t[n] = x
        BY <1>4 DEF Range
      <3> QED BY <1>4, <3>1 DEF Range
    <2> QED BY <2>1, <2>2
  <1>7. Ascending([n \in D |-> keys[q[n]]])
    <2>1. \A m, n \in D : m < n => ~LexLess(keys[q[n]], keys[q[m]])
      BY PlacementSorts
    <2> QED BY <2>1 DEF Ascending
  <1>8. ASSUME Ascending(keys)
        PROVE  t = s
    <2>1. q = [i \in D |-> i]
      BY <1>8, PlacementSorts
    <2>2. \A n \in D : t[n] = s[n]
      BY <1>4, <2>1
    <2> HIDE DEF t
    <2> QED BY <1>1, <1>4, <1>5, <2>2, SeqEqual
  <1> QED BY <1>1, <1>2, <1>4, <1>5, <1>6, <1>7, <1>8

\* Where each element of an arranged sequence comes from.
LEMMA ArrangedPlaces ==
  ASSUME NEW s, NEW keys \in Seq(Seq(Int)), DOMAIN keys = DOMAIN s
  PROVE  /\ DOMAIN Arranged(s, keys) = DOMAIN s
         /\ Placement(keys) \in Bijection(DOMAIN s, DOMAIN s)
         /\ \A n \in DOMAIN s : Placement(keys)[n] \in DOMAIN s /\ Arranged(s, keys)[n] = s[Placement(keys)[n]]
         /\ Ascending([n \in DOMAIN s |-> keys[Placement(keys)[n]]])
PROOF
  <1>1. Placement(keys) \in Bijection(DOMAIN s, DOMAIN s)
    BY PlacementSorts
  <1>2. \A n \in DOMAIN s : Placement(keys)[n] \in DOMAIN s /\ Arranged(s, keys)[n] = s[Placement(keys)[n]]
    BY <1>1 DEF Arranged, Bijection, Injection
  <1>3. Ascending([n \in DOMAIN s |-> keys[Placement(keys)[n]]])
    <2>1. \A m, n \in DOMAIN s : m < n => ~LexLess(keys[Placement(keys)[n]], keys[Placement(keys)[m]])
      BY PlacementSorts
    <2> QED BY <2>1 DEF Ascending
  <1> QED BY <1>1, <1>2, <1>3 DEF Arranged

\* What is in order stays as it is.
LEMMA ArrangedAlready ==
  ASSUME NEW S, NEW s \in Seq(S), NEW keys \in Seq(Seq(Int)), DOMAIN keys = DOMAIN s, Ascending(keys)
  PROVE  Arranged(s, keys) = s
BY ArrangedKeeps

\* The report's order, and the order of a group, are orders by keys.
LEMMA SortIsArranged ==
  ASSUME NEW fs \in Seq(Findings)
  PROVE  /\ SortKeys(fs) \in Seq(Seq(Int)) /\ DOMAIN SortKeys(fs) = DOMAIN fs
         /\ OrderKeys(fs) \in Seq(Seq(Int)) /\ DOMAIN OrderKeys(fs) = DOMAIN fs
         /\ sort_findings(fs) = Arranged(fs, SortKeys(fs))
         /\ Ordered(fs) = Arranged(fs, OrderKeys(fs))
PROOF
  <1> DEFINE D == DOMAIN fs
  <1>1. D = 1..Len(fs) /\ Len(fs) \in Nat /\ \A i \in D : fs[i] \in Findings
    OBVIOUS
  <1>2. \A i \in D : SortKey(fs[i]) \in Seq(Int) /\ OrderKey(fs[i]) \in Seq(Int)
    BY <1>1, SortNumbers
  <1>3. /\ DOMAIN SortKeys(fs) = D /\ DOMAIN OrderKeys(fs) = D
        /\ \A i \in D : SortKeys(fs)[i] = SortKey(fs[i]) /\ OrderKeys(fs)[i] = OrderKey(fs[i])
    BY DEF SortKeys, OrderKeys
  <1>4. SortKeys(fs) \in Seq(Seq(Int)) /\ OrderKeys(fs) \in Seq(Seq(Int))
    BY <1>1, <1>2 DEF SortKeys, OrderKeys
  <1>5. {p \in D \X D : IF p[1] < p[2] THEN ~LexLess(SortKey(fs[p[2]]), SortKey(fs[p[1]]))
                         ELSE LexLess(SortKey(fs[p[1]]), SortKey(fs[p[2]]))} = ByKeys(SortKeys(fs))
    BY <1>3 DEF ByKeys
  <1>6. {p \in D \X D : IF p[1] < p[2] THEN ~LexLess(OrderKey(fs[p[2]]), OrderKey(fs[p[1]]))
                         ELSE LexLess(OrderKey(fs[p[1]]), OrderKey(fs[p[2]]))} = ByKeys(OrderKeys(fs))
    BY <1>3 DEF ByKeys
  <1>7. sort_findings(fs) = Arranged(fs, SortKeys(fs))
    BY <1>3, <1>5 DEF sort_findings, StableSort, SortedSet, Arranged, Placement
  <1>8. Ordered(fs) = Arranged(fs, OrderKeys(fs))
    BY <1>3, <1>6 DEF Ordered, StableSort, SortedSet, Arranged, Placement
  <1> QED BY <1>3, <1>4, <1>7, <1>8

\* Findings whose paths are normal.
NormalFindings == {f \in Findings : PathOf[f.File] = f.File}
Normalised(fs) == [i \in DOMAIN fs |-> _with_normalized_location(fs[i])]

\* With normal paths, findings stay findings.
LEMMA NormalisedFindings ==
  ASSUME NEW fs \in Seq(Findings), \A f \in Range(fs) : PathOf[f.File] # None
  PROVE  /\ Normalised(fs) \in Seq(NormalFindings) /\ Len(Normalised(fs)) = Len(fs)
         /\ \A i \in DOMAIN fs : Normalised(fs)[i] = [fs[i] EXCEPT !.File = PathOf[fs[i].File]]
PROOF
  <1>1. ASSUME NEW f \in Findings, PathOf[f.File] # None
        PROVE  [f EXCEPT !.File = PathOf[f.File]] \in NormalFindings
    <2>1. f.File \in DOMAIN PathOf
      BY DEF Findings
    <2>2. PathOf[f.File] \in DOMAIN PathOf \cap Texts /\ PathOf[PathOf[f.File]] = PathOf[f.File]
      BY <1>1, <2>1, PathAssumption DEF Texts
    <2> DEFINE p == PathOf[f.File]
               g == [f EXCEPT !.File = p]
    <2> HIDE DEF p
    <2>3. p \in Texts \cap DOMAIN PathOf /\ PathOf[p] = p
      BY <2>2 DEF p
    <2>4. g \in Findings /\ g.File = p
      BY <2>3 DEF Findings
    <2> QED BY <2>3, <2>4 DEF NormalFindings, p
  <1>2. \A i \in DOMAIN fs : fs[i] \in Findings /\ fs[i] \in Range(fs)
    BY DEF Range
  <1>3. \A i \in DOMAIN fs : /\ Normalised(fs)[i] = [fs[i] EXCEPT !.File = PathOf[fs[i].File]]
                             /\ Normalised(fs)[i] \in NormalFindings
    BY <1>1, <1>2 DEF Normalised, _with_normalized_location
  <1>4. DOMAIN Normalised(fs) = 1..Len(fs) /\ Normalised(fs) = [i \in 1..Len(fs) |-> Normalised(fs)[i]]
    BY DEF Normalised
  <1>5. DOMAIN fs = 1..Len(fs) /\ Len(fs) \in Nat
    OBVIOUS
  <1>6. Normalised(fs) \in [1..Len(fs) -> NormalFindings]
    BY <1>3, <1>4, <1>5
  <1>7. Normalised(fs) \in Seq(NormalFindings)
    BY <1>5, <1>6
  <1>8. Len(Normalised(fs)) = Len(fs)
    BY <1>4, <1>5, <1>7
  <1> QED BY <1>3, <1>7, <1>8

\* Numbering keeps the order and everything but the ID.
LEMMA Renumbered ==
  ASSUME NEW fs \in Seq(NormalFindings)
  PROVE  /\ assign_ids(fs) \in Seq(NormalFindings) /\ Len(assign_ids(fs)) = Len(fs)
         /\ \A i \in DOMAIN fs : assign_ids(fs)[i] = [fs[i] EXCEPT !.ID = i]
         /\ assign_ids(assign_ids(fs)) = assign_ids(fs)
         /\ SortKeys(assign_ids(fs)) = SortKeys(fs)
         /\ Normalised(assign_ids(fs)) = assign_ids(fs)
PROOF
  <1> DEFINE t == assign_ids(fs)
  <1>1. DOMAIN fs = 1..Len(fs) /\ Len(fs) \in Nat /\ \A i \in DOMAIN fs : fs[i] \in NormalFindings
    OBVIOUS
  <1>2. /\ DOMAIN t = DOMAIN fs /\ t = [i \in DOMAIN fs |-> t[i]]
        /\ \A i \in DOMAIN fs : t[i] = [fs[i] EXCEPT !.ID = i]
    BY DEF assign_ids
  <1>3. ASSUME NEW i \in DOMAIN fs
        PROVE  /\ t[i] \in NormalFindings /\ t[i].ID = i /\ [t[i] EXCEPT !.ID = i] = t[i]
               /\ SortKey(t[i]) = SortKey(fs[i])
               /\ _with_normalized_location(t[i]) = t[i]
    <2> DEFINE f == fs[i]
               g == [f EXCEPT !.ID = i]
    <2>1. f \in Findings /\ PathOf[f.File] = f.File /\ i \in Nat
      BY <1>1 DEF NormalFindings
    <2> HIDE DEF f
    <2>2. g \in Findings /\ g.File = f.File /\ g.ID = i
      BY <2>1 DEF Findings
    <2>3. [g EXCEPT !.ID = i] = g
      BY <2>1 DEF Findings
    <2>4. SortKey(g) = SortKey(f)
      <3>1. /\ g.Confidence = f.Confidence /\ g.Evidence = f.Evidence /\ g.Text = f.Text
            /\ g.FindingType = f.FindingType /\ g.File = f.File /\ g.Line = f.Line /\ g.Path = f.Path
            /\ g.Normalized_Category = f.Normalized_Category /\ g.Resource = f.Resource
            /\ g.Severity = f.Severity /\ g.Source = f.Source /\ g.Fix = f.Fix
        BY <2>1 DEF Findings
      <3> HIDE DEF g
      <3> QED BY <3>1 DEF SortKey, CanonicalForm, LocationText
    <2>5. _with_normalized_location(g) = g
      <3>1. PathOf[g.File] = g.File
        BY <2>1, <2>2
      <3>2. [g EXCEPT !.File = PathOf[g.File]] = g
        BY <2>1, <2>2, <3>1 DEF Findings
      <3> QED BY <3>2 DEF _with_normalized_location
    <2>6. t[i] = g
      BY <1>2 DEF f
    <2>7. g \in NormalFindings
      BY <2>1, <2>2 DEF NormalFindings
    <2> HIDE DEF g, t
    <2> QED BY <2>2, <2>3, <2>4, <2>5, <2>6, <2>7 DEF f
  <1> HIDE DEF t
  <1>4. t \in Seq(NormalFindings) /\ Len(t) = Len(fs)
    <2>1. t \in [1..Len(fs) -> NormalFindings]
      BY <1>1, <1>2, <1>3
    <2> QED BY <1>1, <2>1
  <1>5. assign_ids(t) = t
    <2>1. assign_ids(t) = [i \in DOMAIN fs |-> t[i]]
      BY <1>2, <1>3 DEF assign_ids
    <2> QED BY <1>2, <2>1
  <1>6. SortKeys(t) = SortKeys(fs)
    BY <1>2, <1>3 DEF SortKeys
  <1>7. Normalised(t) = t
    <2>1. Normalised(t) = [i \in DOMAIN fs |-> t[i]]
      BY <1>2, <1>3 DEF Normalised
    <2> QED BY <1>2, <2>1
  <1> QED BY <1>2, <1>4, <1>5, <1>6, <1>7 DEF t

\* Numbering what is numbered changes nothing.
THEOREM NumberedTwice ==
  ASSUME NEW fs \in Seq(Findings), \A f \in Range(fs) : PathOf[f.File] # None
  PROVE  /\ Numbered(fs) \in Seq(NormalFindings) /\ Len(Numbered(fs)) = Len(fs)
         /\ Numbered(Numbered(fs)) = Numbered(fs)
         /\ \E p \in Bijection(DOMAIN fs, DOMAIN fs) : \A i \in DOMAIN fs :
              Numbered(fs)[i] = [fs[p[i]] EXCEPT !.File = PathOf[fs[p[i]].File], !.ID = i]
PROOF
  <1> DEFINE L == Normalised(fs)
             T == sort_findings(L)
             N == assign_ids(T)
  <1>1. Numbered(fs) = N
    BY DEF Numbered, Normalised
  <1>2. L \in Seq(NormalFindings) /\ Len(L) = Len(fs)
    BY NormalisedFindings
  <1>3. L \in Seq(Findings) /\ \A S : S = Findings => L \in Seq(S)
    BY <1>2 DEF NormalFindings
  <1>4. T = Arranged(L, SortKeys(L)) /\ SortKeys(L) \in Seq(Seq(Int)) /\ DOMAIN SortKeys(L) = DOMAIN L
    BY <1>3, SortIsArranged
  <1> DEFINE q == Placement(SortKeys(L))
  <1> HIDE DEF L, T, N
  <1>5. /\ T \in Seq(NormalFindings) /\ Len(T) = Len(L) /\ DOMAIN T = DOMAIN L
        /\ q \in Bijection(DOMAIN L, DOMAIN L)
        /\ \A n \in DOMAIN L : q[n] \in DOMAIN L /\ T[n] = L[q[n]]
        /\ Ascending([n \in DOMAIN L |-> SortKeys(L)[q[n]]])
    <2> DEFINE keys == SortKeys(L)
    <2> HIDE DEF keys
    <2>1. keys \in Seq(Seq(Int)) /\ DOMAIN keys = DOMAIN L /\ T = Arranged(L, keys)
      BY <1>4 DEF keys
    <2>2. /\ Arranged(L, keys) \in Seq(NormalFindings) /\ DOMAIN Arranged(L, keys) = DOMAIN L
          /\ Len(Arranged(L, keys)) = Len(L)
      BY <1>2, <2>1, ArrangedKeeps
    <2>3. /\ Placement(keys) \in Bijection(DOMAIN L, DOMAIN L)
          /\ \A n \in DOMAIN L : Placement(keys)[n] \in DOMAIN L /\ Arranged(L, keys)[n] = L[Placement(keys)[n]]
      <3>1. Placement(keys) \in Bijection(DOMAIN L, DOMAIN L)
        BY <2>1, ArrangedPlaces
      <3>2. \A n \in DOMAIN L : Placement(keys)[n] \in DOMAIN L
        BY <2>1, ArrangedPlaces
      <3>3. \A n \in DOMAIN L : Arranged(L, keys)[n] = L[Placement(keys)[n]]
        BY DEF Arranged
      <3> QED BY <3>1, <3>2, <3>3
    <2>4. Ascending([n \in DOMAIN L |-> keys[Placement(keys)[n]]])
      BY <2>1, ArrangedPlaces
    <2> QED BY <2>1, <2>2, <2>3, <2>4 DEF keys
  <1>6. SortKeys(T) = [n \in DOMAIN L |-> SortKeys(L)[q[n]]]
    BY <1>5 DEF SortKeys
  <1>7. Ascending(SortKeys(T))
    BY <1>5, <1>6
  <1>8. /\ N \in Seq(NormalFindings) /\ Len(N) = Len(T) /\ assign_ids(N) = N
        /\ SortKeys(N) = SortKeys(T) /\ Normalised(N) = N
        /\ \A i \in DOMAIN T : N[i] = [T[i] EXCEPT !.ID = i]
    BY <1>5, Renumbered DEF N
  <1>9. N \in Seq(Findings)
    BY <1>8 DEF NormalFindings
  <1>10. sort_findings(N) = N
    <2>1. /\ sort_findings(N) = Arranged(N, SortKeys(N)) /\ SortKeys(N) \in Seq(Seq(Int))
          /\ DOMAIN SortKeys(N) = DOMAIN N
      BY <1>9, SortIsArranged
    <2>2. Arranged(N, SortKeys(N)) = N
      <3> DEFINE keys == SortKeys(N)
      <3>1. keys \in Seq(Seq(Int)) /\ DOMAIN keys = DOMAIN N /\ Ascending(keys)
        BY <1>7, <1>8, <2>1
      <3> HIDE DEF keys
      <3>2. Arranged(N, keys) = N
        BY <1>8, <3>1, ArrangedAlready
      <3> QED BY <3>2 DEF keys
    <2> QED BY <2>1, <2>2
  <1>11. Numbered(N) = N
    <2>1. Numbered(N) = assign_ids(sort_findings(Normalised(N)))
      BY DEF Numbered, Normalised
    <2> QED BY <1>8, <1>10, <2>1
  <1>12. DOMAIN L = DOMAIN fs
    BY DEF L, Normalised
  <1>13. ASSUME NEW i \in DOMAIN fs
         PROVE  q[i] \in DOMAIN fs /\ N[i] = [fs[q[i]] EXCEPT !.File = PathOf[fs[q[i]].File], !.ID = i]
    <2>1. q[i] \in DOMAIN fs /\ N[i] = [L[q[i]] EXCEPT !.ID = i]
      BY <1>5, <1>8, <1>12
    <2>2. L[q[i]] = [fs[q[i]] EXCEPT !.File = PathOf[fs[q[i]].File]]
      BY <2>1, NormalisedFindings DEF L
    <2> HIDE DEF q
    <2> QED BY <2>1, <2>2
  <1>14. \E p \in Bijection(DOMAIN fs, DOMAIN fs) : \A i \in DOMAIN fs :
              N[i] = [fs[p[i]] EXCEPT !.File = PathOf[fs[p[i]].File], !.ID = i]
    <2> HIDE DEF q
    <2> QED BY <1>5, <1>12, <1>13
  <1> QED BY <1>1, <1>2, <1>5, <1>8, <1>11, <1>14

-----------------------------------------------------------------------------
\* The lists of a report, and the report that is rebuilt.

\* The order of the places of some texts, and of the Sources.
LexOrder(S) == {p \in S \X S : Lex(p[1]) < Lex(p[2])}
SourceOrder(S) == {p \in S \X S : SOURCE_ORDER[p[1]] < SOURCE_ORDER[p[2]]}

\* A list of paths is one of the normal paths, each once, and its own list.
LEMMA PathLists ==
  ASSUME NEW s \in Seq(DOMAIN PathOf), \A p \in Range(s) : PathOf[p] # None
  PROVE  /\ Range(_normalize_path_list(s)) = {PathOf[p] : p \in Range(s)}
         /\ \A p \in Range(_normalize_path_list(s)) : PathOf[p] = p /\ p \in Texts
         /\ _normalize_path_list(_normalize_path_list(s)) = _normalize_path_list(s)
         /\ _normalize_path_list(s) \in Seq(Texts)
PROOF
  <1> DEFINE S == {PathOf[p] : p \in Range(s)}
             q == _normalize_path_list(s)
  <1>1. IsFiniteSet(S) /\ IsFiniteSet(Range(s))
    <2>1. Range(s) = {s[i] : i \in 1..Len(s)} /\ Len(s) \in Nat
      BY DEF Range
    <2>2. IsFiniteSet(1..Len(s))
      BY <2>1, FS_Interval
    <2>3. IsFiniteSet(Range(s))
      <3> DEFINE n == Len(s)
                 f == [i \in 1..n |-> s[i]]
      <3>1. f \in Surjection(1..n, Range(s))
        BY <2>1 DEF Surjection
      <3> HIDE DEF f
      <3> QED BY <2>2, <3>1, FS_Surjection
    <2>4. IsFiniteSet(S)
      <3> DEFINE g == [p \in Range(s) |-> PathOf[p]]
      <3>1. g \in Surjection(Range(s), S)
        BY DEF Surjection
      <3> HIDE DEF g, S
      <3> QED BY <2>3, <3>1, FS_Surjection
    <2> QED BY <2>3, <2>4
  <1>2. \A p \in S : p \in DOMAIN PathOf /\ p \in Texts /\ PathOf[p] = p
    <2> TAKE p \in S
    <2>1. PICK x \in Range(s) : p = PathOf[x]
      OBVIOUS
    <2>2. x \in DOMAIN PathOf /\ PathOf[x] # None
      BY DEF Range
    <2>3. /\ PathOf[x] \in DOMAIN PathOf \cap Range(Lexical)
          /\ PathOf[PathOf[x]] = PathOf[x]
      BY <2>2, PathAssumption
    <2> QED BY <2>1, <2>3 DEF Texts
  <1>3. Orders(LexOrder(S), S)
    <2>1. \A a \in S : Lex(a) \in Nat
      BY <1>2, LexPlaces DEF OptionalTexts
    <2>2. \A a, b \in S : Lex(a) = Lex(b) => a = b
      BY <1>2, LexPlaces DEF OptionalTexts
    <2> HIDE DEF S
    <2> QED BY <2>1, <2>2 DEF Orders, LexOrder
  <1>4. q = Ranked(S, LexOrder(S))
    BY DEF _normalize_path_list, SortedSet, LexOrder
  <1> HIDE DEF S, q
  <1>5. Lists(q, S, LexOrder(S))
    BY <1>1, <1>3, <1>4, RankedLists
  <1>6. Range(q) = S
    BY <1>3, <1>5, ListsOnce
  <1>7. {PathOf[p] : p \in Range(q)} = S
    BY <1>2, <1>6
  <1>8. _normalize_path_list(q) = q
    <2>1. _normalize_path_list(q) = Ranked({PathOf[p] : p \in Range(q)}, LexOrder({PathOf[p] : p \in Range(q)}))
      BY DEF _normalize_path_list, SortedSet, LexOrder
    <2> QED BY <1>4, <1>7, <2>1
  <1>9. q \in Seq(Texts)
    <2>1. q \in [1..Cardinality(S) -> S] /\ Cardinality(S) \in Nat
      BY <1>5 DEF Lists
    <2>2. q \in [1..Cardinality(S) -> Texts]
      BY <1>2, <2>1
    <2>3. PICK n \in Nat : n = Cardinality(S)
      BY <2>1
    <2> QED BY <2>2, <2>3
  <1> QED BY <1>2, <1>6, <1>8, <1>9 DEF S, q

\* Sources in their order, each once.
LEMMA SourceLists ==
  ASSUME NEW S, S \subseteq DOMAIN SOURCE_ORDER
  PROVE  /\ Range(sorted_sources(S)) = S /\ sorted_sources(S) \in Seq(DOMAIN SOURCE_ORDER)
         /\ IsInjective(sorted_sources(S))
         /\ S # {} => sorted_sources(S) # <<>>
         /\ Len(sorted_sources(S)) = Cardinality(S) /\ IsFiniteSet(S)
PROOF
  <1>1. IsFiniteSet(DOMAIN SOURCE_ORDER)
    <2>1. SOURCES \in Surjection(1..7, Range(SOURCES))
      <3>1. SOURCES = [i \in 1..7 |-> SOURCES[i]] /\ DOMAIN SOURCES = 1..7
        BY DEF SOURCES
      <3> HIDE DEF SOURCES
      <3> QED BY <3>1 DEF Surjection, Range
    <2>2. IsFiniteSet(1..7)
      <3>1. 1 \in Int /\ 7 \in Int
        OBVIOUS
      <3> QED BY <3>1, FS_Interval
    <2>3. IsFiniteSet(Range(SOURCES))
      BY <2>1, <2>2, FS_Surjection
    <2> QED BY <2>3, SourceNumbers
  <1>2. IsFiniteSet(S)
    BY <1>1, FS_Subset
  <1>3. Orders(SourceOrder(S), S)
    BY SourceNumbers DEF Orders, SourceOrder
  <1> DEFINE q == sorted_sources(S)
  <1>4. q = Ranked(S, SourceOrder(S))
    BY DEF sorted_sources, SortedSet, SourceOrder
  <1> HIDE DEF q
  <1>5. Lists(q, S, SourceOrder(S))
    BY <1>2, <1>3, <1>4, RankedLists
  <1>6. Range(q) = S /\ IsInjective(q)
    BY <1>3, <1>5, ListsOnce DEF IsInjective
  <1>7. q \in Seq(DOMAIN SOURCE_ORDER) /\ Len(q) = Cardinality(S)
    <2>1. q \in [1..Cardinality(S) -> S] /\ Cardinality(S) \in Nat
      BY <1>5 DEF Lists
    <2>3. PICK n \in Nat : n = Cardinality(S)
      BY <2>1
    <2>2. q \in [1..n -> DOMAIN SOURCE_ORDER] /\ DOMAIN q = 1..n
      BY <2>1, <2>3
    <2>4. q \in Seq(DOMAIN SOURCE_ORDER)
      BY <2>2
    <2> QED BY <2>2, <2>3, <2>4
  <1>8. ASSUME S # {}
        PROVE  q # <<>>
    <2>1. PICK s \in S : TRUE
      BY <1>8
    <2>2. \E i \in DOMAIN q : q[i] = s
      BY <1>6 DEF Range
    <2> QED BY <2>2
  <1> QED BY <1>2, <1>6, <1>7, <1>8 DEF q

\* The keys of the order of the tools.
ToolKeys(ts) == [i \in DOMAIN ts |-> <<Lex(ts[i].name)>>]

\* The tools of a report are those of the review, in the order of their names.
LEMMA ToolEntries ==
  ASSUME NEW S, NEW ts \in Seq(S), \A t \in Range(ts) : t.name \in Texts
  PROVE  /\ Range(_tool_entries(ts)) = Range(ts)
         /\ _tool_entries(_tool_entries(ts)) = _tool_entries(ts)
         /\ DistinctTools(ts) => DistinctTools(_tool_entries(ts))
         /\ _tool_entries(ts) \in Seq(S)
PROOF
  <1>1. ASSUME NEW us \in Seq(S), \A t \in Range(us) : t.name \in Texts
        PROVE  /\ ToolKeys(us) \in Seq(Seq(Int)) /\ DOMAIN ToolKeys(us) = DOMAIN us
               /\ _tool_entries(us) = Arranged(us, ToolKeys(us))
    <2> DEFINE D == DOMAIN us
    <2>1. \A i \in D : Lex(us[i].name) \in Int
      BY <1>1, LexPlaces DEF Range, OptionalTexts
    <2>2. \A a, b \in Int : LexLess(<<a>>, <<b>>) <=> a < b
      BY DEF LexLess
    <2>3. \A i \in D : ToolKeys(us)[i] = <<Lex(us[i].name)>>
      BY DEF ToolKeys
    <2>4. DOMAIN ToolKeys(us) = D
      BY DEF ToolKeys
    <2>5. D = 1..Len(us) /\ Len(us) \in Nat
      OBVIOUS
    <2>6. ToolKeys(us) \in Seq(Seq(Int))
      BY <2>1, <2>5 DEF ToolKeys
    <2>7. \A i, j \in D : LexLess(ToolKeys(us)[i], ToolKeys(us)[j]) <=> Lex(us[i].name) < Lex(us[j].name)
      BY <2>1, <2>2, <2>3
    <2>8. {p \in D \X D : IF p[1] < p[2] THEN ~(Lex(us[p[2]].name) < Lex(us[p[1]].name))
                           ELSE Lex(us[p[1]].name) < Lex(us[p[2]].name)} = ByKeys(ToolKeys(us))
      BY <2>4, <2>7 DEF ByKeys
    <2>9. _tool_entries(us) = Arranged(us, ToolKeys(us))
      BY <2>4, <2>8 DEF _tool_entries, StableSort, SortedSet, Arranged, Placement
    <2> QED BY <2>4, <2>6, <2>9
  <1> DEFINE us == _tool_entries(ts)
             keys == ToolKeys(ts)
             q == Placement(keys)
  <1>2. keys \in Seq(Seq(Int)) /\ DOMAIN keys = DOMAIN ts /\ us = Arranged(ts, keys)
    BY <1>1
  <1> HIDE DEF us, keys
  <1>3. us \in Seq(S) /\ Range(us) = Range(ts) /\ DOMAIN us = DOMAIN ts
    BY <1>2, ArrangedKeeps
  <1>4. q \in Bijection(DOMAIN ts, DOMAIN ts) /\ Ascending([n \in DOMAIN ts |-> keys[q[n]]])
    BY <1>2, ArrangedPlaces
  <1>5. \A n \in DOMAIN ts : q[n] \in DOMAIN ts /\ us[n] = ts[q[n]]
    BY <1>2, <1>4 DEF Bijection, Injection, Arranged
  <1>6. ToolKeys(us) = [n \in DOMAIN ts |-> keys[q[n]]]
    BY <1>3, <1>5 DEF ToolKeys, keys
  <1>7. _tool_entries(us) = us
    <2>1. /\ ToolKeys(us) \in Seq(Seq(Int)) /\ DOMAIN ToolKeys(us) = DOMAIN us
          /\ _tool_entries(us) = Arranged(us, ToolKeys(us))
      BY <1>1, <1>3
    <2> DEFINE k == ToolKeys(us)
    <2>2. Ascending(k)
      BY <1>4, <1>6
    <2> HIDE DEF k
    <2>3. Arranged(us, k) = us
      BY <1>3, <2>1, <2>2, ArrangedAlready DEF k
    <2> QED BY <2>1, <2>3 DEF k
  <1>8. ASSUME DistinctTools(ts)
        PROVE  DistinctTools(us)
    <2>1. \A i, j \in DOMAIN ts : q[i] = q[j] => i = j
      BY <1>4 DEF Bijection, Injection, IsInjective
    <2> HIDE DEF q
    <2>2. ASSUME NEW i \in DOMAIN us, NEW j \in DOMAIN us, us[i].name = us[j].name
          PROVE  i = j
      <3>1. i \in DOMAIN ts /\ j \in DOMAIN ts /\ us[i] = ts[q[i]] /\ us[j] = ts[q[j]]
            /\ q[i] \in DOMAIN ts /\ q[j] \in DOMAIN ts
        BY <1>3, <1>5
      <3>2. ts[q[i]].name = ts[q[j]].name
        BY <2>2, <3>1
      <3>3. q[i] = q[j]
        BY <1>8, <3>1, <3>2 DEF DistinctTools
      <3> QED BY <2>1, <3>1, <3>3
    <2> QED BY <2>2 DEF DistinctTools
  <1> QED BY <1>3, <1>7, <1>8 DEF us

\* null, and a value of the wrong type, are no objects.
IsAFunction(f) == f = [x \in DOMAIN f |-> f[x]]

\* What a report is rebuilt from.
MetaOf(r) == [files |-> r.target.files, synthesized |-> r.target.synthesized,
              synthesis |-> r.target.synthesis, sources |-> r.sources_enabled, tools |-> r.tools]

\* The parts of a report.
LEMMA ReportParts ==
  ASSUME NEW fs \in Seq(Findings), NEW errors \in Seq(Errors), NEW meta \in Metas, Buildable(fs, meta),
         NEW r, r = build_report(fs, errors, meta)
  PROVE  /\ r.schema_version = "1"
         /\ r.target = [files |-> _normalize_path_list(meta.files), synthesis |-> meta.synthesis,
                        synthesized |-> _normalize_path_list(meta.synthesized)]
         /\ r.sources_enabled = sorted_sources(Range(meta.sources))
         /\ r.tools = _tool_entries(meta.tools) /\ r.findings = Numbered(fs) /\ r.errors = errors
         /\ r.summary = _summary(Numbered(fs), _normalize_path_list(meta.synthesized))
         /\ DOMAIN r = REPORT_KEYS
BY DEF build_report, REPORT_KEYS

\* What a report that can be built is made of.
LEMMA Normal ==
  ASSUME NEW fs \in Seq(Findings), NEW meta \in Metas, Buildable(fs, meta)
  PROVE  /\ \A f \in Range(fs) : PathOf[f.File] # None
         /\ \A p \in Range(meta.files) \cup Range(meta.synthesized) : PathOf[p] # None
         /\ meta.files \in Seq(DOMAIN PathOf) /\ meta.synthesized \in Seq(DOMAIN PathOf)
         /\ meta.sources \in Seq(DOMAIN SOURCE_ORDER) /\ Range(meta.sources) \subseteq DOMAIN SOURCE_ORDER
         /\ meta.tools \in Seq(Tools) /\ \A t \in Range(meta.tools) : t \in Tools /\ t.name \in Texts
         /\ DistinctTools(meta.tools) /\ meta.synthesis \in CDK_SYNTHESIS_OUTCOMES
PROOF
  <1>1. /\ meta.files \in Seq(DOMAIN PathOf) /\ meta.synthesized \in Seq(DOMAIN PathOf)
        /\ meta.sources \in Seq(DOMAIN SOURCE_ORDER) /\ meta.tools \in Seq(Tools)
    BY DEF Metas
  <1>2. \A t \in Range(meta.tools) : t \in Tools /\ t.name \in Texts
    <2>1. \A i \in DOMAIN meta.tools : meta.tools[i] \in Tools
      BY <1>1
    <2>2. \A t \in Tools : t.name \in Texts
      BY DEF Tools
    <2> QED BY <2>1, <2>2 DEF Range
  <1> QED BY <1>1, <1>2 DEF Buildable

\* Putting the parts of a report together again makes the report.
THEOREM Rebuilt ==
  ASSUME NEW fs \in Seq(Findings), NEW errors \in Seq(Errors), NEW meta \in Metas, Buildable(fs, meta)
  PROVE  _rebuild_matches(build_report(fs, errors, meta))
PROOF
  <1> DEFINE r == build_report(fs, errors, meta)
             N == Numbered(fs)
             files == _normalize_path_list(meta.files)
             synthesized == _normalize_path_list(meta.synthesized)
             sources == sorted_sources(Range(meta.sources))
             listed == _tool_entries(meta.tools)
             again == [files |-> files, synthesized |-> synthesized, synthesis |-> meta.synthesis,
                       sources |-> sources, tools |-> listed]
  <1>1. N \in Seq(NormalFindings) /\ Numbered(N) = N
    BY Normal, NumberedTwice
  <1>2. /\ \A p \in Range(files) : PathOf[p] = p /\ p \in Texts
        /\ _normalize_path_list(files) = files
    BY Normal, PathLists
  <1>3. /\ \A p \in Range(synthesized) : PathOf[p] = p /\ p \in Texts
        /\ _normalize_path_list(synthesized) = synthesized
    BY Normal, PathLists
  <1>4. Range(sources) = Range(meta.sources) /\ Range(meta.sources) \subseteq DOMAIN SOURCE_ORDER
    BY Normal, SourceLists
  <1>5. sorted_sources(Range(sources)) = sources
    BY <1>4
  <1>6. DistinctTools(listed) /\ _tool_entries(listed) = listed
    BY Normal, ToolEntries
  <1>7. \A f \in Range(N) : f \in Findings /\ PathOf[f.File] = f.File /\ f.File \in Texts
    BY <1>1 DEF NormalFindings, Findings, Range
  <1>8. \A s \in Texts : s # None
    BY LexicalAssumption DEF Texts
  <1>9. \A f \in Range(N) : Valid(f)
    BY DEF Buildable
  <1>10. Buildable(N, again)
    <2>1. \A f \in Range(N) : f.Severity \in DOMAIN SEVERITY_ORDER /\ PathOf[f.File] # None
      BY <1>7, <1>8 DEF Findings
    <2>2. \A f \in Range(Numbered(N)) : Valid(f)
      BY <1>1, <1>9
    <2>3. \A p \in Range(again.files) \cup Range(again.synthesized) : PathOf[p] # None
      BY <1>2, <1>3, <1>8
    <2>4. again.synthesis \in CDK_SYNTHESIS_OUTCOMES /\ Range(again.sources) \subseteq DOMAIN SOURCE_ORDER
          /\ DistinctTools(again.tools)
      BY <1>4, <1>6, Normal
    <2> HIDE DEF N, again
    <2> QED BY <2>1, <2>2, <2>3, <2>4 DEF Buildable
  <1>11. build_report(N, errors, again) = r
    BY <1>1, <1>2, <1>3, <1>5, <1>6 DEF build_report
  <1>12. r.findings = N /\ r.errors = errors /\ MetaOf(r) = again
    BY DEF build_report, MetaOf
  <1> HIDE DEF r, N, again
  <1>13. _rebuild_matches(r)
    BY <1>10, <1>11, <1>12 DEF _rebuild_matches, MetaOf
  <1> QED BY <1>13 DEF r

\* The shape of a report that was made is the shape that is asked for.
THEOREM WellFormed ==
  ASSUME NEW fs \in Seq(Findings), NEW errors \in Seq(Errors), NEW meta \in Metas, Buildable(fs, meta),
         ~IsAFunction(None), ~IsAFunction(Odd)
  PROVE  Rejection(build_report(fs, errors, meta)) =
           IF Len(fs) > MAX_REPORT_FINDINGS THEN "report_finding_limit_exceeded" ELSE None
PROOF
  <1> DEFINE r == build_report(fs, errors, meta)
             N == Numbered(fs)
             files == _normalize_path_list(meta.files)
             synthesized == _normalize_path_list(meta.synthesized)
             sources == sorted_sources(Range(meta.sources))
             listed == _tool_entries(meta.tools)
  <1>0. \A f : f = [x \in DOMAIN f |-> f[x]] => f # Odd /\ f # None
    BY DEF IsAFunction
  <1>1. N \in Seq(NormalFindings) /\ Len(N) = Len(fs)
    BY Normal, NumberedTwice
  <1>2. files \in Seq(Texts) /\ \A p \in Range(files) : PathOf[p] = p /\ p \in Texts
    BY Normal, PathLists
  <1>3. synthesized \in Seq(Texts) /\ \A p \in Range(synthesized) : PathOf[p] = p /\ p \in Texts
    BY Normal, PathLists
  <1>4. /\ Range(sources) \subseteq DOMAIN SOURCE_ORDER /\ sources \in Seq(DOMAIN SOURCE_ORDER)
        /\ IsInjective(sources)
    BY Normal, SourceLists
  <1>5. DistinctTools(listed) /\ listed \in Seq(Tools)
    BY Normal, ToolEntries
  <1>6. \A s \in Texts : s # None /\ s # Odd
    BY LexicalAssumption, OddAssumption DEF Texts
  <1>7. HasKeys(r, REPORT_KEYS, REPORT_KEYS) /\ r.schema_version = "1"
    <2>1. r = [x \in DOMAIN r |-> r[x]]
      BY DEF build_report
    <2>2. DOMAIN r = REPORT_KEYS /\ r.schema_version = "1"
      BY DEF build_report, REPORT_KEYS
    <2> HIDE DEF r
    <2> QED BY <1>0, <2>1, <2>2 DEF HasKeys
  <1>8. GoodTarget(r.target)
    <2> DEFINE t == [files |-> files, synthesis |-> meta.synthesis, synthesized |-> synthesized]
    <2>1. r.target = t
      BY DEF build_report
    <2>2. t = [x \in DOMAIN t |-> t[x]] /\ DOMAIN t = {"files", "synthesis", "synthesized"}
          /\ t.files = files /\ t.synthesized = synthesized /\ t.synthesis = meta.synthesis
      OBVIOUS
    <2>3. RelativePaths(files)
      <3>1. files = [x \in DOMAIN files |-> files[x]]
        BY <1>2
      <3> HIDE DEF files
      <3> QED BY <1>0, <1>2, <1>6, <3>1 DEF RelativePaths
    <2>4. RelativePaths(synthesized)
      <3>1. synthesized = [x \in DOMAIN synthesized |-> synthesized[x]]
        BY <1>3
      <3> HIDE DEF synthesized
      <3> QED BY <1>0, <1>3, <1>6, <3>1 DEF RelativePaths
    <2>5. meta.synthesis \in CDK_SYNTHESIS_OUTCOMES
      BY Normal
    <2>6. HasKeys(t, {"files", "synthesis", "synthesized"}, {"files", "synthesis", "synthesized"})
      <3> HIDE DEF t
      <3> QED BY <1>0, <2>2 DEF HasKeys
    <2> HIDE DEF t, files, synthesized
    <2> QED BY <2>1, <2>2, <2>3, <2>4, <2>5, <2>6 DEF GoodTarget
  <1>9. GoodSources(r.sources_enabled)
    <2>1. r.sources_enabled = sources
      BY DEF build_report
    <2>2. sources = [x \in DOMAIN sources |-> sources[x]]
      BY <1>4
    <2> HIDE DEF sources, r
    <2> QED BY <1>0, <1>4, <2>1, <2>2 DEF GoodSources
  <1>10. GoodTools(r.tools)
    <2>1. r.tools = listed
      BY DEF build_report
    <2>2. listed = [x \in DOMAIN listed |-> listed[x]]
      BY <1>5
    <2>3. ASSUME NEW t \in Tools
          PROVE  /\ HasKeys(t, {"name", "available", "version"}, {"name", "available", "version"})
                 /\ IsText(t.name) /\ t.available # Odd /\ t.version # Odd
      <3>1. t = [x \in DOMAIN t |-> t[x]] /\ DOMAIN t = {"name", "available", "version"}
        BY DEF Tools
      <3>2. t.name \in Texts /\ t.name # "" /\ t.available \in BOOLEAN /\ t.version \in OptionalTexts
        BY DEF Tools
      <3>3. HasKeys(t, {"name", "available", "version"}, {"name", "available", "version"})
        BY <1>0, <3>1 DEF HasKeys
      <3>4. IsText(t.name)
        BY <1>6, <3>2 DEF IsText
      <3>5. t.available # Odd
        BY <3>2, OddAssumption
      <3>6. t.version # Odd
        BY <1>6, <3>2, LexicalAssumption DEF OptionalTexts
      <3> QED BY <3>3, <3>4, <3>5, <3>6
    <2>4. \A i \in DOMAIN listed : listed[i] \in Tools
      BY <1>5
    <2> HIDE DEF listed, r
    <2> QED BY <1>0, <1>5, <2>1, <2>2, <2>3, <2>4 DEF GoodTools
  <1>11. GoodErrors(r.errors)
    <2>1. r.errors = errors
      BY DEF build_report
    <2>2. errors = [x \in DOMAIN errors |-> errors[x]]
      OBVIOUS
    <2>3. ASSUME NEW e \in Errors
          PROVE  /\ HasKeys(e, {"error_class", "source"}, {"error_class", "source"})
                 /\ e.error_class \in ERROR_CLASSES /\ e.source # Odd
      <3>1. e = [x \in DOMAIN e |-> e[x]] /\ DOMAIN e = {"error_class", "source"}
        BY DEF Errors
      <3>2. e.error_class \in ERROR_CLASSES /\ e.source \in DOMAIN SOURCE_ORDER \cup {None}
        BY DEF Errors
      <3>3. e.source # Odd
        BY <3>2, OddAssumption, LexicalAssumption, SourceNumbers
      <3>4. HasKeys(e, {"error_class", "source"}, {"error_class", "source"})
        BY <1>0, <3>1 DEF HasKeys
      <3> QED BY <3>2, <3>3, <3>4
    <2>4. \A i \in DOMAIN errors : errors[i] \in Errors
      OBVIOUS
    <2> HIDE DEF r
    <2> QED BY <1>0, <2>1, <2>2, <2>3, <2>4 DEF GoodErrors
  <1>12. r.findings = N
    BY DEF build_report
  <1>13. N # Odd
    <2>1. N = [x \in DOMAIN N |-> N[x]]
      BY <1>1
    <2> HIDE DEF N
    <2> QED BY <1>0, <2>1
  <1>14. GoodFindings(r.findings)
    <2>1. ASSUME NEW i \in DOMAIN N
          PROVE  N[i] # Odd /\ Valid(N[i]) /\ PathOf[N[i].File] # None
      <3>1. N[i] \in NormalFindings
        BY <1>1
      <3>2. N[i] \in Findings /\ N[i].File \in Texts /\ PathOf[N[i].File] = N[i].File
        BY <3>1 DEF NormalFindings, Findings
      <3>3. Valid(N[i])
        <4>1. N[i] \in Range(N)
          BY DEF Range
        <4> QED BY <4>1 DEF Buildable
      <3> DEFINE f == N[i]
      <3>4. f = [x \in DOMAIN f |-> f[x]]
        <4>1. f \in Findings
          BY <3>2
        <4> HIDE DEF f
        <4> QED BY <4>1 DEF Findings
      <3> HIDE DEF N
      <3> QED BY <1>0, <1>6, <3>2, <3>3, <3>4
    <2> HIDE DEF N, r
    <2> QED BY <1>12, <1>13, <2>1 DEF GoodFindings
  <1>15. r.summary # Odd
    <2>1. r.summary = _summary(N, synthesized)
      BY DEF build_report
    <2> DEFINE s == _summary(N, synthesized)
    <2>2. s = [x \in DOMAIN s |-> s[x]]
      BY DEF _summary
    <2> HIDE DEF r, s
    <2> QED BY <1>0, <2>1, <2>2 DEF s
  <1> HIDE DEF r, N
  <1>16. Rejection(r) = IF Len(fs) > MAX_REPORT_FINDINGS THEN "report_finding_limit_exceeded" ELSE None
    BY <1>1, <1>7, <1>8, <1>9, <1>10, <1>11, <1>12, <1>13, <1>14, <1>15 DEF Rejection
  <1> QED BY <1>16 DEF r

-----------------------------------------------------------------------------
\* The elements of a sequence at some of its places, and the highest of one.

\* The elements of a sequence at some of its places, in their order.
PlaceOrder(I) == {p \in I \X I : p[1] < p[2]}
PlacesIn(I) == Ranked(I, PlaceOrder(I))
Picked(s, I) == [n \in DOMAIN PlacesIn(I) |-> s[PlacesIn(I)[n]]]

\* Picking takes the elements at those places, each once.
LEMMA PickedPlaces ==
  ASSUME NEW S, NEW s \in Seq(S), NEW I \in SUBSET DOMAIN s
  PROVE  /\ IsFiniteSet(I) /\ Cardinality(I) \in Nat
         /\ DOMAIN PlacesIn(I) = 1..Cardinality(I) /\ PlacesIn(I) \in Bijection(1..Cardinality(I), I)
         /\ DOMAIN Picked(s, I) = 1..Cardinality(I)
         /\ \A n \in 1..Cardinality(I) : PlacesIn(I)[n] \in I /\ Picked(s, I)[n] = s[PlacesIn(I)[n]]
         /\ Picked(s, I) \in Seq(S) /\ Len(Picked(s, I)) = Cardinality(I)
         /\ Range(Picked(s, I)) = {s[i] : i \in I}
         /\ Picked(s, I) = <<>> <=> I = {}
PROOF
  <1> DEFINE N == Cardinality(I)
             q == PlacesIn(I)
             t == Picked(s, I)
  <1>1. DOMAIN s = 1..Len(s) /\ Len(s) \in Nat /\ \A i \in DOMAIN s : s[i] \in S
    OBVIOUS
  <1>2. IsFiniteSet(I)
    <2>1. IsFiniteSet(1..Len(s))
      <3>1. 1 \in Int /\ Len(s) \in Int
        BY <1>1
      <3> QED BY <3>1, FS_Interval
    <2> QED BY <1>1, <2>1, FS_Subset
  <1>3. Orders(PlaceOrder(I), I)
    <2>1. \A i \in I : i \in Int
      BY <1>1
    <2> QED BY <2>1 DEF Orders, PlaceOrder
  <1>4. Lists(q, I, PlaceOrder(I))
    BY <1>2, <1>3, RankedLists DEF PlacesIn
  <1>5. N \in Nat /\ DOMAIN q = 1..N /\ q \in Bijection(1..N, I) /\ Range(q) = I
    BY <1>2, <1>3, <1>4, ListsOnce, FS_CardinalityType
  <1>6. /\ DOMAIN t = 1..N /\ t = [n \in 1..N |-> t[n]]
        /\ \A n \in 1..N : q[n] \in I /\ t[n] = s[q[n]]
    BY <1>5 DEF Picked, Bijection, Injection
  <1> HIDE DEF t, N, q
  <1>7. t \in Seq(S) /\ Len(t) = N
    <2>1. t \in [1..N -> S]
      BY <1>1, <1>6
    <2>2. t \in Seq(S)
      BY <1>5, <2>1
    <2>3. DOMAIN t = 1..Len(t) /\ Len(t) \in Nat
      BY <2>2
    <2> QED BY <1>5, <1>6, <2>2, <2>3
  <1>8. Range(t) = {s[i] : i \in I}
    <2>1. \A i \in I : \E n \in 1..N : q[n] = i
      BY <1>5 DEF Range
    <2>2. ASSUME NEW i \in I
          PROVE  s[i] \in Range(t)
      BY <1>6, <2>1 DEF Range
    <2>3. ASSUME NEW x \in Range(t)
          PROVE  \E i \in I : x = s[i]
      BY <1>6 DEF Range
    <2> QED BY <2>2, <2>3
  <1>9. t = <<>> <=> I = {}
    <2>1. ASSUME t = <<>> PROVE I = {}
      <3>1. N = 0
        BY <1>7, <2>1
      <3>2. IsFiniteSet(I) /\ Cardinality(I) = 0
        BY <1>2, <3>1 DEF N
      <3> QED BY <3>2, FS_EmptySet
    <2>2. ASSUME I = {} PROVE t = <<>>
      <3>1. N = 0
        BY <2>2, FS_EmptySet DEF N
      <3> QED BY <1>7, <3>1
    <2> QED BY <2>1, <2>2
  <1> QED BY <1>2, <1>5, <1>6, <1>7, <1>8, <1>9 DEF N, q, t

\* The first of the largest is one of the values, and none is larger.
LEMMA HighestOf ==
  ASSUME NEW S, NEW values \in Seq(S), values # <<>>, NEW order, NEW N \in Nat, \A v \in S : order[v] \in 0..N
  PROVE  /\ Highest(values, order) \in Range(values) /\ Highest(values, order) \in S
         /\ \A j \in DOMAIN values : order[values[j]] <= order[Highest(values, order)]
PROOF
  <1> DEFINE D == DOMAIN values
             gaps == {n \in 0..N : \E j \in D : n = N - order[values[j]]}
  <1>1. D = 1..Len(values) /\ Len(values) \in Nat /\ 1 \in D /\ \A i \in D : values[i] \in S
    OBVIOUS
  <1>2. \A i \in D : order[values[i]] \in 0..N
    BY <1>1
  <1>3. PICK n \in gaps : \A m \in gaps : n <= m
    <2>1. gaps \in SUBSET Nat
      OBVIOUS
    <2>2. N - order[values[1]] \in gaps
      BY <1>1, <1>2
    <2> HIDE DEF gaps
    <2> QED BY <2>1, <2>2, LeastNumber
  <1>4. PICK k \in D : n = N - order[values[k]]
    BY <1>3
  <1>5. \A j \in D : order[values[j]] <= order[values[k]]
    <2> TAKE j \in D
    <2>1. N - order[values[j]] \in gaps
      BY <1>2
    <2>2. n <= N - order[values[j]]
      BY <1>3, <2>1
    <2> QED BY <1>2, <1>4, <2>2
  <1> DEFINE top == {i \in D : order[values[i]] = order[values[k]]}
  <1>6. PICK i \in top : \A j \in top : i <= j
    <2>1. top \in SUBSET Nat /\ k \in top
      BY <1>1
    <2> HIDE DEF top
    <2> QED BY <2>1, LeastNumber
  <1>7. /\ \A j \in D : order[values[j]] <= order[values[i]]
        /\ \A j \in 1..(i - 1) : order[values[j]] < order[values[i]]
    <2>1. i \in D /\ order[values[i]] = order[values[k]]
      BY <1>6
    <2>2. \A j \in D : order[values[j]] <= order[values[i]]
      BY <1>5, <2>1
    <2>3. ASSUME NEW j \in 1..(i - 1)
          PROVE  order[values[j]] < order[values[i]]
      <3>1. j \in D /\ j < i /\ i \in Nat /\ j \in Nat
        BY <1>1, <2>1
      <3>2. j \notin top
        BY <1>6, <3>1
      <3>3. order[values[j]] # order[values[k]]
        BY <3>1, <3>2
      <3> QED BY <1>2, <1>5, <1>4, <2>1, <3>1, <3>3
    <2> QED BY <2>2, <2>3
  <1>8. PICK h \in D : /\ Highest(values, order) = values[h]
                       /\ \A j \in D : order[values[j]] <= order[values[h]]
    <2>1. i \in D
      BY <1>6
    <2> HIDE DEF top, gaps
    <2> QED BY <1>7, <2>1 DEF Highest
  <1> QED BY <1>1, <1>8 DEF Range

\* The order of the Sources of some evidence.
EvidenceOrderKeys(es) == [i \in DOMAIN es |-> <<SOURCE_ORDER[es[i].Source]>>]

\* The order of evidence by its Source is an order by keys.
LEMMA EvidenceIsArranged ==
  ASSUME NEW es \in Seq(EvidenceEntries)
  PROVE  /\ EvidenceOrderKeys(es) \in Seq(Seq(Int)) /\ DOMAIN EvidenceOrderKeys(es) = DOMAIN es
         /\ StableSort(es, LAMBDA e, g : SOURCE_ORDER[e.Source] < SOURCE_ORDER[g.Source]) =
              Arranged(es, EvidenceOrderKeys(es))
PROOF
  <1> DEFINE D == DOMAIN es
  <1>1. \A i \in D : SOURCE_ORDER[es[i].Source] \in Int
    <2>1. \A i \in D : es[i] \in EvidenceEntries
      OBVIOUS
    <2>2. \A e \in EvidenceEntries : e.Source \in DOMAIN SOURCE_ORDER
      BY DEF EvidenceEntries
    <2> QED BY <2>1, <2>2, SourceNumbers
  <1>2. \A a, b \in Int : LexLess(<<a>>, <<b>>) <=> a < b
    BY DEF LexLess
  <1>3. \A i \in D : EvidenceOrderKeys(es)[i] = <<SOURCE_ORDER[es[i].Source]>>
    BY DEF EvidenceOrderKeys
  <1>4. DOMAIN EvidenceOrderKeys(es) = D
    BY DEF EvidenceOrderKeys
  <1>5. D = 1..Len(es) /\ Len(es) \in Nat
    OBVIOUS
  <1>6. EvidenceOrderKeys(es) \in Seq(Seq(Int))
    BY <1>1, <1>5 DEF EvidenceOrderKeys
  <1>7. \A i, j \in D : LexLess(EvidenceOrderKeys(es)[i], EvidenceOrderKeys(es)[j])
                          <=> SOURCE_ORDER[es[i].Source] < SOURCE_ORDER[es[j].Source]
    BY <1>1, <1>2, <1>3
  <1>8. {p \in D \X D : IF p[1] < p[2] THEN ~(SOURCE_ORDER[es[p[2]].Source] < SOURCE_ORDER[es[p[1]].Source])
                         ELSE SOURCE_ORDER[es[p[1]].Source] < SOURCE_ORDER[es[p[2]].Source]} = ByKeys(EvidenceOrderKeys(es))
    BY <1>4, <1>7 DEF ByKeys
  <1>9. StableSort(es, LAMBDA e, g : SOURCE_ORDER[e.Source] < SOURCE_ORDER[g.Source]) = Arranged(es, EvidenceOrderKeys(es))
    BY <1>4, <1>8 DEF StableSort, SortedSet, Arranged, Placement
  <1> QED BY <1>4, <1>6, <1>9

-----------------------------------------------------------------------------
\* Families that hold the same, each thing as often: the evidence of findings.

\* Two families hold the same, each thing as often.
Pairing(p, a, b) == p \in Bijection(DOMAIN a, DOMAIN b) /\ \A x \in DOMAIN a : b[p[x]] = a[x]
Same(a, b) == \E p : Pairing(p, a, b)

\* All of the members of the families h[j].
Sum(h) == [y \in UNION {{j} \X (DOMAIN h[j]) : j \in DOMAIN h} |-> h[y[1]][y[2]]]

\* The members of a of one class.
Part(a, c, j) == [x \in {x \in DOMAIN a : c[x] = j} |-> a[x]]

\* What it is to be a bijection.
LEMMA BijectionParts ==
  ASSUME NEW A, NEW B, NEW p
  PROVE  p \in Bijection(A, B) <=>
           /\ p \in [A -> B]
           /\ \A x, y \in A : p[x] = p[y] => x = y
           /\ \A y \in B : \E x \in A : p[x] = y
BY DEF Bijection, Injection, Surjection, IsInjective

\* To hold the same is transitive.
LEMMA SameTransitive ==
  ASSUME NEW a, NEW b, NEW c, Same(a, b), Same(b, c)
  PROVE  Same(a, c)
PROOF
  <1>1. PICK p : Pairing(p, a, b)
    BY DEF Same
  <1>2. PICK q : Pairing(q, b, c)
    BY DEF Same
  <1> DEFINE r == [x \in DOMAIN a |-> q[p[x]]]
  <1>3. r \in Bijection(DOMAIN a, DOMAIN c)
    BY <1>1, <1>2, Fun_BijTransitive DEF Pairing
  <1>4. \A x \in DOMAIN a : c[r[x]] = a[x]
    <2> TAKE x \in DOMAIN a
    <2>1. p[x] \in DOMAIN b /\ b[p[x]] = a[x]
      BY <1>1, BijectionParts DEF Pairing
    <2>2. c[q[p[x]]] = b[p[x]]
      BY <1>2, <2>1 DEF Pairing
    <2> QED BY <2>1, <2>2
  <1> HIDE DEF r
  <1>5. Pairing(r, a, c)
    BY <1>3, <1>4 DEF Pairing
  <1> QED BY <1>5 DEF Same

\* To hold the same is symmetric.
LEMMA SameSymmetric ==
  ASSUME NEW a, NEW b, Same(a, b)
  PROVE  Same(b, a)
PROOF
  <1>1. PICK p : Pairing(p, a, b)
    BY DEF Same
  <1>2. /\ p \in [DOMAIN a -> DOMAIN b] /\ \A x, y \in DOMAIN a : p[x] = p[y] => x = y
        /\ \A y \in DOMAIN b : \E x \in DOMAIN a : p[x] = y
        /\ \A x \in DOMAIN a : b[p[x]] = a[x]
    BY <1>1, BijectionParts DEF Pairing
  <1> DEFINE q == [y \in DOMAIN b |-> CHOOSE x \in DOMAIN a : p[x] = y]
  <1>3. \A y \in DOMAIN b : q[y] \in DOMAIN a /\ p[q[y]] = y
    <2> TAKE y \in DOMAIN b
    <2>1. \E x \in DOMAIN a : p[x] = y
      BY <1>2
    <2> QED BY <2>1
  <1>4. q \in [DOMAIN b -> DOMAIN a]
    BY <1>3
  <1> HIDE DEF q
  <1>5. \A x, y \in DOMAIN b : q[x] = q[y] => x = y
    BY <1>3
  <1>6. \A x \in DOMAIN a : \E y \in DOMAIN b : q[y] = x
    <2> TAKE x \in DOMAIN a
    <2>1. p[x] \in DOMAIN b
      BY <1>2
    <2>2. p[q[p[x]]] = p[x] /\ q[p[x]] \in DOMAIN a
      BY <1>3, <2>1
    <2>3. q[p[x]] = x
      BY <1>2, <2>2
    <2> QED BY <2>1, <2>3
  <1>7. \A y \in DOMAIN b : a[q[y]] = b[y]
    BY <1>2, <1>3
  <1>8. Pairing(q, b, a)
    BY <1>4, <1>5, <1>6, <1>7, BijectionParts DEF Pairing
  <1> QED BY <1>8 DEF Same

\* Every family holds the same as itself.
LEMMA SameReflexive ==
  ASSUME NEW a
  PROVE  Same(a, a)
PROOF
  <1> DEFINE p == [x \in DOMAIN a |-> x]
  <1>1. p \in [DOMAIN a -> DOMAIN a] /\ \A x \in DOMAIN a : p[x] = x
    OBVIOUS
  <1> HIDE DEF p
  <1>2. Pairing(p, a, a)
    BY <1>1, BijectionParts DEF Pairing
  <1> QED BY <1>2 DEF Same

\* What holds the same in every class holds the same.
LEMMA SameByClass ==
  ASSUME NEW a, NEW b, NEW J, NEW c \in [DOMAIN a -> J], NEW d \in [DOMAIN b -> J],
         \A j \in J : Same(Part(a, c, j), Part(b, d, j))
  PROVE  Same(a, b)
PROOF
  <1> DEFINE A == DOMAIN a
             B == DOMAIN b
             P == [j \in J |-> CHOOSE p : Pairing(p, Part(a, c, j), Part(b, d, j))]
             p == [x \in A |-> P[c[x]][x]]
  <1>1. ASSUME NEW j \in J
        PROVE  Pairing(P[j], Part(a, c, j), Part(b, d, j))
    BY <1>1 DEF Same
  <1>2. ASSUME NEW j \in J
        PROVE  /\ DOMAIN Part(a, c, j) = {x \in A : c[x] = j} /\ DOMAIN Part(b, d, j) = {x \in B : d[x] = j}
               /\ \A x \in A : c[x] = j => Part(a, c, j)[x] = a[x]
               /\ \A x \in B : d[x] = j => Part(b, d, j)[x] = b[x]
    BY DEF Part
  <1> HIDE DEF P
  <1>3. ASSUME NEW j \in J
        PROVE  /\ \A x \in A : c[x] = j => P[j][x] \in B /\ d[P[j][x]] = j /\ b[P[j][x]] = a[x]
               /\ \A x, y \in A : c[x] = j /\ c[y] = j /\ P[j][x] = P[j][y] => x = y
               /\ \A y \in B : d[y] = j => \E x \in A : c[x] = j /\ P[j][x] = y
    <2>1. Pairing(P[j], Part(a, c, j), Part(b, d, j))
      BY <1>1
    <2> DEFINE aj == Part(a, c, j)
               bj == Part(b, d, j)
               pj == P[j]
    <2>2. /\ pj \in [DOMAIN aj -> DOMAIN bj]
          /\ \A x, y \in DOMAIN aj : pj[x] = pj[y] => x = y
          /\ \A y \in DOMAIN bj : \E x \in DOMAIN aj : pj[x] = y
          /\ \A x \in DOMAIN aj : bj[pj[x]] = aj[x]
      <3> HIDE DEF aj, bj, pj
      <3>1. Pairing(pj, aj, bj)
        BY <2>1 DEF aj, bj, pj
      <3> QED BY <3>1, BijectionParts DEF Pairing
    <2>3. /\ DOMAIN aj = {x \in A : c[x] = j} /\ DOMAIN bj = {x \in B : d[x] = j}
          /\ \A x \in A : c[x] = j => aj[x] = a[x]
          /\ \A x \in B : d[x] = j => bj[x] = b[x]
      BY <1>2
    <2> HIDE DEF aj, bj, pj
    <2>4. \A x \in A : c[x] = j => pj[x] \in B /\ d[pj[x]] = j /\ b[pj[x]] = a[x]
      BY <2>2, <2>3
    <2>5. \A x, y \in A : c[x] = j /\ c[y] = j /\ pj[x] = pj[y] => x = y
      BY <2>2, <2>3
    <2>6. \A y \in B : d[y] = j => \E x \in A : c[x] = j /\ pj[x] = y
      BY <2>2, <2>3
    <2> QED BY <2>4, <2>5, <2>6 DEF pj
  <1>4. \A x \in A : p[x] \in B /\ d[p[x]] = c[x] /\ b[p[x]] = a[x] /\ p[x] = P[c[x]][x] /\ c[x] \in J
    BY <1>3
  <1>5. p \in [A -> B]
    BY <1>4
  <1> HIDE DEF p
  <1>6. \A x, y \in A : p[x] = p[y] => x = y
    BY <1>3, <1>4
  <1>7. \A y \in B : \E x \in A : p[x] = y
    <2> TAKE y \in B
    <2>1. d[y] \in J
      OBVIOUS
    <2>2. PICK x \in A : c[x] = d[y] /\ P[d[y]][x] = y
      BY <1>3, <2>1
    <2> QED BY <1>4, <2>2
  <1>8. Pairing(p, a, b)
    BY <1>4, <1>5, <1>6, <1>7, BijectionParts DEF Pairing
  <1> QED BY <1>8 DEF Same

\* The evidence of findings, each piece at its finding and its place.
Evidences(fs) == [i \in DOMAIN fs |-> fs[i].Evidence]
Held(fs) == Sum(Evidences(fs))

\* The class of a piece of evidence is that of its finding.
Lifted(c, fs) == [x \in DOMAIN Held(fs) |-> c[x[1]]]

\* A piece of evidence is known by its finding and its place there.
LEMMA HeldPlaces ==
  ASSUME NEW fs
  PROVE  /\ \A x : x \in DOMAIN Held(fs) <=> \E i \in DOMAIN fs : \E n \in DOMAIN fs[i].Evidence : x = <<i, n>>
         /\ \A i \in DOMAIN fs : \A n \in DOMAIN fs[i].Evidence :
              <<i, n>> \in DOMAIN Held(fs) /\ Held(fs)[<<i, n>>] = fs[i].Evidence[n]
PROOF
  <1> DEFINE E == Evidences(fs)
  <1>1. DOMAIN E = DOMAIN fs /\ \A i \in DOMAIN fs : E[i] = fs[i].Evidence
    BY DEF Evidences
  <1> HIDE DEF E
  <1>2. DOMAIN Sum(E) = UNION {{j} \X (DOMAIN E[j]) : j \in DOMAIN E}
    BY DEF Sum
  <1>3. \A x : x \in DOMAIN Sum(E) <=> \E i \in DOMAIN fs : x \in {i} \X (DOMAIN E[i])
    BY <1>1, <1>2
  <1>4. \A x : x \in DOMAIN Sum(E) <=> \E i \in DOMAIN fs : \E n \in DOMAIN fs[i].Evidence : x = <<i, n>>
    BY <1>1, <1>3
  <1>5. \A x \in DOMAIN Sum(E) : Sum(E)[x] = E[x[1]][x[2]]
    BY DEF Sum
  <1>6. \A i \in DOMAIN fs : \A n \in DOMAIN fs[i].Evidence :
          <<i, n>> \in DOMAIN Sum(E) /\ Sum(E)[<<i, n>>] = fs[i].Evidence[n]
    BY <1>1, <1>4, <1>5
  <1> QED BY <1>4, <1>6 DEF Held, E

\* The evidence of the findings of one class is that of a list of them.
LEMMA PartHeld ==
  ASSUME NEW fs, NEW J, NEW c \in [DOMAIN fs -> J], NEW j \in J, NEW t,
         NEW q \in Bijection(DOMAIN t, {i \in DOMAIN fs : c[i] = j}),
         \A n \in DOMAIN t : t[n].Evidence = fs[q[n]].Evidence
  PROVE  /\ Lifted(c, fs) \in [DOMAIN Held(fs) -> J]
         /\ Same(Held(t), Part(Held(fs), Lifted(c, fs), j))
PROOF
  <1> DEFINE d == Lifted(c, fs)
             a == Held(t)
             b == Part(Held(fs), d, j)
             p == [x \in DOMAIN a |-> <<q[x[1]], x[2]>>]
  <1>1. /\ q \in [DOMAIN t -> {i \in DOMAIN fs : c[i] = j}]
        /\ \A m, n \in DOMAIN t : q[m] = q[n] => m = n
        /\ \A i \in {i \in DOMAIN fs : c[i] = j} : \E n \in DOMAIN t : q[n] = i
    <2> DEFINE I == {i \in DOMAIN fs : c[i] = j}
               D == DOMAIN t
    <2>1. q \in Bijection(D, I)
      OBVIOUS
    <2> HIDE DEF I, D
    <2>2. q \in [D -> I] /\ (\A m, n \in D : q[m] = q[n] => m = n) /\ \A i \in I : \E n \in D : q[n] = i
      BY <2>1, BijectionParts
    <2> QED BY <2>2 DEF I, D
  <1>2. d \in [DOMAIN Held(fs) -> J] /\ \A x \in DOMAIN Held(fs) : d[x] = c[x[1]]
    <2>1. \A x \in DOMAIN Held(fs) : x[1] \in DOMAIN fs
      BY HeldPlaces
    <2> QED BY <2>1 DEF Lifted
  <1> HIDE DEF d
  <1>3. DOMAIN b = {x \in DOMAIN Held(fs) : d[x] = j} /\ \A x \in DOMAIN b : b[x] = Held(fs)[x]
    BY DEF Part
  <1> HIDE DEF b, a
  <1>4. ASSUME NEW x \in DOMAIN a
        PROVE  /\ p[x] = <<q[x[1]], x[2]>> /\ p[x] \in DOMAIN b /\ b[p[x]] = a[x]
               /\ x[1] \in DOMAIN t /\ x = <<x[1], x[2]>>
    <2>1. PICK k \in DOMAIN t : \E n \in DOMAIN t[k].Evidence : x = <<k, n>>
      BY HeldPlaces DEF a
    <2>2. PICK n \in DOMAIN t[k].Evidence : x = <<k, n>>
      BY <2>1
    <2>3. a[x] = t[k].Evidence[n]
      BY <2>2, HeldPlaces DEF a
    <2>4. q[k] \in DOMAIN fs /\ c[q[k]] = j /\ t[k].Evidence = fs[q[k]].Evidence
      BY <1>1
    <2>5. <<q[k], n>> \in DOMAIN Held(fs) /\ Held(fs)[<<q[k], n>>] = fs[q[k]].Evidence[n]
      BY <2>2, <2>4, HeldPlaces
    <2>6. p[x] = <<q[k], n>>
      BY <2>2
    <2>7. d[<<q[k], n>>] = j
      BY <1>2, <2>4, <2>5
    <2> QED BY <1>3, <2>2, <2>3, <2>4, <2>5, <2>6, <2>7
  <1>5. p \in [DOMAIN a -> DOMAIN b]
    BY <1>4
  <1> HIDE DEF p
  <1>6. \A x, y \in DOMAIN a : p[x] = p[y] => x = y
    <2>1. ASSUME NEW x \in DOMAIN a, NEW y \in DOMAIN a, p[x] = p[y]
          PROVE  x = y
      <3>1. q[x[1]] = q[y[1]] /\ x[2] = y[2]
        BY <1>4, <2>1
      <3>2. x[1] = y[1]
        BY <1>1, <1>4, <3>1
      <3> QED BY <1>4, <3>1, <3>2
    <2> QED BY <2>1
  <1>7. \A y \in DOMAIN b : \E x \in DOMAIN a : p[x] = y
    <2> TAKE y \in DOMAIN b
    <2>1. y \in DOMAIN Held(fs) /\ d[y] = j
      BY <1>3
    <2>2. PICK i \in DOMAIN fs : \E n \in DOMAIN fs[i].Evidence : y = <<i, n>>
      BY <2>1, HeldPlaces
    <2>3. PICK n \in DOMAIN fs[i].Evidence : y = <<i, n>>
      BY <2>2
    <2>4. c[i] = j
      BY <1>2, <2>1, <2>3
    <2>5. PICK k \in DOMAIN t : q[k] = i
      BY <1>1, <2>4
    <2>6. <<k, n>> \in DOMAIN a
      BY <2>3, <2>5, HeldPlaces DEF a
    <2>7. p[<<k, n>>] = y
      BY <1>4, <2>3, <2>5, <2>6
    <2> QED BY <2>6, <2>7
  <1>8. Pairing(p, a, b)
    BY <1>4, <1>5, <1>6, <1>7, BijectionParts DEF Pairing
  <1>9. Same(a, b)
    BY <1>8 DEF Same
  <1> QED BY <1>2, <1>9 DEF a, b, d

\* The same findings in another order hold the same evidence.
LEMMA HeldReordered ==
  ASSUME NEW fs, NEW t, NEW q \in Bijection(DOMAIN t, DOMAIN fs),
         \A n \in DOMAIN t : t[n].Evidence = fs[q[n]].Evidence
  PROVE  Same(Held(t), Held(fs))
PROOF
  <1> DEFINE c == [i \in DOMAIN fs |-> 0]
             b == Part(Held(fs), Lifted(c, fs), 0)
  <1>1. c \in [DOMAIN fs -> {0}] /\ {i \in DOMAIN fs : c[i] = 0} = DOMAIN fs
    OBVIOUS
  <1> HIDE DEF c
  <1>2. q \in Bijection(DOMAIN t, {i \in DOMAIN fs : c[i] = 0})
    BY <1>1
  <1>3. Lifted(c, fs) \in [DOMAIN Held(fs) -> {0}] /\ Same(Held(t), b)
    BY <1>1, <1>2, PartHeld
  <1>4. {x \in DOMAIN Held(fs) : Lifted(c, fs)[x] = 0} = DOMAIN Held(fs)
    BY <1>3
  <1>5. b = [x \in DOMAIN Held(fs) |-> Held(fs)[x]]
    BY <1>4 DEF Part
  <1>6. Held(fs) = [x \in DOMAIN Held(fs) |-> Held(fs)[x]]
    BY DEF Held, Sum
  <1> QED BY <1>3, <1>5, <1>6

\* Arranging keeps the elements, each as often as it was.
LEMMA ArrangedSame ==
  ASSUME NEW s, NEW keys \in Seq(Seq(Int)), DOMAIN keys = DOMAIN s
  PROVE  Same(Arranged(s, keys), s)
PROOF
  <1> DEFINE q == Placement(keys)
             t == Arranged(s, keys)
  <1>1. q \in Bijection(DOMAIN s, DOMAIN s)
    BY ArrangedPlaces
  <1>2. DOMAIN t = DOMAIN s /\ \A n \in DOMAIN s : t[n] = s[q[n]]
    BY DEF Arranged
  <1> HIDE DEF q, t
  <1>3. Pairing(q, t, s)
    BY <1>1, <1>2 DEF Pairing
  <1>4. Same(t, s)
    BY <1>3 DEF Same
  <1> QED BY <1>4 DEF t

\* Flattening keeps the elements, each as often as it was.
LEMMA FlattenSame ==
  ASSUME NEW S, NEW seqs \in Seq(Seq(S))
  PROVE  Same(FlattenSeq(seqs), Sum(seqs)) /\ FlattenSeq(seqs) \in Seq(S)
PROOF
  <1> DEFINE f == FlattenSeq(seqs)
             A == PlacesTo(seqs, Len(seqs))
  <1>1. f \in Seq(S) /\ MadeOf(f, seqs, Len(seqs))
    BY FlattenMadeOf
  <1>2. PICK p \in Bijection(DOMAIN f, A) : \A i \in DOMAIN f : f[i] = seqs[p[i][1]][p[i][2]]
    BY <1>1 DEF MadeOf
  <1>3. DOMAIN Sum(seqs) = A
    <2>1. DOMAIN Sum(seqs) = UNION {{j} \X (DOMAIN seqs[j]) : j \in DOMAIN seqs}
      BY DEF Sum
    <2>2. DOMAIN seqs = 1..Len(seqs) /\ Len(seqs) \in Nat
      OBVIOUS
    <2>3. \A j \in 1..Len(seqs) : DOMAIN seqs[j] = 1..Len(seqs[j]) /\ Len(seqs[j]) \in Nat
      OBVIOUS
    <2>4. ASSUME NEW x \in A
          PROVE  x \in DOMAIN Sum(seqs)
      <3>1. x = <<x[1], x[2]>> /\ x[1] \in 1..Len(seqs) /\ x[2] \in Nat \ {0} /\ x[2] <= Len(seqs[x[1]])
        BY DEF PlacesTo
      <3>2. x[2] \in DOMAIN seqs[x[1]]
        BY <2>3, <3>1
      <3> QED BY <2>1, <2>2, <3>1, <3>2
    <2>5. ASSUME NEW x \in DOMAIN Sum(seqs)
          PROVE  x \in A
      <3>1. PICK j \in DOMAIN seqs : x \in {j} \X (DOMAIN seqs[j])
        BY <2>1
      <3>2. x = <<j, x[2]>> /\ x[1] = j /\ x[2] \in 1..Len(seqs[j]) /\ j \in 1..Len(seqs) /\ Len(seqs[j]) \in Nat
        BY <2>2, <2>3, <3>1
      <3>3. x[2] \in Nat \ {0} /\ x[2] <= Len(seqs[x[1]])
        BY <3>2
      <3> QED BY <3>2, <3>3 DEF PlacesTo
    <2> QED BY <2>4, <2>5
  <1>4. \A i \in DOMAIN f : p[i] \in A
    BY <1>2, BijectionParts
  <1>5. \A x \in DOMAIN Sum(seqs) : Sum(seqs)[x] = seqs[x[1]][x[2]]
    BY DEF Sum
  <1> HIDE DEF f, A
  <1>6. Pairing(p, f, Sum(seqs))
    <2>1. p \in Bijection(DOMAIN f, DOMAIN Sum(seqs))
      BY <1>2, <1>3
    <2>2. \A i \in DOMAIN f : Sum(seqs)[p[i]] = f[i]
      BY <1>2, <1>3, <1>4, <1>5
    <2> QED BY <2>1, <2>2 DEF Pairing
  <1>7. Same(f, Sum(seqs))
    BY <1>6 DEF Same
  <1> QED BY <1>1, <1>7 DEF f

\* What two families with the same members have in common.
LEMMA SameMembers ==
  ASSUME NEW a, NEW b, Same(a, b)
  PROVE  /\ \A x \in DOMAIN a : \E y \in DOMAIN b : b[y] = a[x]
         /\ \A y \in DOMAIN b : \E x \in DOMAIN a : a[x] = b[y]
PROOF
  <1>1. PICK p : Pairing(p, a, b)
    BY DEF Same
  <1> QED BY <1>1, BijectionParts DEF Pairing

\* The group in its own order.
LEMMA OrderedGroup ==
  ASSUME NEW group \in Seq(Findings)
  PROVE  /\ Ordered(group) \in Seq(Findings) /\ Len(Ordered(group)) = Len(group)
         /\ Range(Ordered(group)) = Range(group)
         /\ Same(Held(Ordered(group)), Held(group))
PROOF
  <1> DEFINE keys == OrderKeys(group)
             t == Ordered(group)
             q == Placement(keys)
  <1>1. keys \in Seq(Seq(Int)) /\ DOMAIN keys = DOMAIN group /\ t = Arranged(group, keys)
    BY SortIsArranged
  <1> HIDE DEF keys, t
  <1>2. t \in Seq(Findings) /\ Len(t) = Len(group) /\ Range(t) = Range(group) /\ DOMAIN t = DOMAIN group
    BY <1>1, ArrangedKeeps
  <1>3. q \in Bijection(DOMAIN group, DOMAIN group)
    BY <1>1, ArrangedPlaces
  <1>4. \A n \in DOMAIN t : t[n] = group[q[n]]
    BY <1>1, <1>2 DEF Arranged
  <1> HIDE DEF q
  <1>5. Same(Held(t), Held(group))
    <2>1. q \in Bijection(DOMAIN t, DOMAIN group) /\ \A n \in DOMAIN t : t[n].Evidence = group[q[n]].Evidence
      BY <1>2, <1>3, <1>4
    <2> QED BY <2>1, HeldReordered
  <1> QED BY <1>2, <1>5 DEF t

\* The evidence of a merge is that of its members, each piece as often.
LEMMA MergedEvidence ==
  ASSUME NEW ordered \in Seq(Findings), ordered # <<>>
  PROVE  /\ merged_evidence(ordered) \in Seq(EvidenceEntries) \ {<<>>}
         /\ Same(merged_evidence(ordered), Held(ordered))
PROOF
  <1> DEFINE seqs == Evidences(ordered)
             flat == FlattenSeq(seqs)
             m == merged_evidence(ordered)
  <1>1. /\ DOMAIN seqs = DOMAIN ordered /\ DOMAIN ordered = 1..Len(ordered) /\ Len(ordered) \in Nat
        /\ 1 \in DOMAIN ordered
        /\ \A i \in DOMAIN ordered : seqs[i] = ordered[i].Evidence
    BY DEF Evidences
  <1>2. \A i \in DOMAIN ordered : ordered[i].Evidence \in Seq(EvidenceEntries) /\ ordered[i].Evidence # <<>>
    <2>1. \A f \in Findings : f.Evidence \in Seq(EvidenceEntries) /\ f.Evidence # <<>>
      BY DEF Findings
    <2> QED BY <2>1
  <1>3. seqs \in Seq(Seq(EvidenceEntries))
    <2>1. seqs \in [1..Len(ordered) -> Seq(EvidenceEntries)]
      BY <1>1, <1>2 DEF Evidences
    <2> QED BY <1>1, <2>1
  <1> HIDE DEF seqs
  <1>4. flat \in Seq(EvidenceEntries) /\ Same(flat, Sum(seqs))
    BY <1>3, FlattenSame
  <1>5. m = Arranged(flat, EvidenceOrderKeys(flat)) /\ EvidenceOrderKeys(flat) \in Seq(Seq(Int))
        /\ DOMAIN EvidenceOrderKeys(flat) = DOMAIN flat
    <2>1. flat = FlattenSeq([i \in DOMAIN ordered |-> ordered[i].Evidence])
      BY DEF Evidences, seqs
    <2>2. m = StableSort(flat, LAMBDA e, g : SOURCE_ORDER[e.Source] < SOURCE_ORDER[g.Source])
      BY <2>1 DEF merged_evidence
    <2> HIDE DEF flat, m
    <2> QED BY <1>4, <2>2, EvidenceIsArranged
  <1> HIDE DEF m, flat
  <1> DEFINE keys == EvidenceOrderKeys(flat)
  <1> HIDE DEF keys
  <1>6. m = Arranged(flat, keys) /\ keys \in Seq(Seq(Int)) /\ DOMAIN keys = DOMAIN flat
    BY <1>5 DEF keys
  <1>7. m \in Seq(EvidenceEntries)
    BY <1>4, <1>6, ArrangedKeeps
  <1>8. Same(m, flat)
    BY <1>6, ArrangedSame
  <1>9. Same(m, Held(ordered))
    BY <1>4, <1>8, SameTransitive DEF Held, seqs
  <1>10. m # <<>>
    <2>1. 1 \in DOMAIN ordered[1].Evidence
      BY <1>1, <1>2
    <2>2. <<1, 1>> \in DOMAIN Held(ordered)
      BY <1>1, <2>1, HeldPlaces
    <2>3. \E x \in DOMAIN m : TRUE
      BY <1>9, <2>2, SameMembers
    <2> QED BY <2>3
  <1> QED BY <1>7, <1>9, <1>10 DEF m

\* The finding whose place a merge has is one of its members.
LEMMA PrimaryMember ==
  ASSUME NEW ordered \in Seq(Findings), ordered # <<>>
  PROVE  location_primary(ordered) \in Range(ordered)
PROOF
  <1> DEFINE I == {i \in DOMAIN ordered : ordered[i].Line # None}
             found == Picked(ordered, I)
  <1>1. location_primary(ordered) = IF found = <<>> THEN ordered[1] ELSE found[1]
    BY DEF location_primary, FirstWhere, Chosen, SortedSet, Picked, PlacesIn, PlaceOrder
  <1>2. found \in Seq(Findings) /\ Range(found) = {ordered[i] : i \in I}
    BY PickedPlaces
  <1>3. ordered[1] \in Range(ordered)
    BY DEF Range
  <1> HIDE DEF found
  <1>4. CASE found # <<>>
    <2>1. found[1] \in Range(found)
      BY <1>2, <1>4 DEF Range
    <2> QED BY <1>1, <1>2, <1>4, <2>1 DEF Range
  <1> QED BY <1>1, <1>3, <1>4

\* The remediation of a merge.
FixOf(ordered) == FirstWhere(ordered, LAMBDA f : f.Fix # None, [Fix |-> None]).Fix

\* It is that of a member, or none.
LEMMA FixMember ==
  ASSUME NEW ordered \in Seq(Findings)
  PROVE  FixOf(ordered) = None \/ \E f \in Range(ordered) : FixOf(ordered) = f.Fix
PROOF
  <1> DEFINE I == {i \in DOMAIN ordered : ordered[i].Fix # None}
             found == Picked(ordered, I)
  <1>1. FixOf(ordered) = (IF found = <<>> THEN [Fix |-> None] ELSE found[1]).Fix
    BY DEF FixOf, FirstWhere, Chosen, SortedSet, Picked, PlacesIn, PlaceOrder
  <1>2. found \in Seq(Findings) /\ Range(found) = {ordered[i] : i \in I}
    BY PickedPlaces
  <1> HIDE DEF found
  <1>3. CASE found # <<>>
    <2>1. found[1] \in Range(found)
      BY <1>2, <1>3 DEF Range
    <2> QED BY <1>1, <1>2, <1>3, <2>1 DEF Range
  <1> QED BY <1>1, <1>3

-----------------------------------------------------------------------------
\* One finding that is made of a group.

\* Valid but for the number and the rule a Validity CRITICAL needs.
AlmostValid(f) ==
  /\ ValidSource(f.Source)
  /\ IsOptionalText(f.Resource)
  /\ ValidLocation(f)
  /\ IsText(f.Text)
  /\ ValidEvidence(f.Evidence)
  /\ IsOptionalText(f.Fix)
  /\ ConfirmedExcludesAgent(f) /\ ExcerptPresent(f)
  /\ OtherNotMerged(f)

\* What makes a numbered finding valid, or one a Source reports sound.
LEMMA ValidParts ==
  ASSUME NEW f \in Findings, NEW n \in Nat \ {0}
  PROVE  /\ Valid([f EXCEPT !.ID = n]) <=> AlmostValid(f) /\ ValidityCritical(f)
         /\ Sound(f) <=> AlmostValid(f) /\ ValidityCritical(f)
PROOF
  <1>1. ASSUME NEW i \in Nat \ {0}
        PROVE  Valid([f EXCEPT !.ID = i]) <=> AlmostValid(f) /\ ValidityCritical(f)
    <2> DEFINE g == [f EXCEPT !.ID = i]
    <2>1. /\ g.Confidence = f.Confidence /\ g.Evidence = f.Evidence /\ g.Text = f.Text
          /\ g.FindingType = f.FindingType /\ g.File = f.File /\ g.Line = f.Line /\ g.Path = f.Path
          /\ g.Normalized_Category = f.Normalized_Category /\ g.Resource = f.Resource
          /\ g.Severity = f.Severity /\ g.Source = f.Source /\ g.Fix = f.Fix /\ g.ID = i
      BY DEF Findings
    <2>2. /\ f.Normalized_Category \in Categories /\ f.FindingType \in DOMAIN FINDING_TYPE_ORDER
          /\ f.Severity \in DOMAIN SEVERITY_ORDER /\ f.Confidence \in DOMAIN CONFIDENCE_ORDER
      BY DEF Findings
    <2>3. i \notin {None, Odd} /\ i >= 1
      <3>1. i \in Nat \ {0}
        OBVIOUS
      <3> QED BY <3>1, NumberAssumption
    <2> HIDE DEF g
    <2>4. ValidLocation(g) <=> ValidLocation(f)
      BY <2>1 DEF ValidLocation
    <2>5. /\ ConfirmedExcludesAgent(g) <=> ConfirmedExcludesAgent(f)
          /\ ExcerptPresent(g) <=> ExcerptPresent(f)
          /\ ValidityCritical(g) <=> ValidityCritical(f)
          /\ OtherNotMerged(g) <=> OtherNotMerged(f)
      BY <2>1 DEF ConfirmedExcludesAgent, ExcerptPresent, ValidityCritical, OtherNotMerged
    <2>6. Valid(g) <=> AlmostValid(f) /\ ValidityCritical(f)
      BY <2>1, <2>2, <2>3, <2>4, <2>5 DEF Valid, AlmostValid
    <2> QED BY <2>6 DEF g
  <1> QED BY <1>1 DEF Sound

\* The key of a finding is its resource and its category.
LEMMA KeyOfFinding ==
  ASSUME NEW f \in Findings, NEW g \in Findings
  PROVE  /\ dedup_key(f) \in {NoKey} \cup (Nat \X Nat)
         /\ dedup_key(f) # NoKey <=> is_dedup_eligible(f)
         /\ dedup_key(f) = dedup_key(g) /\ dedup_key(f) # NoKey =>
              f.Resource = g.Resource /\ f.Normalized_Category = g.Normalized_Category
         /\ f.Resource = g.Resource /\ f.Normalized_Category = g.Normalized_Category => dedup_key(f) = dedup_key(g)
PROOF
  <1>1. \A h \in Findings : h.Resource \in OptionalTexts /\ h.Normalized_Category \in OptionalTexts
    <2>1. Categories \subseteq Texts
      BY LexicalAssumption DEF Texts
    <2> QED BY <2>1 DEF Findings, OptionalTexts
  <1>2. \A h \in Findings : Lex(h.Resource) \in Nat /\ Lex(h.Normalized_Category) \in Nat
    BY <1>1, LexPlaces
  <1>3. Lex(f.Resource) = Lex(g.Resource) => f.Resource = g.Resource
    BY <1>1, LexPlaces
  <1>4. Lex(f.Normalized_Category) = Lex(g.Normalized_Category) => f.Normalized_Category = g.Normalized_Category
    BY <1>1, LexPlaces
  <1>5. \A a, b : <<a, b>> # <<>>
    OBVIOUS
  <1>6. dedup_key(f) \in {NoKey} \cup (Nat \X Nat)
    BY <1>2 DEF dedup_key
  <1>7. dedup_key(f) # NoKey <=> is_dedup_eligible(f)
    BY <1>5 DEF dedup_key, NoKey
  <1>8. dedup_key(f) = dedup_key(g) /\ dedup_key(f) # NoKey =>
          f.Resource = g.Resource /\ f.Normalized_Category = g.Normalized_Category
    BY <1>3, <1>4, <1>5 DEF dedup_key, NoKey
  <1>9. f.Resource = g.Resource /\ f.Normalized_Category = g.Normalized_Category => dedup_key(f) = dedup_key(g)
    BY DEF dedup_key, is_dedup_eligible
  <1> QED BY <1>6, <1>7, <1>8, <1>9

\* The evidence of a single finding.
LEMMA HeldSingle ==
  ASSUME NEW fs, DOMAIN fs = {1}
  PROVE  Same(fs[1].Evidence, Held(fs))
PROOF
  <1> DEFINE es == fs[1].Evidence
             p == [n \in DOMAIN es |-> <<1, n>>]
  <1>1. \A n \in DOMAIN es : p[n] = <<1, n>> /\ p[n] \in DOMAIN Held(fs) /\ Held(fs)[p[n]] = es[n]
    BY HeldPlaces
  <1>2. p \in [DOMAIN es -> DOMAIN Held(fs)]
    BY <1>1
  <1> HIDE DEF p
  <1>3. \A m, n \in DOMAIN es : p[m] = p[n] => m = n
    BY <1>1
  <1>4. \A y \in DOMAIN Held(fs) : \E n \in DOMAIN es : p[n] = y
    <2> TAKE y \in DOMAIN Held(fs)
    <2>1. PICK i \in DOMAIN fs : \E n \in DOMAIN fs[i].Evidence : y = <<i, n>>
      BY HeldPlaces
    <2> QED BY <1>1, <2>1
  <1> HIDE DEF es
  <1>5. Pairing(p, es, Held(fs))
    BY <1>1, <1>2, <1>3, <1>4, BijectionParts DEF Pairing
  <1>6. Same(es, Held(fs))
    BY <1>5 DEF Same
  <1> QED BY <1>6 DEF es

\* The numbers of the severities, the types and the confidences.
LEMMA Orders3 ==
  /\ \A s \in DOMAIN SEVERITY_ORDER : SEVERITY_ORDER[s] \in 0..4
  /\ \A t \in DOMAIN FINDING_TYPE_ORDER : FINDING_TYPE_ORDER[t] \in 0..3
  /\ \A c \in DOMAIN CONFIDENCE_ORDER : CONFIDENCE_ORDER[c] \in 0..2
  /\ \A c \in DOMAIN CONFIDENCE_ORDER : c = "Confirmed" <=> CONFIDENCE_ORDER[c] = 2
  /\ \A c \in DOMAIN CONFIDENCE_ORDER : CONFIDENCE_ORDER[c] > 1 => c = "Confirmed"
  /\ CONFIDENCE_ORDER["Likely"] = 1 /\ "Likely" \in DOMAIN CONFIDENCE_ORDER /\ "Likely" # "Confirmed"
  /\ \A t \in DOMAIN FINDING_TYPE_ORDER : FINDING_TYPE_ORDER[t] <= FINDING_TYPE_ORDER["Validity"] => t # "Security"
  /\ FINDING_TYPE_ORDER["Validity"] = 2
BY DEF SEVERITY_ORDER, FINDING_TYPE_ORDER, CONFIDENCE_ORDER

\* The largest type, severity and confidence of a group.
Attribute(ordered) ==
  [type |-> Highest([i \in DOMAIN ordered |-> ordered[i].FindingType], FINDING_TYPE_ORDER),
   severity |-> Highest([i \in DOMAIN ordered |-> ordered[i].Severity], SEVERITY_ORDER),
   confidence |-> Highest([i \in DOMAIN ordered |-> ordered[i].Confidence], CONFIDENCE_ORDER)]

\* The highest type, severity and confidence are each of a member.
LEMMA HighestMembers ==
  ASSUME NEW ordered \in Seq(Findings), ordered # <<>>
  PROVE  LET a == Attribute(ordered)
         IN  /\ \E f \in Range(ordered) : f.FindingType = a.type
             /\ \E f \in Range(ordered) : f.Severity = a.severity
             /\ \E f \in Range(ordered) : f.Confidence = a.confidence
             /\ \A f \in Range(ordered) : /\ FINDING_TYPE_ORDER[f.FindingType] <= FINDING_TYPE_ORDER[a.type]
                                          /\ SEVERITY_ORDER[f.Severity] <= SEVERITY_ORDER[a.severity]
                                          /\ CONFIDENCE_ORDER[f.Confidence] <= CONFIDENCE_ORDER[a.confidence]
             /\ a.type \in DOMAIN FINDING_TYPE_ORDER /\ a.severity \in DOMAIN SEVERITY_ORDER
             /\ a.confidence \in DOMAIN CONFIDENCE_ORDER
PROOF
  <1> DEFINE D == DOMAIN ordered
             types == [i \in D |-> ordered[i].FindingType]
             severities == [i \in D |-> ordered[i].Severity]
             confidences == [i \in D |-> ordered[i].Confidence]
  <1>1. D = 1..Len(ordered) /\ Len(ordered) \in Nat /\ 1 \in D /\ \A i \in D : ordered[i] \in Findings
    OBVIOUS
  <1>2. \A f \in Findings : /\ f.FindingType \in DOMAIN FINDING_TYPE_ORDER /\ f.Severity \in DOMAIN SEVERITY_ORDER
                            /\ f.Confidence \in DOMAIN CONFIDENCE_ORDER
    BY DEF Findings
  <1>3. /\ DOMAIN types = D /\ DOMAIN severities = D /\ DOMAIN confidences = D
        /\ \A i \in D : types[i] = ordered[i].FindingType /\ severities[i] = ordered[i].Severity
                        /\ confidences[i] = ordered[i].Confidence
    OBVIOUS
  <1>4. types \in Seq(DOMAIN FINDING_TYPE_ORDER) /\ types # <<>>
    <2>1. types \in [1..Len(ordered) -> DOMAIN FINDING_TYPE_ORDER]
      BY <1>1, <1>2
    <2>2. types \in Seq(DOMAIN FINDING_TYPE_ORDER)
      BY <1>1, <2>1
    <2> QED BY <1>1, <1>3, <2>2
  <1>5. severities \in Seq(DOMAIN SEVERITY_ORDER) /\ severities # <<>>
    <2>1. severities \in [1..Len(ordered) -> DOMAIN SEVERITY_ORDER]
      BY <1>1, <1>2
    <2>2. severities \in Seq(DOMAIN SEVERITY_ORDER)
      BY <1>1, <2>1
    <2> QED BY <1>1, <1>3, <2>2
  <1>6. confidences \in Seq(DOMAIN CONFIDENCE_ORDER) /\ confidences # <<>>
    <2>1. confidences \in [1..Len(ordered) -> DOMAIN CONFIDENCE_ORDER]
      BY <1>1, <1>2
    <2>2. confidences \in Seq(DOMAIN CONFIDENCE_ORDER)
      BY <1>1, <2>1
    <2> QED BY <1>1, <1>3, <2>2
  <1> DEFINE t == Highest(types, FINDING_TYPE_ORDER)
             s == Highest(severities, SEVERITY_ORDER)
             c == Highest(confidences, CONFIDENCE_ORDER)
             a == Attribute(ordered)
  <1>7. a.type = t /\ a.severity = s /\ a.confidence = c
    BY DEF Attribute
  <1> HIDE DEF types, severities, confidences, D, a
  <1>8. /\ t \in Range(types) /\ t \in DOMAIN FINDING_TYPE_ORDER
        /\ \A j \in DOMAIN types : FINDING_TYPE_ORDER[types[j]] <= FINDING_TYPE_ORDER[t]
    <2>1. \A v \in DOMAIN FINDING_TYPE_ORDER : FINDING_TYPE_ORDER[v] \in 0..3
      BY Orders3
    <2> QED BY <1>4, <2>1, HighestOf
  <1>9. /\ s \in Range(severities) /\ s \in DOMAIN SEVERITY_ORDER
        /\ \A j \in DOMAIN severities : SEVERITY_ORDER[severities[j]] <= SEVERITY_ORDER[s]
    <2>1. \A v \in DOMAIN SEVERITY_ORDER : SEVERITY_ORDER[v] \in 0..4
      BY Orders3
    <2> QED BY <1>5, <2>1, HighestOf
  <1>10. /\ c \in Range(confidences) /\ c \in DOMAIN CONFIDENCE_ORDER
         /\ \A j \in DOMAIN confidences : CONFIDENCE_ORDER[confidences[j]] <= CONFIDENCE_ORDER[c]
    <2>1. \A v \in DOMAIN CONFIDENCE_ORDER : CONFIDENCE_ORDER[v] \in 0..2
      BY Orders3
    <2> QED BY <1>6, <2>1, HighestOf
  <1> HIDE DEF t, s, c
  <1>11. \A f \in Range(ordered) : \E i \in D : f = ordered[i]
    BY DEF Range, D
  <1>12. \A i \in D : ordered[i] \in Range(ordered)
    BY DEF Range, D
  <1>13. \E f \in Range(ordered) : f.FindingType = t
    BY <1>3, <1>8, <1>12 DEF Range
  <1>14. \E f \in Range(ordered) : f.Severity = s
    BY <1>3, <1>9, <1>12 DEF Range
  <1>15. \E f \in Range(ordered) : f.Confidence = c
    BY <1>3, <1>10, <1>12 DEF Range
  <1>16. \A f \in Range(ordered) : /\ FINDING_TYPE_ORDER[f.FindingType] <= FINDING_TYPE_ORDER[t]
                                   /\ SEVERITY_ORDER[f.Severity] <= SEVERITY_ORDER[s]
                                   /\ CONFIDENCE_ORDER[f.Confidence] <= CONFIDENCE_ORDER[c]
    <2> TAKE f \in Range(ordered)
    <2>1. PICK i \in D : f = ordered[i]
      BY <1>11
    <2> QED BY <1>3, <1>8, <1>9, <1>10, <2>1
  <1> QED BY <1>7, <1>8, <1>9, <1>10, <1>13, <1>14, <1>15, <1>16 DEF a

\* The Sources of a group, and the one finding that is made of it.
SourcesOf(ordered) == UNION {Range(f.Source) : f \in Range(ordered)}
MergedOf(ordered) == MergeOf(ordered, sorted_sources(SourcesOf(ordered)), location_primary(ordered))

\* The fields of a merge.
LEMMA MergedFields ==
  ASSUME NEW ordered \in Seq(Findings), ordered # <<>>
  PROVE  LET m == MergedOf(ordered)
             first == ordered[1]
             primary == location_primary(ordered)
             a == Attribute(ordered)
         IN  /\ m = [ID |-> 0, Normalized_Category |-> first.Normalized_Category, FindingType |-> a.type,
                     Severity |-> a.severity,
                     Confidence |-> IF AGENT_SOURCE \in SourcesOf(ordered) /\ CONFIDENCE_ORDER[a.confidence] > 1
                                    THEN "Likely" ELSE a.confidence,
                     Source |-> sorted_sources(SourcesOf(ordered)), Resource |-> first.Resource,
                     File |-> primary.File, Line |-> primary.Line, Path |-> primary.Path, Text |-> first.Text,
                     Evidence |-> merged_evidence(ordered), Fix |-> FixOf(ordered)]
             /\ first \in Range(ordered) /\ primary \in Range(ordered)
             /\ SourcesOf(ordered) \subseteq DOMAIN SOURCE_ORDER /\ SourcesOf(ordered) # {}
             /\ Range(sorted_sources(SourcesOf(ordered))) = SourcesOf(ordered)
             /\ sorted_sources(SourcesOf(ordered)) \in Seq(DOMAIN SOURCE_ORDER) \ {<<>>}
PROOF
  <1> DEFINE first == ordered[1]
             primary == location_primary(ordered)
             a == Attribute(ordered)
             S == SourcesOf(ordered)
             m == MergedOf(ordered)
  <1>1. first \in Findings /\ first \in Range(ordered)
    BY DEF Range
  <1>2. primary \in Range(ordered)
    BY PrimaryMember
  <1>3. \A f \in Range(ordered) : f \in Findings
    BY DEF Range
  <1>4. \A f \in Findings : /\ Range(f.Source) \subseteq DOMAIN SOURCE_ORDER /\ f.Source[1] \in Range(f.Source)
    <2> TAKE f \in Findings
    <2>1. f.Source \in Seq(DOMAIN SOURCE_ORDER) /\ f.Source # <<>>
      BY DEF Findings
    <2> QED BY <2>1 DEF Range
  <1>5. S \subseteq DOMAIN SOURCE_ORDER /\ S # {}
    BY <1>1, <1>3, <1>4 DEF SourcesOf
  <1>6. Range(sorted_sources(S)) = S /\ sorted_sources(S) \in Seq(DOMAIN SOURCE_ORDER) \ {<<>>}
    BY <1>5, SourceLists
  <1>7. merged_confidence(ordered, sorted_sources(S)) =
          IF AGENT_SOURCE \in S /\ CONFIDENCE_ORDER[a.confidence] > 1 THEN "Likely" ELSE a.confidence
    <2> HIDE DEF S
    <2> QED BY <1>6, Orders3 DEF merged_confidence, Attribute
  <1>8. m = [first EXCEPT
              !.ID = 0, !.FindingType = a.type, !.Severity = a.severity,
              !.Confidence = merged_confidence(ordered, sorted_sources(S)), !.Source = sorted_sources(S),
              !.File = primary.File, !.Line = primary.Line, !.Path = primary.Path,
              !.Evidence = merged_evidence(ordered), !.Fix = FixOf(ordered)]
    BY DEF MergedOf, MergeOf, Attribute, FixOf, UNASSIGNED_ID
  <1> DEFINE c == merged_confidence(ordered, sorted_sources(S))
             fix == FixOf(ordered)
             es == merged_evidence(ordered)
             src == sorted_sources(S)
  <1> HIDE DEF first, primary, a, S, m, c, fix, es, src
  <1>9. m = [first EXCEPT
              !.ID = 0, !.FindingType = a.type, !.Severity = a.severity, !.Confidence = c, !.Source = src,
              !.File = primary.File, !.Line = primary.Line, !.Path = primary.Path, !.Evidence = es, !.Fix = fix]
    BY <1>8 DEF c, fix, es, src
  <1>10. m = [ID |-> 0, Normalized_Category |-> first.Normalized_Category, FindingType |-> a.type,
              Severity |-> a.severity, Confidence |-> c, Source |-> src, Resource |-> first.Resource,
              File |-> primary.File, Line |-> primary.Line, Path |-> primary.Path, Text |-> first.Text,
              Evidence |-> es, Fix |-> fix]
    BY <1>1, <1>9 DEF Findings
  <1> QED BY <1>1, <1>2, <1>5, <1>6, <1>7, <1>10 DEF first, primary, a, S, m, c, fix, es, src

\* A merge is a Finding, of the key of its members and in the file of one.
LEMMA MergedFinding ==
  ASSUME NEW ordered \in Seq(Findings), ordered # <<>>, NEW K, K # NoKey,
         \A f \in Range(ordered) : dedup_key(f) = K
  PROVE  LET m == MergedOf(ordered)
         IN  /\ m \in Findings
             /\ \A f \in Range(ordered) : m.Resource = f.Resource /\ m.Normalized_Category = f.Normalized_Category
             /\ dedup_key(m) = K
             /\ \E f \in Range(ordered) : m.File = f.File
             /\ Same(m.Evidence, Held(ordered))
             /\ StandsFor(ordered, m)
             /\ \A f \in Range(ordered) : FINDING_TYPE_ORDER[f.FindingType] <= FINDING_TYPE_ORDER[m.FindingType]
PROOF
  <1> DEFINE m == MergedOf(ordered)
             first == ordered[1]
             primary == location_primary(ordered)
             a == Attribute(ordered)
             S == SourcesOf(ordered)
             c == IF AGENT_SOURCE \in S /\ CONFIDENCE_ORDER[a.confidence] > 1 THEN "Likely" ELSE a.confidence
             src == sorted_sources(S)
             es == merged_evidence(ordered)
             fix == FixOf(ordered)
  <1>1. /\ m = [ID |-> 0, Normalized_Category |-> first.Normalized_Category, FindingType |-> a.type,
              Severity |-> a.severity, Confidence |-> c, Source |-> src, Resource |-> first.Resource,
              File |-> primary.File, Line |-> primary.Line, Path |-> primary.Path, Text |-> first.Text,
              Evidence |-> es, Fix |-> fix]
        /\ first \in Range(ordered) /\ primary \in Range(ordered)
        /\ Range(src) = S /\ src \in Seq(DOMAIN SOURCE_ORDER) \ {<<>>}
    BY MergedFields
  <1>2. \A f \in Range(ordered) : f \in Findings
    BY DEF Range
  <1>3. es \in Seq(EvidenceEntries) \ {<<>>} /\ Same(es, Held(ordered))
    BY MergedEvidence
  <1>4. fix \in OptionalTexts
    <2>1. fix = None \/ \E f \in Range(ordered) : fix = f.Fix
      BY FixMember
    <2>2. \A f \in Findings : f.Fix \in OptionalTexts
      BY DEF Findings
    <2> QED BY <1>2, <2>1, <2>2 DEF OptionalTexts
  <1>5. /\ \E f \in Range(ordered) : f.FindingType = a.type
        /\ \E f \in Range(ordered) : f.Severity = a.severity
        /\ \E f \in Range(ordered) : f.Confidence = a.confidence
        /\ \A f \in Range(ordered) : /\ FINDING_TYPE_ORDER[f.FindingType] <= FINDING_TYPE_ORDER[a.type]
                                     /\ SEVERITY_ORDER[f.Severity] <= SEVERITY_ORDER[a.severity]
                                     /\ CONFIDENCE_ORDER[f.Confidence] <= CONFIDENCE_ORDER[a.confidence]
        /\ a.type \in DOMAIN FINDING_TYPE_ORDER /\ a.severity \in DOMAIN SEVERITY_ORDER
        /\ a.confidence \in DOMAIN CONFIDENCE_ORDER
    BY HighestMembers
  <1>6. c \in DOMAIN CONFIDENCE_ORDER /\ CONFIDENCE_ORDER[c] <= CONFIDENCE_ORDER[a.confidence]
        /\ (AGENT_SOURCE \in S => c # "Confirmed")
    <2> HIDE DEF a, S
    <2>1. CONFIDENCE_ORDER[a.confidence] \in 0..2
      BY <1>5, Orders3
    <2> QED BY <1>5, <2>1, Orders3
  <1> HIDE DEF m, first, primary, a, S, c, src, es, fix
  <1>7. /\ m.Source = src /\ m.Severity = a.severity /\ m.FindingType = a.type /\ m.Confidence = c
        /\ m.Evidence = es /\ m.Resource = first.Resource /\ m.Normalized_Category = first.Normalized_Category
        /\ m.File = primary.File
    BY <1>1
  <1>8. m \in Findings
    <2>1. first \in Findings /\ primary \in Findings
      BY <1>1, <1>2
    <2> QED BY <1>1, <1>3, <1>4, <1>5, <1>6, <2>1 DEF Findings
  <1>9. \A f \in Range(ordered) : m.Resource = f.Resource /\ m.Normalized_Category = f.Normalized_Category
    <2> TAKE f \in Range(ordered)
    <2>1. dedup_key(f) = dedup_key(first) /\ dedup_key(f) # NoKey /\ f \in Findings /\ first \in Findings
      BY <1>1, <1>2
    <2> QED BY <1>7, <2>1, KeyOfFinding
  <1>10. dedup_key(m) = K
    <2>1. first \in Findings /\ dedup_key(first) = K
      BY <1>1, <1>2
    <2> QED BY <1>7, <1>8, <2>1, KeyOfFinding
  <1>11. StandsFor(ordered, m)
    <2>1. \A f \in Range(ordered) : Range(f.Source) \subseteq S
      BY DEF S, SourcesOf
    <2> QED BY <1>1, <1>5, <1>6, <1>7, <2>1 DEF StandsFor
  <1> QED BY <1>1, <1>3, <1>5, <1>7, <1>8, <1>9, <1>10, <1>11 DEF m

\* A merge of valid Findings is valid, but for the rule that a Validity CRITICAL
\* needs and that none of them has.
LEMMA MergedValid ==
  ASSUME NEW ordered \in Seq(Findings), ordered # <<>>, NEW K, K # NoKey,
         \A f \in Range(ordered) : dedup_key(f) = K /\ AlmostValid(f),
         ~IsAFunction(None), ~IsAFunction(Odd)
  PROVE  LET m == MergedOf(ordered)
         IN  AlmostValid(m) /\ (~ValidityCritical(m) => CriticalWithoutRule(ordered))
PROOF
  <1> DEFINE m == MergedOf(ordered)
             first == ordered[1]
             primary == location_primary(ordered)
             a == Attribute(ordered)
             S == SourcesOf(ordered)
             c == IF AGENT_SOURCE \in S /\ CONFIDENCE_ORDER[a.confidence] > 1 THEN "Likely" ELSE a.confidence
             src == sorted_sources(S)
             es == merged_evidence(ordered)
             fix == FixOf(ordered)
  <1>1. /\ m = [ID |-> 0, Normalized_Category |-> first.Normalized_Category, FindingType |-> a.type,
              Severity |-> a.severity, Confidence |-> c, Source |-> src, Resource |-> first.Resource,
              File |-> primary.File, Line |-> primary.Line, Path |-> primary.Path, Text |-> first.Text,
              Evidence |-> es, Fix |-> fix]
        /\ first \in Range(ordered) /\ primary \in Range(ordered)
        /\ S \subseteq DOMAIN SOURCE_ORDER
        /\ Range(src) = S /\ src \in Seq(DOMAIN SOURCE_ORDER) \ {<<>>}
    BY MergedFields
  <1>2. \A f \in Range(ordered) : f \in Findings /\ AlmostValid(f) /\ dedup_key(f) = K
    BY DEF Range
  <1>3. es \in Seq(EvidenceEntries) \ {<<>>} /\ Same(es, Held(ordered))
    BY MergedEvidence
  <1>4. fix = None \/ \E f \in Range(ordered) : fix = f.Fix
    BY FixMember
  <1>5. /\ \E f \in Range(ordered) : f.FindingType = a.type
        /\ \E f \in Range(ordered) : f.Severity = a.severity
        /\ \E f \in Range(ordered) : f.Confidence = a.confidence
        /\ \A f \in Range(ordered) : /\ FINDING_TYPE_ORDER[f.FindingType] <= FINDING_TYPE_ORDER[a.type]
                                     /\ CONFIDENCE_ORDER[f.Confidence] <= CONFIDENCE_ORDER[a.confidence]
        /\ a.confidence \in DOMAIN CONFIDENCE_ORDER
    BY HighestMembers
  <1>6. AGENT_SOURCE \in S => c # "Confirmed"
    <2> HIDE DEF a, S
    <2>1. CONFIDENCE_ORDER[a.confidence] \in 0..2
      BY <1>5, Orders3
    <2> QED BY <1>5, <2>1, Orders3
  <1>7. S = UNION {Range(f.Source) : f \in Range(ordered)}
    BY DEF SourcesOf
  <1>8. /\ \A x \in DOMAIN es : \E f \in Range(ordered) : \E n \in DOMAIN f.Evidence : es[x] = f.Evidence[n]
        /\ \A f \in Range(ordered) : \A n \in DOMAIN f.Evidence : \E x \in DOMAIN es : es[x] = f.Evidence[n]
    <2>1. /\ \A x \in DOMAIN es : \E y \in DOMAIN Held(ordered) : Held(ordered)[y] = es[x]
          /\ \A y \in DOMAIN Held(ordered) : \E x \in DOMAIN es : es[x] = Held(ordered)[y]
      BY <1>3, SameMembers
    <2> HIDE DEF es
    <2>2. ASSUME NEW x \in DOMAIN es
          PROVE  \E f \in Range(ordered) : \E n \in DOMAIN f.Evidence : es[x] = f.Evidence[n]
      <3>1. PICK y \in DOMAIN Held(ordered) : Held(ordered)[y] = es[x]
        BY <2>1
      <3>2. PICK i \in DOMAIN ordered : \E n \in DOMAIN ordered[i].Evidence : y = <<i, n>>
        BY HeldPlaces
      <3>3. PICK n \in DOMAIN ordered[i].Evidence : y = <<i, n>>
        BY <3>2
      <3>4. Held(ordered)[y] = ordered[i].Evidence[n]
        BY <3>3, HeldPlaces
      <3>5. ordered[i] \in Range(ordered)
        BY DEF Range
      <3> QED BY <3>1, <3>3, <3>4, <3>5
    <2>3. ASSUME NEW f \in Range(ordered), NEW n \in DOMAIN f.Evidence
          PROVE  \E x \in DOMAIN es : es[x] = f.Evidence[n]
      <3>1. PICK i \in DOMAIN ordered : f = ordered[i]
        BY DEF Range
      <3>2. <<i, n>> \in DOMAIN Held(ordered) /\ Held(ordered)[<<i, n>>] = f.Evidence[n]
        BY <3>1, HeldPlaces
      <3> QED BY <2>1, <3>2
    <2> QED BY <2>2, <2>3
  <1> HIDE DEF m, first, primary, a, S, src, es, fix
  <1>9. /\ m.Source = src /\ m.FindingType = a.type /\ m.Confidence = c /\ m.Severity = a.severity
        /\ m.Evidence = es /\ m.Resource = first.Resource /\ m.Normalized_Category = first.Normalized_Category
        /\ m.File = primary.File /\ m.Line = primary.Line /\ m.Path = primary.Path /\ m.Text = first.Text
        /\ m.Fix = fix
    BY <1>1
  <1>10. ValidSource(m.Source)
    <2>1. src # Odd /\ src # None
      <3>1. src = [x \in DOMAIN src |-> src[x]]
        BY <1>1
      <3>2. IsAFunction(src)
        BY <3>1 DEF IsAFunction
      <3> QED BY <3>2
    <2>2. src = sorted_sources(Range(src))
      BY <1>1 DEF src
    <2> QED BY <1>1, <1>9, <2>1, <2>2 DEF ValidSource
  <1>11. IsOptionalText(m.Resource) /\ IsText(m.Text)
    BY <1>1, <1>2, <1>9 DEF AlmostValid
  <1>12. ValidLocation(m)
    BY <1>1, <1>2, <1>9 DEF AlmostValid, ValidLocation
  <1>13. ValidEvidence(m.Evidence)
    <2>1. ASSUME NEW x \in DOMAIN es
          PROVE  /\ es[x].Source \in DOMAIN SOURCE_ORDER /\ IsText(es[x].Detail)
                 /\ IsOptionalText(es[x].RuleId) /\ IsOptionalText(es[x].Excerpt)
      <3>1. PICK f \in Range(ordered) : \E n \in DOMAIN f.Evidence : es[x] = f.Evidence[n]
        BY <1>8
      <3>2. PICK n \in DOMAIN f.Evidence : es[x] = f.Evidence[n]
        BY <3>1
      <3>3. ValidEvidence(f.Evidence)
        BY <1>2 DEF AlmostValid
      <3> QED BY <3>2, <3>3 DEF ValidEvidence
    <2> QED BY <1>3, <1>9, <2>1 DEF ValidEvidence
  <1>14. IsOptionalText(m.Fix)
    <2>1. CASE fix = None
      BY <1>9, <2>1 DEF IsOptionalText
    <2>2. CASE \E f \in Range(ordered) : fix = f.Fix
      BY <1>2, <1>9, <2>2 DEF AlmostValid
    <2> QED BY <1>4, <2>1, <2>2
  <1>15. ConfirmedExcludesAgent(m)
    <2> HIDE DEF c
    <2> QED BY <1>1, <1>6, <1>9 DEF ConfirmedExcludesAgent
  <1>16. ExcerptPresent(m)
    <2>1. ASSUME NEW f \in Range(ordered), f.Confidence # "Confirmed"
          PROVE  \E x \in DOMAIN es : es[x].Excerpt # None
      <3>1. ExcerptPresent(f)
        BY <1>2 DEF AlmostValid
      <3>2. PICK n \in DOMAIN f.Evidence : f.Evidence[n].Excerpt # None
        BY <2>1, <3>1 DEF ExcerptPresent
      <3> QED BY <1>8, <3>2
    <2>2. CASE AGENT_SOURCE \in S
      <3>1. PICK f \in Range(ordered) : AGENT_SOURCE \in Range(f.Source)
        BY <1>7, <2>2
      <3>2. ConfirmedExcludesAgent(f)
        BY <1>2 DEF AlmostValid
      <3>3. f.Confidence # "Confirmed"
        BY <3>1, <3>2 DEF ConfirmedExcludesAgent
      <3> QED BY <1>9, <2>1, <3>3 DEF ExcerptPresent
    <2>3. CASE AGENT_SOURCE \notin S
      <3>1. c = a.confidence
        BY <2>3
      <3>2. PICK f \in Range(ordered) : f.Confidence = a.confidence
        BY <1>5
      <3> HIDE DEF c
      <3> QED BY <1>9, <2>1, <3>1, <3>2 DEF ExcerptPresent
    <2> QED BY <2>2, <2>3
  <1>17. OtherNotMerged(m)
    <2>1. first \in Findings /\ dedup_key(first) # NoKey
      BY <1>1, <1>2
    <2>2. is_dedup_eligible(first)
      BY <2>1, KeyOfFinding
    <2> QED BY <1>9, <2>2 DEF OtherNotMerged, is_dedup_eligible
  <1>18. AlmostValid(m)
    BY <1>10, <1>11, <1>12, <1>13, <1>14, <1>15, <1>16, <1>17 DEF AlmostValid
  <1>19. ASSUME ~ValidityCritical(m)
         PROVE  CriticalWithoutRule(ordered)
    <2>1. a.type = "Validity" /\ a.severity = "CRITICAL" /\ \A i \in DOMAIN es : es[i].RuleId = None
      BY <1>9, <1>19 DEF ValidityCritical
    <2>2. \A f \in Range(ordered) : f.FindingType # "Security"
      <3> TAKE f \in Range(ordered)
      <3>1. f.FindingType \in DOMAIN FINDING_TYPE_ORDER
        BY <1>2 DEF Findings
      <3> QED BY <1>5, <2>1, <3>1, Orders3
    <2>3. \A f \in Range(ordered) : \A e \in Range(f.Evidence) : e.RuleId = None
      <3> TAKE f \in Range(ordered)
      <3> TAKE e \in Range(f.Evidence)
      <3>1. PICK n \in DOMAIN f.Evidence : e = f.Evidence[n]
        BY DEF Range
      <3>2. PICK x \in DOMAIN es : es[x] = f.Evidence[n]
        BY <1>8
      <3> QED BY <2>1, <3>1, <3>2
    <2> QED BY <1>5, <2>1, <2>2, <2>3 DEF CriticalWithoutRule
  <1> QED BY <1>18, <1>19 DEF m

\* A Finding made from members of one key: what it keeps of them.
Represents(m, group, K) ==
  /\ m \in Findings /\ AlmostValid(m)
  /\ dedup_key(m) = K
  /\ \E f \in Range(group) : m.File = f.File
  /\ Same(m.Evidence, Held(group))
  /\ StandsFor(group, m)
  /\ ~ValidityCritical(m) => CriticalWithoutRule(group)

\* merge_group(): of the sound findings of one key, one that keeps their
\* evidence and is as severe as any; and it can be refused for one reason only.
LEMMA MergedGroup ==
  ASSUME NEW group \in Seq(SoundFindings), group # <<>>, NEW K, K # NoKey,
         \A f \in Range(group) : dedup_key(f) = K,
         ~IsAFunction(None), ~IsAFunction(Odd)
  PROVE  Represents(merge_group(group), group, K)
PROOF
  <1>1. \A f \in SoundFindings : f \in Findings /\ AlmostValid(f) /\ ValidityCritical(f)
    <2> TAKE f \in SoundFindings
    <2>1. f \in Findings /\ Sound(f)
      BY DEF SoundFindings
    <2>2. 1 \in Nat \ {0}
      OBVIOUS
    <2> QED BY <2>1, <2>2, ValidParts
  <1>2. /\ \A f \in Range(group) : f \in SoundFindings
        /\ group \in Seq(Findings) /\ Len(group) \in Nat /\ DOMAIN group = 1..Len(group)
    <2>1. SoundFindings \subseteq Findings
      BY DEF SoundFindings
    <2> QED BY <2>1 DEF Range
  <1>3. CASE Len(group) = 1
    <2> DEFINE m == group[1]
    <2>1. merge_group(group) = m
      BY <1>3 DEF merge_group
    <2>2. DOMAIN group = {1} /\ Range(group) = {m} /\ m \in Range(group)
      BY <1>2, <1>3 DEF Range
    <2>3. m \in Findings /\ AlmostValid(m) /\ ValidityCritical(m) /\ dedup_key(m) = K
      BY <1>1, <1>2, <2>2
    <2>4. Same(m.Evidence, Held(group))
      BY <2>2, HeldSingle
    <2>5. StandsFor(group, m)
      <3>1. SEVERITY_ORDER[m.Severity] <= SEVERITY_ORDER[m.Severity]
        <4>1. SEVERITY_ORDER[m.Severity] \in 0..4
          <5>1. m.Severity \in DOMAIN SEVERITY_ORDER
            BY <2>3 DEF Findings
          <5> QED BY <5>1, Orders3
        <4> QED BY <4>1
      <3>2. CONFIDENCE_ORDER[m.Confidence] <= CONFIDENCE_ORDER[m.Confidence]
        <4>1. CONFIDENCE_ORDER[m.Confidence] \in 0..2
          <5>1. m.Confidence \in DOMAIN CONFIDENCE_ORDER
            BY <2>3 DEF Findings
          <5> QED BY <5>1, Orders3
        <4> QED BY <4>1
      <3>3. AGENT_SOURCE \in Range(m.Source) => m.Confidence # "Confirmed"
        BY <2>3 DEF AlmostValid, ConfirmedExcludesAgent
      <3> QED BY <2>2, <3>1, <3>2, <3>3 DEF StandsFor
    <2> QED BY <2>1, <2>2, <2>3, <2>4, <2>5 DEF Represents
  <1>4. CASE Len(group) # 1
    <2> DEFINE ordered == Ordered(group)
               m == MergedOf(ordered)
    <2>1. merge_group(group) = m
      BY <1>4 DEF merge_group, MergedOf, SourcesOf
    <2>2. /\ ordered \in Seq(Findings) /\ Len(ordered) = Len(group)
          /\ Range(ordered) = Range(group) /\ Same(Held(ordered), Held(group))
      BY <1>2, OrderedGroup
    <2>3. ordered # <<>>
      <3>1. Len(group) # 0
        BY <1>2
      <3>2. Len(<<>>) = 0
        OBVIOUS
      <3> QED BY <2>2, <3>1, <3>2
    <2> HIDE DEF ordered, m
    <2>4. \A f \in Range(ordered) : dedup_key(f) = K /\ AlmostValid(f)
      BY <1>1, <1>2, <2>2
    <2>5. /\ m \in Findings /\ dedup_key(m) = K
          /\ \E f \in Range(ordered) : m.File = f.File
          /\ Same(m.Evidence, Held(ordered)) /\ StandsFor(ordered, m)
      BY <2>2, <2>3, <2>4, MergedFinding DEF m
    <2>6. AlmostValid(m) /\ (~ValidityCritical(m) => CriticalWithoutRule(ordered))
      BY <2>2, <2>3, <2>4, MergedValid DEF m
    <2>7. Same(m.Evidence, Held(group))
      BY <2>2, <2>5, SameTransitive
    <2>8. StandsFor(group, m)
      BY <2>2, <2>5 DEF StandsFor
    <2>9. ~ValidityCritical(m) => CriticalWithoutRule(group)
      BY <2>2, <2>6 DEF CriticalWithoutRule
    <2> QED BY <2>1, <2>2, <2>5, <2>6, <2>7, <2>8, <2>9 DEF Represents
  <1> QED BY <1>3, <1>4

-----------------------------------------------------------------------------
\* Deduplication of one bucket, and of all that a review found.

\* The keys of some findings in their order, the findings of each, and both
\* parts of deduplicate().
KeyOrder(S) == {p \in S \X S : LexLess(p[1], p[2])}
KeysIn(fs) == {dedup_key(f) : f \in Range(fs)} \ {NoKey}
KeyList(fs) == Ranked(KeysIn(fs), KeyOrder(KeysIn(fs)))
KeyPlaces(fs, key) == {i \in DOMAIN fs : dedup_key(fs[i]) = key}
GroupOf(fs, key) == Picked(fs, KeyPlaces(fs, key))
MergedGroups(fs) == [i \in DOMAIN KeyList(fs) |-> merge_group(GroupOf(fs, KeyList(fs)[i]))]
Unmerged(fs) == Ordered(GroupOf(fs, NoKey))

\* A list t of the findings of one class, whose places are q.
ListsClass(t, q, fs, J, c, j) ==
  /\ c \in [DOMAIN fs -> J] /\ j \in J
  /\ q \in Bijection(DOMAIN t, {i \in DOMAIN fs : c[i] = j})
  /\ \A n \in DOMAIN t : t[n].Evidence = fs[q[n]].Evidence

\* The evidence of the findings of one class, by a list of them.
LEMMA ClassHeld ==
  ASSUME NEW fs, NEW J, NEW c, NEW j, NEW t, NEW q, ListsClass(t, q, fs, J, c, j)
  PROVE  /\ Lifted(c, fs) \in [DOMAIN Held(fs) -> J]
         /\ Same(Held(t), Part(Held(fs), Lifted(c, fs), j))
BY PartHeld DEF ListsClass

\* What deduplicate() does, in the words of the proofs.
LEMMA DeduplicateIs ==
  ASSUME NEW fs
  PROVE  deduplicate(fs) = MergedGroups(fs) \o Unmerged(fs)
BY DEF deduplicate, MergedGroups, Unmerged, KeyList, KeysIn, KeyOrder,
       Chosen, SortedSet, GroupOf, KeyPlaces, Picked, PlacesIn, PlaceOrder

\* The keys of the findings, each once.
LEMMA KeyLists ==
  ASSUME NEW fs \in Seq(Findings)
  PROVE  /\ Cardinality(KeysIn(fs)) \in Nat
         /\ DOMAIN KeyList(fs) = 1..Cardinality(KeysIn(fs)) /\ Range(KeyList(fs)) = KeysIn(fs)
         /\ \A m, n \in DOMAIN KeyList(fs) : KeyList(fs)[m] = KeyList(fs)[n] => m = n
         /\ KeyList(fs) \in Seq(KeysIn(fs))
PROOF
  <1> DEFINE S == KeysIn(fs)
             q == KeyList(fs)
  <1>1. IsFiniteSet(S)
    <2>1. DOMAIN fs = 1..Len(fs) /\ Len(fs) \in Nat
      OBVIOUS
    <2>2. IsFiniteSet(1..Len(fs))
      <3>1. 1 \in Int /\ Len(fs) \in Int
        BY <2>1
      <3> QED BY <3>1, FS_Interval
    <2> DEFINE T == {dedup_key(f) : f \in Range(fs)}
               g == [i \in 1..Len(fs) |-> dedup_key(fs[i])]
    <2>3. g \in Surjection(1..Len(fs), T)
      BY <2>1 DEF Surjection, Range
    <2> HIDE DEF g, T
    <2>4. IsFiniteSet(T)
      BY <2>2, <2>3, FS_Surjection
    <2>5. S \subseteq T
      BY DEF KeysIn, T
    <2> QED BY <2>4, <2>5, FS_Subset
  <1>2. \A a \in S : a \in Nat \X Nat
    <2>1. \A f \in Range(fs) : f \in Findings
      BY DEF Range
    <2>2. \A f \in Findings : dedup_key(f) \in {NoKey} \cup (Nat \X Nat)
      BY KeyOfFinding
    <2> QED BY <2>1, <2>2 DEF KeysIn
  <1>3. \A a \in S : a \in Seq(Int)
    <2> TAKE a \in S
    <2>1. PICK x \in Nat, y \in Nat : a = <<x, y>>
      BY <1>2
    <2> QED BY <2>1
  <1> HIDE DEF S
  <1>4. Orders(KeyOrder(S), S)
    <2>1. \A a, b \in S : <<a, b>> \in KeyOrder(S) <=> LexLess(a, b)
      BY DEF KeyOrder
    <2>2. \A a \in S : ~LexLess(a, a)
      BY <1>3, LexIrreflexive
    <2>3. \A a, b, c \in S : LexLess(a, b) /\ LexLess(b, c) => LexLess(a, c)
      BY <1>3, LexTransitive
    <2>4. \A a, b \in S : LexLess(a, b) \/ LexLess(b, a) \/ a = b
      BY <1>3, LexTotal
    <2> QED BY <2>1, <2>2, <2>3, <2>4 DEF Orders
  <1>5. q = Ranked(S, KeyOrder(S))
    BY DEF KeyList, S
  <1> HIDE DEF q
  <1>6. Lists(q, S, KeyOrder(S))
    BY <1>1, <1>4, <1>5, RankedLists
  <1>7. /\ DOMAIN q = 1..Cardinality(S) /\ Range(q) = S
        /\ \A m, n \in DOMAIN q : q[m] = q[n] => m = n
    BY <1>4, <1>6, ListsOnce
  <1>8. Cardinality(S) \in Nat /\ q \in Seq(S)
    <2>1. q \in [1..Cardinality(S) -> S] /\ Cardinality(S) \in Nat
      BY <1>6 DEF Lists
    <2>2. PICK n \in Nat : n = Cardinality(S)
      BY <2>1
    <2>3. q \in [1..n -> S]
      BY <2>1, <2>2
    <2> QED BY <2>1, <2>3
  <1> QED BY <1>7, <1>8 DEF S, q

\* The group of a key.
LEMMA Groups ==
  ASSUME NEW fs \in Seq(SoundFindings), NEW key
  PROVE  /\ GroupOf(fs, key) \in Seq(SoundFindings)
         /\ \A f \in Range(GroupOf(fs, key)) : dedup_key(f) = key /\ f \in Range(fs)
         /\ DOMAIN GroupOf(fs, key) = DOMAIN PlacesIn(KeyPlaces(fs, key))
         /\ PlacesIn(KeyPlaces(fs, key)) \in Bijection(DOMAIN GroupOf(fs, key), KeyPlaces(fs, key))
         /\ \A n \in DOMAIN GroupOf(fs, key) : GroupOf(fs, key)[n] = fs[PlacesIn(KeyPlaces(fs, key))[n]]
         /\ (key \in KeysIn(fs)) => GroupOf(fs, key) # <<>>
PROOF
  <1> DEFINE I == KeyPlaces(fs, key)
  <1>1. I \in SUBSET DOMAIN fs
    BY DEF KeyPlaces
  <1>2. \A i \in I : dedup_key(fs[i]) = key /\ fs[i] \in Range(fs)
    BY DEF KeyPlaces, Range
  <1>3. key \in KeysIn(fs) => I # {}
    BY DEF KeysIn, KeyPlaces, Range
  <1>4. GroupOf(fs, key) = Picked(fs, I)
    BY DEF GroupOf
  <1> HIDE DEF I
  <1>5. /\ DOMAIN PlacesIn(I) = 1..Cardinality(I) /\ PlacesIn(I) \in Bijection(1..Cardinality(I), I)
        /\ DOMAIN Picked(fs, I) = 1..Cardinality(I)
        /\ \A n \in 1..Cardinality(I) : PlacesIn(I)[n] \in I /\ Picked(fs, I)[n] = fs[PlacesIn(I)[n]]
        /\ Picked(fs, I) \in Seq(SoundFindings)
        /\ Range(Picked(fs, I)) = {fs[i] : i \in I}
        /\ Picked(fs, I) = <<>> <=> I = {}
    BY <1>1, PickedPlaces
  <1>6. \A f \in Range(Picked(fs, I)) : dedup_key(f) = key /\ f \in Range(fs)
    BY <1>2, <1>5
  <1> QED BY <1>3, <1>4, <1>5, <1>6 DEF I

\* deduplicate(): one Finding for every key there is, made from all of that
\* key; those without a key as they are; and all the evidence, as often as it
\* was found.
THEOREM Deduplicated ==
  ASSUME NEW fs \in Seq(SoundFindings), ~IsAFunction(None), ~IsAFunction(Odd), NEW r, r = deduplicate(fs)
  PROVE  /\ r \in Seq(Findings)
         /\ \A i \in DOMAIN r : dedup_key(r[i]) = NoKey => r[i] \in Range(fs)
         /\ \A i \in DOMAIN r : dedup_key(r[i]) # NoKey =>
              /\ GroupOf(fs, dedup_key(r[i])) # <<>>
              /\ Represents(r[i], GroupOf(fs, dedup_key(r[i])), dedup_key(r[i]))
         /\ \A i, j \in DOMAIN r : dedup_key(r[i]) = dedup_key(r[j]) /\ dedup_key(r[i]) # NoKey => i = j
         /\ Same(Held(fs), Held(r))
PROOF
  <1> DEFINE K == KeyList(fs)
             n == Cardinality(KeysIn(fs))
             front == MergedGroups(fs)
             back == Unmerged(fs)
             J == KeysIn(fs) \cup {NoKey}
             c == [i \in DOMAIN fs |-> dedup_key(fs[i])]
             d == [i \in DOMAIN r |-> dedup_key(r[i])]
  <1>1. fs \in Seq(Findings) /\ \A f \in Range(fs) : f \in SoundFindings
    <2>1. SoundFindings \subseteq Findings
      BY DEF SoundFindings
    <2> QED BY <2>1 DEF Range
  <1>2. /\ n \in Nat /\ DOMAIN K = 1..n /\ Range(K) = KeysIn(fs)
        /\ \A a, b \in DOMAIN K : K[a] = K[b] => a = b
    BY <1>1, KeyLists
  <1>3. \A k \in 1..n : K[k] \in KeysIn(fs) /\ K[k] # NoKey
    BY <1>2 DEF Range, KeysIn
  <1>4. ASSUME NEW k \in 1..n
        PROVE  /\ GroupOf(fs, K[k]) # <<>>
               /\ front[k] = merge_group(GroupOf(fs, K[k]))
               /\ Represents(front[k], GroupOf(fs, K[k]), K[k])
    <2>1. GroupOf(fs, K[k]) \in Seq(SoundFindings) /\ GroupOf(fs, K[k]) # <<>>
      BY <1>3, Groups
    <2>2. \A f \in Range(GroupOf(fs, K[k])) : dedup_key(f) = K[k]
      BY Groups
    <2>3. front[k] = merge_group(GroupOf(fs, K[k]))
      BY <1>2 DEF MergedGroups
    <2>4. Represents(merge_group(GroupOf(fs, K[k])), GroupOf(fs, K[k]), K[k])
      BY <1>3, <2>1, <2>2, MergedGroup
    <2> QED BY <2>1, <2>3, <2>4
  <1>5. front \in Seq(Findings) /\ Len(front) = n /\ DOMAIN front = 1..n
    <2>1. DOMAIN front = 1..n /\ front = [i \in 1..n |-> front[i]]
      BY <1>2 DEF MergedGroups
    <2>2. \A i \in 1..n : front[i] \in Findings
      BY <1>4 DEF Represents
    <2> HIDE DEF front, n
    <2>3. front \in [1..n -> Findings]
      BY <2>1, <2>2
    <2>4. front \in Seq(Findings)
      BY <1>2, <2>3
    <2>5. DOMAIN front = 1..Len(front) /\ Len(front) \in Nat
      BY <2>4
    <2> QED BY <1>2, <2>1, <2>4, <2>5
  <1>6. /\ back \in Seq(Findings) /\ Range(back) = Range(GroupOf(fs, NoKey))
        /\ Same(Held(back), Held(GroupOf(fs, NoKey)))
    <2>1. GroupOf(fs, NoKey) \in Seq(SoundFindings)
      BY Groups
    <2>2. GroupOf(fs, NoKey) \in Seq(Findings)
      BY <2>1 DEF SoundFindings
    <2> QED BY <2>2, OrderedGroup DEF Unmerged
  <1>7. r = front \o back
    BY DeduplicateIs
  <1> HIDE DEF front, back, n, K
  <1>8. /\ r \in Seq(Findings) /\ DOMAIN r = 1..(n + Len(back)) /\ Len(back) \in Nat
        /\ DOMAIN back = 1..Len(back)
        /\ \A i \in 1..n : i \in DOMAIN r /\ r[i] = front[i]
        /\ \A i \in 1..Len(back) : n + i \in DOMAIN r /\ r[n + i] = back[i]
        /\ \A i \in DOMAIN r : i \notin 1..n => i - n \in 1..Len(back) /\ r[i] = back[i - n]
    <2>1. r \in Seq(Findings) /\ Len(r) = Len(front) + Len(back)
      <3>1. \A a, b \in Seq(Findings) : a \o b \in Seq(Findings) /\ Len(a \o b) = Len(a) + Len(b)
        OBVIOUS
      <3> QED BY <1>5, <1>6, <1>7, <3>1
    <2>2. DOMAIN r = 1..(n + Len(back)) /\ Len(back) \in Nat /\ DOMAIN back = 1..Len(back)
      BY <1>2, <1>5, <1>6, <2>1
    <2>3. \A i \in 1..(n + Len(back)) : r[i] = IF i <= n THEN front[i] ELSE back[i - n]
      BY <1>2, <1>5, <1>6, <1>7
    <2>4. \A i \in 1..n : i \in DOMAIN r /\ r[i] = front[i]
      BY <1>2, <2>2, <2>3
    <2>5. \A i \in 1..Len(back) : n + i \in DOMAIN r /\ r[n + i] = back[i]
      <3> TAKE i \in 1..Len(back)
      <3>1. n + i \in 1..(n + Len(back)) /\ ~(n + i <= n) /\ (n + i) - n = i
        BY <1>2, <2>2
      <3> QED BY <2>2, <2>3, <3>1
    <2>6. \A i \in DOMAIN r : i \notin 1..n => i - n \in 1..Len(back) /\ r[i] = back[i - n]
      BY <1>2, <2>2, <2>3
    <2> QED BY <2>1, <2>2, <2>4, <2>5, <2>6
  <1>9. \A i \in 1..n : dedup_key(r[i]) = K[i] /\ dedup_key(r[i]) # NoKey
    BY <1>3, <1>4, <1>8 DEF Represents
  <1>10. \A i \in 1..Len(back) : back[i] \in Range(fs) /\ dedup_key(back[i]) = NoKey
    <2> TAKE i \in 1..Len(back)
    <2>1. back[i] \in Range(GroupOf(fs, NoKey))
      BY <1>6, <1>8 DEF Range
    <2> QED BY <2>1, Groups
  <1>11. \A i \in DOMAIN r : i \notin 1..n => dedup_key(r[i]) = NoKey /\ r[i] \in Range(fs)
    BY <1>8, <1>10
  <1>12. \A i \in DOMAIN r : dedup_key(r[i]) # NoKey =>
           /\ GroupOf(fs, dedup_key(r[i])) # <<>>
           /\ Represents(r[i], GroupOf(fs, dedup_key(r[i])), dedup_key(r[i]))
    <2> SUFFICES ASSUME NEW i \in DOMAIN r, dedup_key(r[i]) # NoKey
                 PROVE  /\ GroupOf(fs, dedup_key(r[i])) # <<>>
                        /\ Represents(r[i], GroupOf(fs, dedup_key(r[i])), dedup_key(r[i]))
      OBVIOUS
    <2>1. i \in 1..n
      BY <1>11
    <2> QED BY <1>4, <1>8, <1>9, <2>1
  <1>13. \A i, j \in DOMAIN r : dedup_key(r[i]) = dedup_key(r[j]) /\ dedup_key(r[i]) # NoKey => i = j
    BY <1>2, <1>9, <1>11
  <1>14. c \in [DOMAIN fs -> J] /\ d \in [DOMAIN r -> J]
    <2>1. \A i \in DOMAIN fs : dedup_key(fs[i]) \in J
      BY DEF KeysIn, Range
    <2>2. \A i \in DOMAIN r : dedup_key(r[i]) \in J
      BY <1>3, <1>9, <1>11
    <2> HIDE DEF J
    <2> QED BY <2>1, <2>2
  <1>15. ASSUME NEW j \in J
         PROVE  Same(Held(GroupOf(fs, j)), Part(Held(fs), Lifted(c, fs), j)) /\ Lifted(c, fs) \in [DOMAIN Held(fs) -> J]
    <2> DEFINE q == PlacesIn(KeyPlaces(fs, j))
               t == GroupOf(fs, j)
    <2>1. q \in Bijection(DOMAIN t, KeyPlaces(fs, j)) /\ \A m \in DOMAIN t : t[m] = fs[q[m]]
      BY Groups
    <2>2. KeyPlaces(fs, j) = {i \in DOMAIN fs : c[i] = j}
      BY DEF KeyPlaces
    <2>3. ListsClass(t, q, fs, J, c, j)
      BY <1>14, <2>1, <2>2 DEF ListsClass
    <2> HIDE DEF q, t, c, d, J
    <2>4. Same(Held(t), Part(Held(fs), Lifted(c, fs), j)) /\ Lifted(c, fs) \in [DOMAIN Held(fs) -> J]
      BY <2>3, ClassHeld
    <2> QED BY <2>4 DEF t
  <1>16. ASSUME NEW j \in J
         PROVE  Same(Held(GroupOf(fs, j)), Part(Held(r), Lifted(d, r), j)) /\ Lifted(d, r) \in [DOMAIN Held(r) -> J]
    <2>1. CASE j = NoKey
      <3> DEFINE q == [m \in 1..Len(back) |-> n + m]
      <3>1. q \in Bijection(1..Len(back), {i \in DOMAIN r : d[i] = j})
        <4>1. \A i \in DOMAIN r : d[i] = j <=> i \notin 1..n
          BY <1>9, <1>11, <2>1
        <4> HIDE DEF d
        <4>2. q \in [1..Len(back) -> {i \in DOMAIN r : d[i] = j}]
          BY <1>2, <1>8, <4>1
        <4>3. \A x, y \in 1..Len(back) : q[x] = q[y] => x = y
          BY <1>2, <1>8
        <4>4. \A y \in {i \in DOMAIN r : d[i] = j} : \E x \in 1..Len(back) : q[x] = y
          <5> TAKE y \in {i \in DOMAIN r : d[i] = j}
          <5>1. y - n \in 1..Len(back) /\ y \in Int
            BY <1>2, <1>8, <4>1
          <5>2. q[y - n] = y
            BY <1>2, <5>1
          <5> QED BY <5>1, <5>2
        <4> QED BY <4>2, <4>3, <4>4, BijectionParts
      <3>2. \A m \in DOMAIN back : back[m].Evidence = r[q[m]].Evidence
        BY <1>8
      <3> HIDE DEF q, c, d, J
      <3>3. ListsClass(back, q, r, J, d, j)
        BY <1>8, <1>14, <3>1, <3>2 DEF ListsClass
      <3>4. Same(Held(back), Part(Held(r), Lifted(d, r), j)) /\ Lifted(d, r) \in [DOMAIN Held(r) -> J]
        BY <3>3, ClassHeld
      <3>5. Same(Held(GroupOf(fs, j)), Held(back))
        BY <1>6, <2>1, SameSymmetric
      <3> QED BY <3>4, <3>5, SameTransitive
    <2>2. CASE j # NoKey
      <3>1. PICK k \in 1..n : K[k] = j
        BY <1>2, <2>2 DEF Range
      <3> DEFINE t == <<r[k]>>
                 q == [m \in {1} |-> k]
      <3>2. DOMAIN t = {1} /\ t[1] = r[k] /\ q[1] = k /\ k \in DOMAIN r /\ r[k] = front[k]
        BY <1>8
      <3>3. {i \in DOMAIN r : d[i] = j} = {k}
        <4>1. \A i \in DOMAIN r : d[i] = j <=> i = k
          BY <1>2, <1>9, <1>11, <2>2, <3>1, <3>2
        <4> QED BY <3>2, <4>1
      <3>4. q \in Bijection({1}, {k})
        BY BijectionParts
      <3> HIDE DEF q, t, c, d, J
      <3>5. q \in Bijection(DOMAIN t, {i \in DOMAIN r : d[i] = j}) /\ \A m \in DOMAIN t : t[m].Evidence = r[q[m]].Evidence
        BY <3>2, <3>3, <3>4
      <3>11. ListsClass(t, q, r, J, d, j)
        BY <1>14, <3>5 DEF ListsClass
      <3>6. Same(Held(t), Part(Held(r), Lifted(d, r), j)) /\ Lifted(d, r) \in [DOMAIN Held(r) -> J]
        BY <3>11, ClassHeld
      <3>7. Same(t[1].Evidence, Held(t))
        BY <3>2, HeldSingle
      <3>8. Same(r[k].Evidence, Held(GroupOf(fs, j)))
        BY <1>4, <3>1, <3>2 DEF Represents
      <3>9. Same(Held(GroupOf(fs, j)), r[k].Evidence)
        BY <3>8, SameSymmetric
      <3>10. Same(Held(GroupOf(fs, j)), Held(t))
        BY <3>2, <3>7, <3>9, SameTransitive
      <3> QED BY <3>6, <3>10, SameTransitive
    <2> QED BY <2>1, <2>2
  <1>17. Same(Held(fs), Held(r))
    <2>1. NoKey \in J
      OBVIOUS
    <2> DEFINE a == Held(fs)
               b == Held(r)
               lc == Lifted(c, fs)
               ld == Lifted(d, r)
    <2> HIDE DEF c, d, J
    <2>2. lc \in [DOMAIN a -> J] /\ ld \in [DOMAIN b -> J]
      BY <1>15, <1>16, <2>1
    <2>3. ASSUME NEW j \in J
          PROVE  Same(Part(a, lc, j), Part(b, ld, j))
      <3>1. Same(Part(a, lc, j), Held(GroupOf(fs, j)))
        BY <1>15, SameSymmetric
      <3>2. Same(Held(GroupOf(fs, j)), Part(b, ld, j))
        BY <1>16
      <3> QED BY <3>1, <3>2, SameTransitive
    <2> HIDE DEF a, b, lc, ld
    <2>4. Same(a, b)
      BY <2>2, <2>3, SameByClass
    <2> QED BY <2>4 DEF a, b
  <1> QED BY <1>8, <1>9, <1>11, <1>12, <1>13, <1>17

\* The files that are named, the places of the findings of each, and what is
\* made of them.
FilesOf(found) == {f.File : f \in Range(found)}
FilePlaces(found, file) == {i \in DOMAIN found : found[i].File = file}
MergedBuckets(found) == [i \in DOMAIN Buckets(found) |-> deduplicate(Bucket(found, Buckets(found)[i]))]

\* The files of the findings, each once.
LEMMA FileLists ==
  ASSUME NEW found \in Seq(Findings)
  PROVE  /\ Cardinality(FilesOf(found)) \in Nat
         /\ DOMAIN Buckets(found) = 1..Cardinality(FilesOf(found)) /\ Range(Buckets(found)) = FilesOf(found)
         /\ \A m, n \in DOMAIN Buckets(found) : Buckets(found)[m] = Buckets(found)[n] => m = n
PROOF
  <1> DEFINE S == FilesOf(found)
             q == Buckets(found)
  <1>1. IsFiniteSet(S)
    <2>1. DOMAIN found = 1..Len(found) /\ Len(found) \in Nat
      OBVIOUS
    <2>2. IsFiniteSet(1..Len(found))
      <3>1. 1 \in Int /\ Len(found) \in Int
        BY <2>1
      <3> QED BY <3>1, FS_Interval
    <2> DEFINE g == [i \in 1..Len(found) |-> found[i].File]
    <2>3. g \in Surjection(1..Len(found), S)
      BY <2>1 DEF Surjection, Range, FilesOf
    <2> HIDE DEF g, S
    <2> QED BY <2>2, <2>3, FS_Surjection
  <1>2. \A a \in S : a \in OptionalTexts
    <2>1. \A f \in Range(found) : f \in Findings
      BY DEF Range
    <2>2. \A f \in Findings : f.File \in Texts
      BY DEF Findings
    <2> QED BY <2>1, <2>2 DEF FilesOf, OptionalTexts
  <1>3. Orders(LexOrder(S), S)
    <2>1. \A a \in S : Lex(a) \in Nat
      BY <1>2, LexPlaces
    <2>2. \A a, b \in S : Lex(a) = Lex(b) => a = b
      BY <1>2, LexPlaces
    <2> HIDE DEF S
    <2> QED BY <2>1, <2>2 DEF Orders, LexOrder
  <1>4. q = Ranked(S, LexOrder(S))
    BY DEF Buckets, SortedSet, LexOrder, FilesOf
  <1> HIDE DEF S, q
  <1>5. Lists(q, S, LexOrder(S))
    BY <1>1, <1>3, <1>4, RankedLists
  <1>6. /\ DOMAIN q = 1..Cardinality(S) /\ Range(q) = S
        /\ \A m, n \in DOMAIN q : q[m] = q[n] => m = n
    BY <1>3, <1>5, ListsOnce
  <1>7. Cardinality(S) \in Nat
    BY <1>1, FS_CardinalityType
  <1> QED BY <1>6, <1>7 DEF S, q

\* The findings of a file.
LEMMA BucketParts ==
  ASSUME NEW found \in Seq(SoundFindings), NEW file
  PROVE  /\ Bucket(found, file) \in Seq(SoundFindings)
         /\ \A f : f \in Range(Bucket(found, file)) <=> f \in Range(found) /\ f.File = file
         /\ PlacesIn(FilePlaces(found, file)) \in Bijection(DOMAIN Bucket(found, file), FilePlaces(found, file))
         /\ \A n \in DOMAIN Bucket(found, file) :
              Bucket(found, file)[n] = found[PlacesIn(FilePlaces(found, file))[n]]
PROOF
  <1> DEFINE I == FilePlaces(found, file)
  <1>1. I \in SUBSET DOMAIN found
    BY DEF FilePlaces
  <1>2. \A f : f \in {found[i] : i \in I} <=> f \in Range(found) /\ f.File = file
    BY DEF FilePlaces, Range
  <1>4. Bucket(found, file) = Picked(found, I)
    BY DEF Bucket, Chosen, SortedSet, FilePlaces, Picked, PlacesIn, PlaceOrder
  <1> HIDE DEF I
  <1>5. /\ DOMAIN PlacesIn(I) = 1..Cardinality(I) /\ PlacesIn(I) \in Bijection(1..Cardinality(I), I)
        /\ DOMAIN Picked(found, I) = 1..Cardinality(I)
        /\ \A n \in 1..Cardinality(I) : PlacesIn(I)[n] \in I /\ Picked(found, I)[n] = found[PlacesIn(I)[n]]
        /\ Picked(found, I) \in Seq(SoundFindings)
        /\ Range(Picked(found, I)) = {found[i] : i \in I}
    BY <1>1, PickedPlaces
  <1> QED BY <1>2, <1>4, <1>5 DEF I

\* A Finding of a merged bucket, and what it was made of.
LEMMA MergedBucket ==
  ASSUME NEW found \in Seq(SoundFindings), NEW file, ~IsAFunction(None), ~IsAFunction(Odd),
         NEW b, b = Bucket(found, file), NEW r, r = deduplicate(b), NEW n \in DOMAIN r
  PROVE  /\ r[n] \in Findings /\ AlmostValid(r[n]) /\ r[n].File = file /\ b # <<>>
         /\ dedup_key(r[n]) = NoKey => r[n] \in Range(found)
         /\ dedup_key(r[n]) # NoKey =>
              /\ GroupOf(b, dedup_key(r[n])) # <<>>
              /\ Represents(r[n], GroupOf(b, dedup_key(r[n])), dedup_key(r[n]))
PROOF
  <1> DEFINE g == r[n]
             K == dedup_key(g)
  <1>1. b \in Seq(SoundFindings) /\ \A f \in Range(b) : f \in Range(found) /\ f.File = file
    BY BucketParts
  <1>2. /\ r \in Seq(Findings)
        /\ \A i \in DOMAIN r : dedup_key(r[i]) = NoKey => r[i] \in Range(b)
        /\ \A i \in DOMAIN r : dedup_key(r[i]) # NoKey =>
             /\ GroupOf(b, dedup_key(r[i])) # <<>>
             /\ Represents(r[i], GroupOf(b, dedup_key(r[i])), dedup_key(r[i]))
    BY <1>1, Deduplicated
  <1>3. g \in Findings
    BY <1>2
  <1>4. CASE K = NoKey
    <2>1. g \in Range(b) /\ g \in Range(found) /\ g.File = file /\ g \in SoundFindings
      <3>1. g \in Range(b)
        BY <1>2, <1>4
      <3>2. \A f \in Range(b) : f \in SoundFindings
        BY <1>1 DEF Range
      <3> QED BY <1>1, <3>1, <3>2
    <2>2. AlmostValid(g)
      <3>1. 1 \in Nat \ {0} /\ g \in Findings /\ Sound(g)
        BY <2>1 DEF SoundFindings
      <3> QED BY <3>1, ValidParts
    <2>3. b # <<>>
      BY <2>1 DEF Range
    <2> QED BY <1>3, <1>4, <2>1, <2>2, <2>3
  <1>5. CASE K # NoKey
    <2>1. GroupOf(b, K) # <<>> /\ Represents(g, GroupOf(b, K), K)
      BY <1>2, <1>5
    <2>2. PICK f \in Range(GroupOf(b, K)) : g.File = f.File
      BY <2>1 DEF Represents
    <2>3. f \in Range(b)
      BY <1>1, Groups
    <2>4. g.File = file /\ b # <<>>
      BY <1>1, <2>2, <2>3 DEF Range
    <2>5. AlmostValid(g)
      BY <2>1 DEF Represents
    <2> QED BY <1>3, <1>5, <2>1, <2>4, <2>5
  <1> QED BY <1>4, <1>5

\* The parts of a merged review: in each the findings of one file.
LEMMA MergedParts ==
  ASSUME NEW found \in Seq(SoundFindings), ~IsAFunction(None), ~IsAFunction(Odd),
         NEW parts, parts = MergedBuckets(found)
  PROVE  /\ parts \in Seq(Seq(Findings)) /\ DOMAIN parts = DOMAIN Buckets(found) /\ Len(parts) \in Nat
         /\ DOMAIN parts = 1..Len(parts)
         /\ \A k \in DOMAIN parts : parts[k] = deduplicate(Bucket(found, Buckets(found)[k]))
         /\ \A k \in DOMAIN parts : \A n \in DOMAIN parts[k] : parts[k][n].File = Buckets(found)[k]
PROOF
  <1>1. found \in Seq(Findings)
    BY DEF SoundFindings
  <1> DEFINE N == Cardinality(FilesOf(found))
  <1>2. N \in Nat /\ DOMAIN Buckets(found) = 1..N
    BY <1>1, FileLists
  <1>3. DOMAIN parts = 1..N /\ parts = [k \in 1..N |-> parts[k]]
    BY <1>2 DEF MergedBuckets
  <1>4. \A k \in DOMAIN parts : parts[k] = deduplicate(Bucket(found, Buckets(found)[k]))
    BY DEF MergedBuckets
  <1>5. ASSUME NEW k \in 1..N
        PROVE  /\ parts[k] \in Seq(Findings)
               /\ \A n \in DOMAIN parts[k] : parts[k][n].File = Buckets(found)[k]
    <2> DEFINE file == Buckets(found)[k]
               b == Bucket(found, file)
    <2>1. b \in Seq(SoundFindings)
      BY BucketParts
    <2>2. parts[k] = deduplicate(b)
      BY <1>3, <1>4
    <2> HIDE DEF b
    <2>3. parts[k] \in Seq(Findings)
      BY <2>1, <2>2, Deduplicated
    <2>4. \A n \in DOMAIN parts[k] : parts[k][n].File = file
      BY <2>2, MergedBucket DEF b
    <2> QED BY <2>3, <2>4
  <1> HIDE DEF N
  <1>6. parts \in [1..N -> Seq(Findings)]
    BY <1>3, <1>5
  <1>7. parts \in Seq(Seq(Findings))
    BY <1>2, <1>6
  <1>8. DOMAIN parts = 1..Len(parts) /\ Len(parts) \in Nat
    BY <1>7
  <1> QED BY <1>2, <1>3, <1>4, <1>5, <1>7, <1>8

\* Merged(): of every file and key one Finding, made from all that share them.
THEOREM MergedWhole ==
  ASSUME NEW found \in Seq(SoundFindings), ~IsAFunction(None), ~IsAFunction(Odd),
         NEW m, m = Merged(found)
  PROVE  /\ m \in Seq(Findings) /\ \A i \in DOMAIN m : AlmostValid(m[i]) /\ m[i].File \in FilesOf(found)
         /\ \A i \in DOMAIN m : dedup_key(m[i]) = NoKey => m[i] \in Range(found)
         /\ \A i \in DOMAIN m : dedup_key(m[i]) # NoKey =>
              /\ GroupOf(Bucket(found, m[i].File), dedup_key(m[i])) # <<>>
              /\ Represents(m[i], GroupOf(Bucket(found, m[i].File), dedup_key(m[i])), dedup_key(m[i]))
         /\ \A i, j \in DOMAIN m :
              m[i].File = m[j].File /\ dedup_key(m[i]) = dedup_key(m[j]) /\ dedup_key(m[i]) # NoKey => i = j
         /\ Same(Held(found), Held(m))
PROOF
  <1> DEFINE parts == MergedBuckets(found)
             names == Buckets(found)
             J == FilesOf(found)
             A == PlacesTo(parts, Len(parts))
  <1>1. found \in Seq(Findings) /\ \A f \in Range(found) : f \in Findings
    BY DEF SoundFindings, Range
  <1>2. m = FlattenSeq(parts)
    BY DEF Merged, MergedBuckets
  <1>3. /\ parts \in Seq(Seq(Findings)) /\ DOMAIN parts = DOMAIN names /\ Len(parts) \in Nat
        /\ DOMAIN parts = 1..Len(parts)
        /\ \A k \in DOMAIN parts : parts[k] = deduplicate(Bucket(found, names[k]))
        /\ \A k \in DOMAIN parts : \A n \in DOMAIN parts[k] : parts[k][n].File = names[k]
    BY MergedParts
  <1>4. Range(names) = J /\ \A a, b \in DOMAIN names : names[a] = names[b] => a = b
    BY <1>1, FileLists
  <1> HIDE DEF parts, names, J
  <1>5. m \in Seq(Findings) /\ MadeOf(m, parts, Len(parts))
    BY <1>2, <1>3, FlattenMadeOf
  <1>6. PICK p \in Bijection(DOMAIN m, A) : \A i \in DOMAIN m : m[i] = parts[p[i][1]][p[i][2]]
    BY <1>5 DEF MadeOf
  <1>7. \A k \in DOMAIN parts : DOMAIN parts[k] = 1..Len(parts[k]) /\ Len(parts[k]) \in Nat
    <2> TAKE k \in DOMAIN parts
    <2>1. parts[k] \in Seq(Findings)
      BY <1>3
    <2> QED BY <2>1
  <1>8. \A x : x \in A <=> \E k \in DOMAIN parts : \E n \in DOMAIN parts[k] : x = <<k, n>>
    BY <1>3, <1>7 DEF PlacesTo
  <1>9. /\ p \in [DOMAIN m -> A]
        /\ \A x, y \in DOMAIN m : p[x] = p[y] => x = y
        /\ \A y \in A : \E x \in DOMAIN m : p[x] = y
    BY <1>6, BijectionParts
  <1> HIDE DEF A
  <1>10. ASSUME NEW i \in DOMAIN m
         PROVE  \E k \in DOMAIN parts : \E n \in DOMAIN parts[k] :
                  p[i] = <<k, n>> /\ m[i] = parts[k][n] /\ m[i].File = names[k]
    <2>1a. PICK k \in DOMAIN parts : \E n \in DOMAIN parts[k] : p[i] = <<k, n>>
      BY <1>8, <1>9
    <2>1. PICK n \in DOMAIN parts[k] : p[i] = <<k, n>>
      BY <2>1a
    <2>2. p[i][1] = k /\ p[i][2] = n
      BY <2>1
    <2> QED BY <1>3, <1>6, <2>1, <2>2
  <1>11. ASSUME NEW i \in DOMAIN m
         PROVE  /\ AlmostValid(m[i]) /\ m[i].File \in J
                /\ dedup_key(m[i]) = NoKey => m[i] \in Range(found)
                /\ dedup_key(m[i]) # NoKey =>
                     /\ GroupOf(Bucket(found, m[i].File), dedup_key(m[i])) # <<>>
                     /\ Represents(m[i], GroupOf(Bucket(found, m[i].File), dedup_key(m[i])), dedup_key(m[i]))
    <2>1a. PICK k \in DOMAIN parts : \E n \in DOMAIN parts[k] : m[i] = parts[k][n] /\ m[i].File = names[k]
      BY <1>10
    <2>1. PICK n \in DOMAIN parts[k] : m[i] = parts[k][n] /\ m[i].File = names[k]
      BY <2>1a
    <2>2. names[k] \in J
      BY <1>3, <1>4 DEF Range
    <2> DEFINE b == Bucket(found, names[k])
               r == deduplicate(b)
    <2>3. parts[k] = r
      BY <1>3
    <2>4. n \in DOMAIN r /\ m[i] = r[n]
      BY <2>1, <2>3
    <2> HIDE DEF b, r
    <2>5. /\ AlmostValid(r[n])
          /\ dedup_key(r[n]) = NoKey => r[n] \in Range(found)
          /\ dedup_key(r[n]) # NoKey =>
               /\ GroupOf(b, dedup_key(r[n])) # <<>>
               /\ Represents(r[n], GroupOf(b, dedup_key(r[n])), dedup_key(r[n]))
      BY <2>4, MergedBucket DEF b, r
    <2> QED BY <2>1, <2>2, <2>4, <2>5 DEF b
  <1>12. ASSUME NEW i \in DOMAIN m, NEW j \in DOMAIN m,
                m[i].File = m[j].File, dedup_key(m[i]) = dedup_key(m[j]), dedup_key(m[i]) # NoKey
         PROVE  i = j
    <2>1a. PICK k \in DOMAIN parts : \E n \in DOMAIN parts[k] : p[i] = <<k, n>> /\ m[i] = parts[k][n] /\ m[i].File = names[k]
      BY <1>10
    <2>1. PICK n \in DOMAIN parts[k] : p[i] = <<k, n>> /\ m[i] = parts[k][n] /\ m[i].File = names[k]
      BY <2>1a
    <2>2a. PICK l \in DOMAIN parts : \E o \in DOMAIN parts[l] : p[j] = <<l, o>> /\ m[j] = parts[l][o] /\ m[j].File = names[l]
      BY <1>10
    <2>2. PICK o \in DOMAIN parts[l] : p[j] = <<l, o>> /\ m[j] = parts[l][o] /\ m[j].File = names[l]
      BY <2>2a
    <2>3. k = l
      BY <1>3, <1>4, <1>12, <2>1, <2>2
    <2> DEFINE b == Bucket(found, names[k])
    <2>4. b \in Seq(SoundFindings) /\ parts[k] = deduplicate(b)
      BY <1>3, BucketParts
    <2> HIDE DEF b
    <2>5. \A x, y \in DOMAIN parts[k] :
            dedup_key(parts[k][x]) = dedup_key(parts[k][y]) /\ dedup_key(parts[k][x]) # NoKey => x = y
      BY <2>4, Deduplicated
    <2>6. n = o
      BY <1>12, <2>1, <2>2, <2>3, <2>5
    <2> QED BY <1>9, <2>1, <2>2, <2>3, <2>6
  <1>13. Same(Held(found), Held(m))
    <2> DEFINE c == [i \in DOMAIN found |-> found[i].File]
               d == [i \in DOMAIN m |-> m[i].File]
    <2>1. c \in [DOMAIN found -> J] /\ d \in [DOMAIN m -> J]
      <3>1. \A i \in DOMAIN found : found[i].File \in J
        BY DEF J, FilesOf, Range
      <3> QED BY <1>11, <3>1
    <2>2. ASSUME NEW j \in J
          PROVE  /\ Same(Part(Held(found), Lifted(c, found), j), Part(Held(m), Lifted(d, m), j))
                 /\ Lifted(c, found) \in [DOMAIN Held(found) -> J] /\ Lifted(d, m) \in [DOMAIN Held(m) -> J]
      <3> DEFINE b == Bucket(found, j)
                 q == PlacesIn(FilePlaces(found, j))
      <3>1. PICK k \in DOMAIN parts : names[k] = j
        BY <1>3, <1>4 DEF Range
      <3>2. /\ b \in Seq(SoundFindings)
            /\ q \in Bijection(DOMAIN b, FilePlaces(found, j))
            /\ \A n \in DOMAIN b : b[n] = found[q[n]]
        BY BucketParts
      <3>3. FilePlaces(found, j) = {i \in DOMAIN found : c[i] = j}
        BY DEF FilePlaces
      <3>4. parts[k] = deduplicate(b)
        BY <1>3, <3>1
      <3> HIDE DEF b, q, c
      <3>5. ListsClass(b, q, found, J, c, j)
        BY <2>1, <3>2, <3>3 DEF ListsClass
      <3>6. /\ Lifted(c, found) \in [DOMAIN Held(found) -> J]
            /\ Same(Held(b), Part(Held(found), Lifted(c, found), j))
        BY <3>5, ClassHeld
      <3>7. Same(Held(b), Held(parts[k]))
        BY <3>2, <3>4, Deduplicated
      <3> DEFINE t == parts[k]
                 u == [n \in DOMAIN t |-> CHOOSE i \in DOMAIN m : p[i] = <<k, n>>]
      <3>8. ASSUME NEW n \in DOMAIN t
            PROVE  u[n] \in DOMAIN m /\ p[u[n]] = <<k, n>>
        <4>1. \E i \in DOMAIN m : p[i] = <<k, n>>
          BY <1>8, <1>9
        <4> QED BY <4>1
      <3> HIDE DEF u
      <3>9. ASSUME NEW n \in DOMAIN t
            PROVE  m[u[n]] = t[n] /\ d[u[n]] = j
        <4>1. p[u[n]][1] = k /\ p[u[n]][2] = n
          BY <3>8
        <4>2. m[u[n]] = t[n]
          BY <1>6, <3>8, <4>1
        <4>3. t[n].File = j
          BY <1>3, <3>1
        <4> QED BY <3>8, <4>2, <4>3
      <3>10. u \in Bijection(DOMAIN t, {i \in DOMAIN m : d[i] = j})
        <4>1. u \in [DOMAIN t -> {i \in DOMAIN m : d[i] = j}]
          <5>1. u = [n \in DOMAIN t |-> u[n]]
            BY DEF u
          <5> HIDE DEF d, t
          <5> QED BY <3>8, <3>9, <5>1
        <4>2. \A x, y \in DOMAIN t : u[x] = u[y] => x = y
          <5> SUFFICES ASSUME NEW x \in DOMAIN t, NEW y \in DOMAIN t, u[x] = u[y]
                       PROVE  x = y
            OBVIOUS
          <5>1. <<k, x>> = <<k, y>>
            BY <3>8
          <5> QED BY <5>1
        <4>3. \A y \in {i \in DOMAIN m : d[i] = j} : \E x \in DOMAIN t : u[x] = y
          <5> TAKE y \in {i \in DOMAIN m : d[i] = j}
          <5>1. y \in DOMAIN m /\ m[y].File = j
            OBVIOUS
          <5>2a. PICK l \in DOMAIN parts : \E n \in DOMAIN parts[l] : p[y] = <<l, n>> /\ m[y].File = names[l]
            BY <1>10, <5>1
          <5>2. PICK n \in DOMAIN parts[l] : p[y] = <<l, n>> /\ m[y].File = names[l]
            BY <5>2a
          <5>3. l = k
            BY <1>3, <1>4, <3>1, <5>1, <5>2
          <5>4. n \in DOMAIN t /\ p[u[n]] = p[y] /\ u[n] \in DOMAIN m
            BY <3>8, <5>2, <5>3
          <5>5. u[n] = y
            BY <1>9, <5>1, <5>4
          <5> QED BY <5>4, <5>5
        <4> QED BY <4>1, <4>2, <4>3, BijectionParts
      <3>11. ListsClass(t, u, m, J, d, j)
        <4>1. \A n \in DOMAIN t : t[n].Evidence = m[u[n]].Evidence
          BY <3>9
        <4> HIDE DEF d, t
        <4> QED BY <2>1, <3>10, <4>1 DEF ListsClass
      <3> HIDE DEF d, t
      <3>12. Lifted(d, m) \in [DOMAIN Held(m) -> J] /\ Same(Held(t), Part(Held(m), Lifted(d, m), j))
        BY <3>11, ClassHeld
      <3>13. Same(Part(Held(found), Lifted(c, found), j), Held(b))
        BY <3>6, SameSymmetric
      <3>14. Same(Part(Held(found), Lifted(c, found), j), Held(t))
        BY <3>7, <3>13, SameTransitive DEF t
      <3> QED BY <3>6, <3>12, <3>14, SameTransitive
    <2>3. CASE J = {}
      <3>1. DOMAIN found = {} /\ DOMAIN m = {}
        BY <2>1, <2>3
      <3>2. DOMAIN Held(found) = {} /\ DOMAIN Held(m) = {}
        BY <3>1, HeldPlaces
      <3> DEFINE a == Held(found)
                 b == Held(m)
      <3> HIDE DEF a, b
      <3>3. DOMAIN a = {} /\ DOMAIN b = {}
        BY <3>2 DEF a, b
      <3> DEFINE e == [x \in {} |-> x]
      <3>4. e \in Bijection({}, {})
        BY BijectionParts
      <3> HIDE DEF e
      <3>5. Pairing(e, a, b)
        BY <3>3, <3>4 DEF Pairing
      <3> QED BY <3>5 DEF Same, a, b
    <2>4. CASE J # {}
      <3> DEFINE a == Held(found)
                 b == Held(m)
                 lc == Lifted(c, found)
                 ld == Lifted(d, m)
      <3> HIDE DEF c, d
      <3>1. lc \in [DOMAIN a -> J] /\ ld \in [DOMAIN b -> J]
        BY <2>2, <2>4
      <3>2. \A j \in J : Same(Part(a, lc, j), Part(b, ld, j))
        BY <2>2
      <3> HIDE DEF a, b, lc, ld
      <3>3. Same(a, b)
        BY <3>1, <3>2, SameByClass
      <3> QED BY <3>3 DEF a, b
    <2> QED BY <2>3, <2>4
  <1> QED BY <1>5, <1>11, <1>12, <1>13 DEF J

-----------------------------------------------------------------------------
\* The merge and the report: what is numbered is what was merged.

\* A finding as the report holds it: with a normal path, and numbered.
AsReported(f, n) == [f EXCEPT !.File = PathOf[f.File], !.ID = n]

\* What the report keeps of a finding.
LEMMA ReportedFields ==
  ASSUME NEW f \in Findings, NEW n, NEW g, g = AsReported(f, n)
  PROVE  /\ g.Resource = f.Resource /\ g.Normalized_Category = f.Normalized_Category
         /\ g.FindingType = f.FindingType /\ g.Severity = f.Severity /\ g.Confidence = f.Confidence
         /\ g.Source = f.Source /\ g.Line = f.Line /\ g.Path = f.Path /\ g.Text = f.Text
         /\ g.Evidence = f.Evidence /\ g.Fix = f.Fix /\ g.File = PathOf[f.File] /\ g.ID = n
         /\ dedup_key(g) = dedup_key(f)
PROOF
  <1>1. /\ g.Resource = f.Resource /\ g.Normalized_Category = f.Normalized_Category
        /\ g.FindingType = f.FindingType /\ g.Severity = f.Severity /\ g.Confidence = f.Confidence
        /\ g.Source = f.Source /\ g.Line = f.Line /\ g.Path = f.Path /\ g.Text = f.Text
        /\ g.Evidence = f.Evidence /\ g.Fix = f.Fix /\ g.File = PathOf[f.File] /\ g.ID = n
    BY DEF Findings, AsReported
  <1>2. dedup_key(g) = dedup_key(f)
    BY <1>1 DEF dedup_key, is_dedup_eligible
  <1> QED BY <1>1, <1>2

\* With a normal path and a number a finding is as valid as before.
LEMMA ReportedValid ==
  ASSUME NEW f \in Findings, NEW n \in Nat \ {0}, PathOf[f.File] # None, AlmostValid(f)
  PROVE  AsReported(f, n) \in Findings /\ (Valid(AsReported(f, n)) <=> ValidityCritical(f))
PROOF
  <1> DEFINE h == [f EXCEPT !.File = PathOf[f.File]]
             g == AsReported(f, n)
  <1>1. f.File \in DOMAIN PathOf
    BY DEF Findings
  <1>2. /\ PathOf[f.File] \in DOMAIN PathOf \cap Range(Lexical)
        /\ PathOf[f.File] \notin AbsolutePaths \cup {""}
    BY <1>1, PathAssumption
  <1>3. h \in Findings
    <2>1. PathOf[f.File] \in Texts \cap DOMAIN PathOf
      BY <1>2 DEF Texts
    <2> QED BY <2>1 DEF Findings
  <1>4. /\ h.Resource = f.Resource /\ h.Normalized_Category = f.Normalized_Category
        /\ h.FindingType = f.FindingType /\ h.Severity = f.Severity /\ h.Confidence = f.Confidence
        /\ h.Source = f.Source /\ h.Line = f.Line /\ h.Path = f.Path /\ h.Text = f.Text
        /\ h.Evidence = f.Evidence /\ h.Fix = f.Fix /\ h.File = PathOf[f.File]
    BY DEF Findings
  <1>5. g = [h EXCEPT !.ID = n] /\ g \in Findings
    <2>1. g = [h EXCEPT !.ID = n]
      BY DEF Findings, AsReported
    <2>2. [h EXCEPT !.ID = n] \in Findings
      BY <1>3 DEF Findings
    <2> QED BY <2>1, <2>2
  <1> HIDE DEF h, g
  <1>6. ValidityCritical(h) <=> ValidityCritical(f)
    BY <1>4 DEF ValidityCritical
  <1>7. AlmostValid(h)
    <2>1. IsText(h.File)
      <3>1. PathOf[f.File] \in Texts /\ PathOf[f.File] # ""
        BY <1>2 DEF Texts
      <3>2. None \notin Texts /\ Odd \notin Texts
        BY LexicalAssumption, OddAssumption DEF Texts
      <3> QED BY <1>4, <3>1, <3>2 DEF IsText
    <2>2. ValidLocation(h)
      BY <1>2, <1>4, <2>1 DEF ValidLocation, AlmostValid
    <2>3. ConfirmedExcludesAgent(h) /\ ExcerptPresent(h) /\ OtherNotMerged(h)
      BY <1>4 DEF AlmostValid, ConfirmedExcludesAgent, ExcerptPresent, OtherNotMerged
    <2> QED BY <1>4, <2>2, <2>3 DEF AlmostValid
  <1>8. Valid(g) <=> AlmostValid(h) /\ ValidityCritical(h)
    BY <1>3, <1>5, ValidParts
  <1> QED BY <1>5, <1>6, <1>7, <1>8 DEF g

\* The report holds the merged findings, each with a normal path and a number.
LEMMA NumberedMerge ==
  ASSUME NEW m \in Seq(Findings), \A f \in Range(m) : PathOf[f.File] # None
  PROVE  /\ Numbered(m) \in Seq(NormalFindings) /\ Len(Numbered(m)) = Len(m) /\ DOMAIN Numbered(m) = DOMAIN m
         /\ \E p \in Bijection(DOMAIN m, DOMAIN m) : \A i \in DOMAIN m :
              p[i] \in DOMAIN m /\ Numbered(m)[i] = AsReported(m[p[i]], i)
PROOF
  <1>1. Numbered(m) \in Seq(NormalFindings) /\ Len(Numbered(m)) = Len(m)
    BY NumberedTwice
  <1>2. DOMAIN Numbered(m) = DOMAIN m
    <2>1. DOMAIN Numbered(m) = 1..Len(Numbered(m))
      BY <1>1
    <2> QED BY <1>1, <2>1
  <1>3. PICK p \in Bijection(DOMAIN m, DOMAIN m) : \A i \in DOMAIN m :
          Numbered(m)[i] = [m[p[i]] EXCEPT !.File = PathOf[m[p[i]].File], !.ID = i]
    BY NumberedTwice
  <1>4. \A i \in DOMAIN m : p[i] \in DOMAIN m
    <2>1. p \in [DOMAIN m -> DOMAIN m]
      BY <1>3 DEF Bijection, Injection
    <2> QED BY <2>1
  <1>5. \A i \in DOMAIN m : Numbered(m)[i] = AsReported(m[p[i]], i)
    BY <1>3 DEF AsReported
  <1> QED BY <1>1, <1>2, <1>3, <1>4, <1>5

\* One Finding a key in the report, unless two paths are one.
THEOREM OneFindingAKey ==
  ASSUME NEW found \in Seq(SoundFindings), ~IsAFunction(None), ~IsAFunction(Odd),
         \A f \in FilesOf(found) : PathOf[f] # None,
         \A f, g \in FilesOf(found) : PathOf[f] = PathOf[g] => f = g
  PROVE  _dedup_invariant_holds(Numbered(Merged(found)))
PROOF
  <1> DEFINE m == Merged(found)
             R == Numbered(m)
  <1>1. /\ m \in Seq(Findings) /\ \A i \in DOMAIN m : m[i].File \in FilesOf(found)
        /\ \A i, j \in DOMAIN m :
             m[i].File = m[j].File /\ dedup_key(m[i]) = dedup_key(m[j]) /\ dedup_key(m[i]) # NoKey => i = j
    BY MergedWhole
  <1> HIDE DEF m
  <1>2. \A i \in DOMAIN m : m[i] \in Findings /\ PathOf[m[i].File] # None
    BY <1>1
  <1>3. \A f \in Range(m) : PathOf[f.File] # None
    BY <1>2 DEF Range
  <1>4. DOMAIN R = DOMAIN m
    BY <1>1, <1>3, NumberedMerge
  <1>5. PICK p \in Bijection(DOMAIN m, DOMAIN m) : \A i \in DOMAIN m :
          p[i] \in DOMAIN m /\ R[i] = AsReported(m[p[i]], i)
    BY <1>1, <1>3, NumberedMerge
  <1> HIDE DEF R
  <1>6. ASSUME NEW i \in DOMAIN R, NEW j \in DOMAIN R, is_dedup_eligible(R[i]), is_dedup_eligible(R[j]),
               IdentityOf(R[i]) = IdentityOf(R[j])
        PROVE  i = j
    <2> DEFINE f == m[p[i]]
               g == m[p[j]]
    <2>1. f \in Findings /\ g \in Findings /\ p[i] \in DOMAIN m /\ p[j] \in DOMAIN m
      BY <1>2, <1>4, <1>5
    <2>2. R[i] = AsReported(f, i) /\ R[j] = AsReported(g, j)
      BY <1>4, <1>5
    <2> HIDE DEF f, g
    <2>3. /\ R[i].File = PathOf[f.File] /\ R[i].Resource = f.Resource
          /\ R[i].Normalized_Category = f.Normalized_Category
          /\ R[j].File = PathOf[g.File] /\ R[j].Resource = g.Resource
          /\ R[j].Normalized_Category = g.Normalized_Category
      BY <2>1, <2>2, ReportedFields
    <2>4. is_dedup_eligible(f)
      BY <1>6, <2>3 DEF is_dedup_eligible
    <2>5. f.Resource = g.Resource /\ f.Normalized_Category = g.Normalized_Category /\ PathOf[f.File] = PathOf[g.File]
      BY <1>6, <2>3 DEF IdentityOf
    <2>6. dedup_key(f) = dedup_key(g) /\ dedup_key(f) # NoKey
      BY <2>1, <2>4, <2>5, KeyOfFinding
    <2>7. f.File = g.File
      BY <1>1, <2>1, <2>5 DEF f, g
    <2>8. p[i] = p[j]
      BY <1>1, <2>1, <2>6, <2>7 DEF f, g
    <2> QED BY <1>4, <1>5, <2>8, BijectionParts
  <1> QED BY <1>6 DEF _dedup_invariant_holds, R, m

\* Two sequences with the same members hold each as often.
LEMMA SameBags ==
  ASSUME NEW S, NEW a \in Seq(S), NEW b \in Seq(S), Same(a, b)
  PROVE  ToBag(a) = ToBag(b)
PROOF
  <1>1. PICK p : Pairing(p, a, b)
    BY DEF Same
  <1>2. /\ p \in [DOMAIN a -> DOMAIN b]
        /\ \A x, y \in DOMAIN a : p[x] = p[y] => x = y
        /\ \A y \in DOMAIN b : \E x \in DOMAIN a : p[x] = y
        /\ \A x \in DOMAIN a : b[p[x]] = a[x]
    BY <1>1, BijectionParts DEF Pairing
  <1>3. Range(a) = Range(b)
    BY <1>2 DEF Range
  <1>4. ASSUME NEW x \in Range(a)
        PROVE  Cardinality({i \in DOMAIN a : a[i] = x}) = Cardinality({i \in DOMAIN b : b[i] = x})
    <2> DEFINE A == {i \in DOMAIN a : a[i] = x}
               B == {i \in DOMAIN b : b[i] = x}
               q == [i \in A |-> p[i]]
    <2>1. IsFiniteSet(A)
      <3>1. DOMAIN a = 1..Len(a) /\ Len(a) \in Nat
        OBVIOUS
      <3>2. 1 \in Int /\ Len(a) \in Int
        BY <3>1
      <3>3. IsFiniteSet(DOMAIN a)
        BY <3>1, <3>2, FS_Interval
      <3>4. A \subseteq DOMAIN a
        OBVIOUS
      <3> HIDE DEF A
      <3> QED BY <3>3, <3>4, FS_Subset
    <2>2. q \in Bijection(A, B)
      <3>1. q \in [A -> B]
        BY <1>2
      <3>2. \A i, j \in A : q[i] = q[j] => i = j
        BY <1>2
      <3>3. \A j \in B : \E i \in A : q[i] = j
        BY <1>2
      <3> HIDE DEF A, B, q
      <3> QED BY <3>1, <3>2, <3>3, BijectionParts
    <2> HIDE DEF A, B, q
    <2>3. ExistsBijection(A, B)
      BY <2>2 DEF ExistsBijection
    <2>4. Cardinality(A) = Cardinality(B)
      BY <2>1, <2>3, FS_Bijection
    <2> QED BY <2>4 DEF A, B
  <1> QED BY <1>3, <1>4 DEF ToBag

\* What a piece of evidence states, apart from its excerpt.
FactOf(e) == <<e.Source, e.RuleId, e.Detail>>
FactLists(fs) == [i \in DOMAIN fs |-> Facts(fs[i])]
HeldFacts(fs) == [x \in DOMAIN Held(fs) |-> FactOf(Held(fs)[x])]

\* The facts of findings are those of the evidence they hold.
LEMMA AllFactsHeld ==
  ASSUME NEW fs \in Seq(Findings)
  PROVE  /\ AllFacts(fs) \in Seq({FactOf(e) : e \in EvidenceEntries})
         /\ Same(AllFacts(fs), HeldFacts(fs))
PROOF
  <1> DEFINE S == {FactOf(e) : e \in EvidenceEntries}
             L == FactLists(fs)
  <1>1. \A i \in DOMAIN fs : fs[i].Evidence \in Seq(EvidenceEntries)
    <2>1. \A i \in DOMAIN fs : fs[i] \in Findings
      OBVIOUS
    <2> QED BY <2>1 DEF Findings
  <1>2. ASSUME NEW i \in DOMAIN fs
        PROVE  /\ L[i] \in Seq(S) /\ DOMAIN L[i] = DOMAIN fs[i].Evidence
               /\ \A n \in DOMAIN fs[i].Evidence : L[i][n] = FactOf(fs[i].Evidence[n])
    <2> DEFINE es == fs[i].Evidence
    <2>1. es \in Seq(EvidenceEntries)
      BY <1>1
    <2>2. L[i] = [n \in DOMAIN es |-> FactOf(es[n])]
      BY DEF FactLists, Facts, FactOf
    <2> HIDE DEF es, L
    <2>3. PICK N \in Nat : DOMAIN es = 1..N
      BY <2>1
    <2>4. \A n \in 1..N : es[n] \in EvidenceEntries
      BY <2>1, <2>3
    <2>5. L[i] \in [1..N -> S]
      BY <2>2, <2>3, <2>4
    <2>6. L[i] \in Seq(S)
      <3> HIDE DEF S
      <3> QED BY <2>5
    <2> QED BY <2>2, <2>6 DEF es
  <1>3. L \in Seq(Seq(S))
    <2>1. PICK N \in Nat : DOMAIN fs = 1..N
      OBVIOUS
    <2>2. DOMAIN L = 1..N /\ L = [i \in 1..N |-> L[i]]
      BY <2>1 DEF FactLists
    <2> HIDE DEF L, S
    <2>3. L \in [1..N -> Seq(S)]
      BY <1>2, <2>1, <2>2
    <2> QED BY <2>3
  <1>4. AllFacts(fs) = FlattenSeq(L)
    BY DEF AllFacts, FactLists
  <1>5. Same(FlattenSeq(L), Sum(L)) /\ FlattenSeq(L) \in Seq(S)
    <2> HIDE DEF L, S
    <2> QED BY <1>3, FlattenSame
  <1>6. Sum(L) = HeldFacts(fs)
    <2>1. DOMAIN L = DOMAIN fs
      BY DEF FactLists
    <2>2. DOMAIN Sum(L) = UNION {{j} \X (DOMAIN L[j]) : j \in DOMAIN L}
      BY DEF Sum
    <2>3. \A x : x \in DOMAIN Held(fs) <=> \E i \in DOMAIN fs : \E n \in DOMAIN fs[i].Evidence : x = <<i, n>>
      BY HeldPlaces
    <2>4. \A x : x \in DOMAIN Sum(L) <=> \E i \in DOMAIN fs : \E n \in DOMAIN fs[i].Evidence : x = <<i, n>>
      <3>1. \A i \in DOMAIN fs : DOMAIN L[i] = DOMAIN fs[i].Evidence
        BY <1>2
      <3> HIDE DEF L
      <3>2. \A x : x \in DOMAIN Sum(L) <=> \E i \in DOMAIN fs : x \in {i} \X (DOMAIN fs[i].Evidence)
        BY <2>1, <2>2, <3>1
      <3>3. \A i, x : x \in {i} \X (DOMAIN fs[i].Evidence) <=> \E n \in DOMAIN fs[i].Evidence : x = <<i, n>>
        OBVIOUS
      <3> QED BY <3>2, <3>3
    <2>5. DOMAIN Sum(L) = DOMAIN Held(fs)
      BY <2>3, <2>4
    <2>6. ASSUME NEW x \in DOMAIN Held(fs)
          PROVE  Sum(L)[x] = FactOf(Held(fs)[x])
      <3>1. PICK i \in DOMAIN fs : \E n \in DOMAIN fs[i].Evidence : x = <<i, n>>
        BY <2>3
      <3>2. PICK n \in DOMAIN fs[i].Evidence : x = <<i, n>>
        BY <3>1
      <3>3. Held(fs)[x] = fs[i].Evidence[n]
        BY <3>2, HeldPlaces
      <3>4. Sum(L)[x] = L[x[1]][x[2]]
        BY <2>5 DEF Sum
      <3>5. x[1] = i /\ x[2] = n
        BY <3>2
      <3> HIDE DEF L
      <3> QED BY <1>2, <3>2, <3>3, <3>4, <3>5
    <2>7. Sum(L) = [x \in DOMAIN Sum(L) |-> Sum(L)[x]]
      BY DEF Sum
    <2> HIDE DEF L
    <2> QED BY <2>5, <2>6, <2>7 DEF HeldFacts
  <1> QED BY <1>4, <1>5, <1>6

\* The same evidence states the same facts, as often.
LEMMA SameFacts ==
  ASSUME NEW fs \in Seq(Findings), NEW gs \in Seq(Findings), Same(Held(fs), Held(gs))
  PROVE  ToBag(AllFacts(fs)) = ToBag(AllFacts(gs))
PROOF
  <1>1. PICK p : Pairing(p, Held(fs), Held(gs))
    BY DEF Same
  <1>2. Pairing(p, HeldFacts(fs), HeldFacts(gs))
    <2>1. DOMAIN HeldFacts(fs) = DOMAIN Held(fs) /\ DOMAIN HeldFacts(gs) = DOMAIN Held(gs)
      BY DEF HeldFacts
    <2>2. p \in Bijection(DOMAIN Held(fs), DOMAIN Held(gs)) /\ \A x \in DOMAIN Held(fs) : Held(gs)[p[x]] = Held(fs)[x]
      BY <1>1 DEF Pairing
    <2>3. \A x \in DOMAIN Held(fs) : p[x] \in DOMAIN Held(gs)
      BY <2>2 DEF Bijection, Injection
    <2>4. \A x \in DOMAIN Held(fs) : HeldFacts(gs)[p[x]] = HeldFacts(fs)[x]
      BY <2>2, <2>3 DEF HeldFacts
    <2> QED BY <2>1, <2>2, <2>4 DEF Pairing
  <1>3. Same(HeldFacts(fs), HeldFacts(gs))
    BY <1>2 DEF Same
  <1> DEFINE S == {FactOf(e) : e \in EvidenceEntries}
  <1>4. AllFacts(fs) \in Seq(S) /\ AllFacts(gs) \in Seq(S)
    BY AllFactsHeld
  <1>5. Same(AllFacts(fs), HeldFacts(gs))
    BY <1>3, AllFactsHeld, SameTransitive
  <1>6. Same(HeldFacts(gs), AllFacts(gs))
    BY AllFactsHeld, SameSymmetric
  <1>7. Same(AllFacts(fs), AllFacts(gs))
    BY <1>5, <1>6, SameTransitive
  <1> HIDE DEF S
  <1> QED BY <1>4, <1>7, SameBags

\* The findings a merge is made of are those of its key in its bucket.
LEMMA MergedWithIs ==
  ASSUME NEW found \in Seq(SoundFindings), NEW f \in Range(found)
  PROVE  /\ MergedWith(found, f) # <<>>
         /\ Range(MergedWith(found, f)) = Range(GroupOf(Bucket(found, f.File), dedup_key(f)))
PROOF
  <1> DEFINE K == dedup_key(f)
             b == Bucket(found, f.File)
             I == {i \in DOMAIN found : found[i].File = f.File /\ dedup_key(found[i]) = K}
             J == KeyPlaces(b, K)
  <1>1. MergedWith(found, f) = Picked(found, I)
    BY DEF MergedWith, Chosen, SortedSet, Picked, PlacesIn, PlaceOrder
  <1>2. b \in Seq(SoundFindings) /\ \A h : h \in Range(b) <=> h \in Range(found) /\ h.File = f.File
    BY BucketParts
  <1>3. I \in SUBSET DOMAIN found
    OBVIOUS
  <1>4. Range(Picked(found, I)) = {found[i] : i \in I} /\ (Picked(found, I) = <<>> <=> I = {})
    <2> HIDE DEF I
    <2> QED BY <1>3, PickedPlaces
  <1>5. I # {}
    BY DEF Range
  <1> HIDE DEF b
  <1>6. J \in SUBSET DOMAIN b
    BY DEF KeyPlaces
  <1>7. Range(GroupOf(b, K)) = {b[j] : j \in J}
    <2> HIDE DEF J
    <2>1. Range(Picked(b, J)) = {b[j] : j \in J}
      BY <1>2, <1>6, PickedPlaces
    <2> QED BY <2>1 DEF GroupOf, J
  <1>8. \A h : h \in {found[i] : i \in I} <=> h \in Range(found) /\ h.File = f.File /\ dedup_key(h) = K
    BY DEF Range
  <1>9. \A h : h \in {b[j] : j \in J} <=> h \in Range(b) /\ dedup_key(h) = K
    BY DEF Range, KeyPlaces
  <1>10. {found[i] : i \in I} = {b[j] : j \in J}
    <2> HIDE DEF I, J, K
    <2> QED BY <1>2, <1>8, <1>9
  <1> QED BY <1>1, <1>4, <1>5, <1>7, <1>10 DEF b

\* What a merge is held against depends only on which findings it was made of.
LEMMA MembersDecide ==
  ASSUME NEW a, NEW c, NEW g, NEW h, a # <<>>, Range(a) = Range(c),
         g.Source = h.Source, g.Severity = h.Severity, g.Confidence = h.Confidence
  PROVE  /\ StandsFor(c, h) => StandsFor(a, g)
         /\ CriticalWithoutRule(c) => CriticalWithoutRule(a)
BY DEF StandsFor, CriticalWithoutRule

\* A Finding of the report stands for what it was made of.
LEMMA FaithfulMember ==
  ASSUME NEW found \in Seq(SoundFindings), ~IsAFunction(None), ~IsAFunction(Odd),
         NEW i \in DOMAIN Merged(found), PathOf[Merged(found)[i].File] # None,
         NEW n, NEW g, g = AsReported(Merged(found)[i], n)
  PROVE  FaithfulMerge(found, g)
PROOF
  <1> DEFINE m == Merged(found)
             h == m[i]
             K == dedup_key(h)
  <1>1. /\ m \in Seq(Findings)
        /\ K = NoKey => h \in Range(found)
        /\ K # NoKey => /\ GroupOf(Bucket(found, h.File), K) # <<>>
                        /\ Represents(h, GroupOf(Bucket(found, h.File), K), K)
    BY MergedWhole
  <1>2. h \in Findings /\ PathOf[h.File] # None /\ g = AsReported(h, n)
    BY <1>1
  <1> HIDE DEF m, h
  <1>3. /\ g.Source = h.Source /\ g.Severity = h.Severity /\ g.Confidence = h.Confidence
        /\ g.File = PathOf[h.File] /\ dedup_key(g) = K
    BY <1>2, ReportedFields
  <1>4. CASE K = NoKey
    <2>1. h.File \in DOMAIN PathOf
      BY <1>2 DEF Findings
    <2>2. PathOf[g.File] = PathOf[h.File]
      BY <1>2, <1>3, <2>1, PathAssumption
    <2>3. Body(g) = [g EXCEPT !.ID = UNASSIGNED_ID, !.File = PathOf[h.File]]
      BY <2>2 DEF Body
    <2>4. Body(h) = [h EXCEPT !.ID = UNASSIGNED_ID, !.File = PathOf[h.File]]
      BY DEF Body
    <2>5. \A x : [AsReported(h, n) EXCEPT !.ID = UNASSIGNED_ID, !.File = x] =
                [h EXCEPT !.ID = UNASSIGNED_ID, !.File = x]
      <3>1. PICK y : y = PathOf[h.File]
        OBVIOUS
      <3>2. AsReported(h, n) = [h EXCEPT !.File = y, !.ID = n]
        BY <3>1 DEF AsReported
      <3> QED BY <1>2, <3>2 DEF Findings
    <2>6. Body(g) = Body(h)
      BY <1>2, <2>3, <2>4, <2>5
    <2> QED BY <1>1, <1>3, <1>4, <2>6 DEF FaithfulMerge
  <1>5. CASE K # NoKey
    <2> DEFINE b == Bucket(found, h.File)
               group == GroupOf(b, K)
    <2>1. Represents(h, group, K)
      BY <1>1, <1>5
    <2>2. b \in Seq(SoundFindings) /\ \A f \in Range(b) : f \in Range(found) /\ f.File = h.File
      BY BucketParts
    <2>3. \A f \in Range(group) : dedup_key(f) = K /\ f \in Range(b)
      <3> HIDE DEF b
      <3> QED BY <2>2, Groups
    <2>4. PICK f \in Range(group) : h.File = f.File
      BY <2>1 DEF Represents
    <2>5. f \in Range(found) /\ f.File = h.File /\ dedup_key(f) = K
      BY <2>2, <2>3, <2>4
    <2>6. MergedWith(found, f) # <<>> /\ Range(MergedWith(found, f)) = Range(group)
      BY <2>5, MergedWithIs
    <2>7. StandsFor(group, h)
      BY <2>1 DEF Represents
    <2> HIDE DEF b, group, K
    <2>8. StandsFor(MergedWith(found, f), g)
      BY <1>3, <2>6, <2>7, MembersDecide
    <2>9. PathOf[f.File] = g.File /\ dedup_key(f) = dedup_key(g)
      BY <1>3, <2>5
    <2> QED BY <1>3, <1>5, <2>5, <2>8, <2>9 DEF FaithfulMerge
  <1> QED BY <1>4, <1>5

\* The paths of the merged findings are those that were found.
LEMMA MergedPaths ==
  ASSUME NEW found \in Seq(SoundFindings), ~IsAFunction(None), ~IsAFunction(Odd),
         \A f \in Range(found) : PathOf[f.File] # None
  PROVE  \A f \in Range(Merged(found)) : PathOf[f.File] # None
PROOF
  <1> DEFINE m == Merged(found)
  <1>1. m \in Seq(Findings) /\ \A i \in DOMAIN m : m[i].File \in FilesOf(found)
    BY MergedWhole
  <1> HIDE DEF m
  <1>2. \A i \in DOMAIN m : PathOf[m[i].File] # None
    BY <1>1 DEF FilesOf
  <1>3. \A f \in Range(m) : PathOf[f.File] # None
    BY <1>2 DEF Range
  <1> QED BY <1>3 DEF m

\* A report whose paths are all normal is lost only to a merged finding that is
\* Validity and CRITICAL without a RuleId.
THEOREM OnlyLoss ==
  ASSUME NEW found \in Seq(SoundFindings), ~IsAFunction(None), ~IsAFunction(Odd),
         \A f \in Range(found) : PathOf[f.File] # None, NEW meta \in Metas,
         \A p \in Range(meta.files) \cup Range(meta.synthesized) : PathOf[p] # None,
         DistinctTools(meta.tools), ~Buildable(Merged(found), meta)
  PROVE  \E f \in Range(found) : dedup_key(f) # NoKey /\ CriticalWithoutRule(MergedWith(found, f))
PROOF
  <1> DEFINE m == Merged(found)
             R == Numbered(m)
  <1>1. /\ m \in Seq(Findings) /\ \A i \in DOMAIN m : AlmostValid(m[i])
        /\ \A i \in DOMAIN m : dedup_key(m[i]) = NoKey => m[i] \in Range(found)
        /\ \A i \in DOMAIN m : dedup_key(m[i]) # NoKey =>
              /\ GroupOf(Bucket(found, m[i].File), dedup_key(m[i])) # <<>>
              /\ Represents(m[i], GroupOf(Bucket(found, m[i].File), dedup_key(m[i])), dedup_key(m[i]))
    BY MergedWhole
  <1>2. \A f \in Range(m) : PathOf[f.File] # None
    BY MergedPaths
  <1> HIDE DEF m
  <1>3. \A f \in Range(m) : f.Severity \in DOMAIN SEVERITY_ORDER
    <2>1. \A f \in Range(m) : f \in Findings
      BY <1>1 DEF Range
    <2> QED BY <2>1 DEF Findings
  <1>4. meta.synthesis \in CDK_SYNTHESIS_OUTCOMES /\ Range(meta.sources) \subseteq DOMAIN SOURCE_ORDER
    <2>1. meta.synthesis \in CDK_SYNTHESIS_OUTCOMES /\ meta.sources \in Seq(DOMAIN SOURCE_ORDER)
      BY DEF Metas
    <2> QED BY <2>1 DEF Range
  <1>5. PICK g \in Range(R) : ~Valid(g)
    BY <1>2, <1>3, <1>4 DEF Buildable, m
  <1>6. PICK p \in Bijection(DOMAIN m, DOMAIN m) : \A i \in DOMAIN m :
          p[i] \in DOMAIN m /\ R[i] = AsReported(m[p[i]], i)
    BY <1>1, <1>2, NumberedMerge
  <1>7. DOMAIN R = DOMAIN m /\ \A i \in DOMAIN m : i \in Nat \ {0}
    BY <1>1, <1>2, NumberedMerge
  <1> HIDE DEF R
  <1>8. PICK i \in DOMAIN m : g = R[i]
    BY <1>5, <1>7 DEF Range
  <1> DEFINE h == m[p[i]]
             K == dedup_key(h)
  <1>9. h \in Findings /\ PathOf[h.File] # None /\ AlmostValid(h) /\ g = AsReported(h, i) /\ i \in Nat \ {0}
    <2>1. p[i] \in DOMAIN m /\ g = AsReported(h, i) /\ i \in Nat \ {0}
      BY <1>6, <1>7, <1>8
    <2>2. h \in Findings /\ AlmostValid(h)
      BY <1>1, <2>1
    <2>3. h \in Range(m)
      BY <2>1 DEF Range
    <2> QED BY <1>2, <2>1, <2>2, <2>3
  <1>10. /\ K = NoKey => h \in Range(found)
         /\ K # NoKey => Represents(h, GroupOf(Bucket(found, h.File), K), K)
    BY <1>1, <1>6
  <1> HIDE DEF h
  <1>11. ~ValidityCritical(h)
    BY <1>5, <1>9, ReportedValid
  <1>12. K # NoKey
    <2> SUFFICES ASSUME K = NoKey PROVE FALSE
      OBVIOUS
    <2>1. h \in Findings /\ Sound(h)
      <3>1. h \in SoundFindings
        BY <1>10 DEF Range
      <3> QED BY <3>1 DEF SoundFindings
    <2>2. 1 \in Nat \ {0}
      OBVIOUS
    <2> QED BY <1>11, <2>1, <2>2, ValidParts
  <1> DEFINE b == Bucket(found, h.File)
             group == GroupOf(b, K)
  <1>13. CriticalWithoutRule(group) /\ \E f \in Range(group) : h.File = f.File
    BY <1>10, <1>11, <1>12 DEF Represents
  <1>14. b \in Seq(SoundFindings) /\ \A f \in Range(b) : f \in Range(found) /\ f.File = h.File
    BY BucketParts
  <1>15. \A f \in Range(group) : dedup_key(f) = K /\ f \in Range(b)
    <2> HIDE DEF b
    <2> QED BY <1>14, Groups
  <1>16. PICK f \in Range(group) : h.File = f.File
    BY <1>13
  <1>17. f \in Range(found) /\ f.File = h.File /\ dedup_key(f) = K
    BY <1>14, <1>15, <1>16
  <1>18. MergedWith(found, f) # <<>> /\ Range(MergedWith(found, f)) = Range(group)
    BY <1>17, MergedWithIs
  <1> HIDE DEF b, group, K
  <1>19. CriticalWithoutRule(MergedWith(found, f))
    BY <1>13, <1>18, MembersDecide
  <1> QED BY <1>12, <1>17, <1>19

\* The report holds the evidence that was found, each entry as often.
THEOREM EvidenceKept ==
  ASSUME NEW found \in Seq(SoundFindings), ~IsAFunction(None), ~IsAFunction(Odd),
         \A f \in Range(Merged(found)) : PathOf[f.File] # None
  PROVE  ToBag(AllFacts(found)) = ToBag(AllFacts(Numbered(Merged(found))))
PROOF
  <1> DEFINE m == Merged(found)
             R == Numbered(m)
  <1>1. m \in Seq(Findings) /\ Same(Held(found), Held(m))
    BY MergedWhole
  <1>2. \A f \in Range(m) : PathOf[f.File] # None
    OBVIOUS
  <1> HIDE DEF m
  <1>3. PICK p \in Bijection(DOMAIN m, DOMAIN m) : \A i \in DOMAIN m :
          p[i] \in DOMAIN m /\ R[i] = AsReported(m[p[i]], i)
    BY <1>1, <1>2, NumberedMerge
  <1>4. R \in Seq(NormalFindings) /\ DOMAIN R = DOMAIN m
    BY <1>1, <1>2, NumberedMerge
  <1>5. R \in Seq(Findings)
    <2>1. NormalFindings \subseteq Findings
      BY DEF NormalFindings
    <2> HIDE DEF R
    <2> QED BY <1>4, <2>1
  <1> HIDE DEF R
  <1>6. \A i \in DOMAIN R : R[i].Evidence = m[p[i]].Evidence
    <2> TAKE i \in DOMAIN R
    <2>1. m[p[i]] \in Findings /\ R[i] = AsReported(m[p[i]], i)
      BY <1>1, <1>3, <1>4
    <2> QED BY <2>1, ReportedFields
  <1>7. Same(Held(R), Held(m))
    BY <1>3, <1>4, <1>6, HeldReordered
  <1>8. Same(Held(found), Held(R))
    BY <1>1, <1>7, SameSymmetric, SameTransitive
  <1>9. found \in Seq(Findings)
    <2>1. SoundFindings \subseteq Findings
      BY DEF SoundFindings
    <2> QED BY <2>1
  <1>10. ToBag(AllFacts(found)) = ToBag(AllFacts(R))
    BY <1>5, <1>8, <1>9, SameFacts
  <1> QED BY <1>10 DEF R, m

-----------------------------------------------------------------------------
\* The review: the invariant, and what it says of a published report.

\* The target, the Sources and the tools of a report are those of its review.
LEMMA MetaTyped ==
  ASSUME Collected, NEW s \in SIDES
  PROVE  /\ Meta(s) \in Metas /\ DistinctTools(Meta(s).tools)
         /\ \A p \in Range(Meta(s).files) \cup Range(Meta(s).synthesized) : PathOf[p] # None
         /\ collected[s] \in Seq(SoundFindings) /\ failures[s] \in Seq(Errors)
PROOF
  <1> DEFINE sources == IF payload = None THEN enabled[s] ELSE Append(enabled[s], AGENT_SOURCE)
  <1>1. /\ enabled[s] \in Seq(DOMAIN SOURCE_ORDER) /\ collected[s] \in Seq(SoundFindings)
        /\ failures[s] \in Seq(Errors) /\ tools[s] \in Seq(Tools) /\ DistinctTools(tools[s])
    BY DEF Collected
  <1>2. sources \in Seq(DOMAIN SOURCE_ORDER)
    BY <1>1, SourceNumbers
  <1>3. /\ Meta(s).files = <<FileName>> /\ Meta(s).synthesized = <<>> /\ Meta(s).tools = tools[s]
        /\ Meta(s) = [files |-> <<FileName>>, synthesized |-> <<>>, synthesis |-> "not_applicable",
                      tools |-> tools[s], sources |-> sources]
    BY DEF Meta
  <1>4. <<FileName>> \in Seq(DOMAIN PathOf) /\ <<>> \in Seq(DOMAIN PathOf) /\ PathOf[FileName] # None
    <2>1. FileName \in DOMAIN PathOf /\ FileName \in Texts /\ PathOf[FileName] = FileName
      BY FileAssumption
    <2>2. None \notin Texts
      BY LexicalAssumption DEF Texts
    <2> QED BY <2>1, <2>2
  <1> HIDE DEF sources
  <1>5. Meta(s) \in Metas
    BY <1>1, <1>2, <1>3, <1>4 DEF Metas, CDK_SYNTHESIS_OUTCOMES
  <1>6. \A p \in Range(Meta(s).files) \cup Range(Meta(s).synthesized) : PathOf[p] # None
    BY <1>3, <1>4 DEF Range
  <1> QED BY <1>1, <1>3, <1>5, <1>6

\* A report that is printed is one that can be built.
LEMMA PrintedReport ==
  ASSUME NEW s \in SIDES
  PROVE  Printed(s) # None =>
           /\ Buildable(Merged(collected[s]), Meta(s))
           /\ Printed(s) = build_report(Merged(collected[s]), failures[s], Meta(s))
BY DEF Printed

\* A report that can be built is printed.
LEMMA LostReport ==
  ASSUME NEW s \in SIDES, ~IsAFunction(None), Printed(s) = None
  PROVE  ~Buildable(Merged(collected[s]), Meta(s))
PROOF
  <1>1. build_report(Merged(collected[s]), failures[s], Meta(s)) # None
    <2> DEFINE r == build_report(Merged(collected[s]), failures[s], Meta(s))
    <2>1. IsAFunction(r)
      BY DEF build_report, IsAFunction
    <2> QED BY <2>1
  <1> QED BY <1>1 DEF Printed

\* The reports of both reviews, where they are published.
LEMMA Published ==
  ASSUME ReviewInv, stage = "publish", NEW s \in SIDES
  PROVE  reports[s] = Printed(s)
BY DEF ReviewInv, ReportsMade, SIDES

\* A review's findings have one path, unless an agent spelled it in its own way.
LEMMA OnePath ==
  ASSUME NEW s \in SIDES, ~Respelled(s), Collected
  PROVE  /\ \A f \in FilesOf(collected[s]) : PathOf[f] # None
         /\ \A f, g \in FilesOf(collected[s]) : PathOf[f] = PathOf[g] => f = g
PROOF
  <1>1. \A f \in FilesOf(collected[s]) : f = FileName
    BY DEF Respelled, FilesOf
  <1>2. PathOf[FileName] # None
    BY FileAssumption, LexicalAssumption DEF Texts
  <1> QED BY <1>1, <1>2

\* What is published is accepted, where the invariant holds.
LEMMA AcceptedWhere ==
  ASSUME ReviewInv, ~IsAFunction(None), ~IsAFunction(Odd)
  PROVE  PublishedIsAccepted
PROOF
  <1> SUFFICES ASSUME stage = "publish", NEW s \in SIDES, reports[s] # None
               PROVE  /\ Rejection(reports[s]) = IF Len(reports[s].findings) > MAX_REPORT_FINDINGS
                                                 THEN "report_finding_limit_exceeded" ELSE None
                      /\ IntegrityFailures(reports[s]) \subseteq {c \in {"dedup_invariant_violated"} : Respelled(s)}
    BY DEF PublishedIsAccepted
  <1> DEFINE fs == Merged(collected[s])
             es == failures[s]
             meta == Meta(s)
             r == build_report(fs, es, meta)
  <1>1. Buildable(fs, meta) /\ reports[s] = r
    BY Published, PrintedReport
  <1>2. meta \in Metas /\ collected[s] \in Seq(SoundFindings) /\ es \in Seq(Errors)
    BY MetaTyped DEF ReviewInv
  <1>3. fs \in Seq(Findings)
    BY <1>2, MergedWhole
  <1>4. \A f \in Range(fs) : PathOf[f.File] # None
    BY <1>1 DEF Buildable
  <1>5. ~Respelled(s) => _dedup_invariant_holds(Numbered(fs))
    BY <1>2, OneFindingAKey, OnePath DEF ReviewInv
  <1>6. r.findings = Numbered(fs)
    BY DEF build_report
  <1> HIDE DEF fs, es, meta, r
  <1>7. Rejection(r) = IF Len(fs) > MAX_REPORT_FINDINGS THEN "report_finding_limit_exceeded" ELSE None
    BY <1>1, <1>2, <1>3, WellFormed DEF r
  <1>8. Len(Numbered(fs)) = Len(fs)
    BY <1>3, <1>4, NumberedTwice
  <1>9. _rebuild_matches(r)
    BY <1>1, <1>2, <1>3, Rebuilt DEF r
  <1>10. IntegrityFailures(r) \subseteq {c \in {"dedup_invariant_violated"} : Respelled(s)}
    BY <1>5, <1>6, <1>9 DEF IntegrityFailures
  <1> QED BY <1>1, <1>6, <1>7, <1>8, <1>10

\* The merge is faithful, where the invariant holds.
LEMMA FaithfulWhere ==
  ASSUME ReviewInv, ~IsAFunction(None), ~IsAFunction(Odd)
  PROVE  MergeIsFaithful
PROOF
  <1> SUFFICES ASSUME stage = "publish", NEW s \in SIDES
               PROVE  IF reports[s] = None
                      THEN \E f \in Range(collected[s]) :
                             \/ PathOf[f.File] = None
                             \/ dedup_key(f) # NoKey /\ CriticalWithoutRule(MergedWith(collected[s], f))
                      ELSE /\ \A g \in Range(reports[s].findings) : FaithfulMerge(collected[s], g)
                           /\ ToBag(AllFacts(collected[s])) = ToBag(AllFacts(reports[s].findings))
    BY DEF MergeIsFaithful
  <1> DEFINE raw == collected[s]
             m == Merged(raw)
             meta == Meta(s)
  <1>1. reports[s] = Printed(s)
    BY Published
  <1>2. /\ meta \in Metas /\ DistinctTools(meta.tools) /\ raw \in Seq(SoundFindings)
        /\ \A p \in Range(meta.files) \cup Range(meta.synthesized) : PathOf[p] # None
    BY MetaTyped DEF ReviewInv
  <1>3. CASE reports[s] = None
    <2>1. ~Buildable(m, meta)
      BY <1>1, <1>3, LostReport
    <2> SUFFICES ASSUME \A f \in Range(raw) : PathOf[f.File] # None
                 PROVE  \E f \in Range(raw) : dedup_key(f) # NoKey /\ CriticalWithoutRule(MergedWith(raw, f))
      BY <1>3
    <2> HIDE DEF raw, meta
    <2> QED BY <1>2, <2>1, OnlyLoss
  <1>4. CASE reports[s] # None
    <2>1. Buildable(m, meta) /\ reports[s] = build_report(m, failures[s], meta)
      BY <1>1, <1>4, PrintedReport
    <2>2. reports[s].findings = Numbered(m)
      BY <2>1 DEF build_report
    <2>3. \A f \in Range(m) : PathOf[f.File] # None
      BY <2>1 DEF Buildable
    <2> HIDE DEF raw, meta
    <2>4. ToBag(AllFacts(raw)) = ToBag(AllFacts(Numbered(m)))
      BY <1>2, <2>3, EvidenceKept
    <2>5. m \in Seq(Findings)
      BY <1>2, MergedWhole
    <2>6. ASSUME NEW g \in Range(Numbered(m))
          PROVE  FaithfulMerge(raw, g)
      <3> HIDE DEF m
      <3>1. PICK p \in Bijection(DOMAIN m, DOMAIN m) : \A i \in DOMAIN m :
              p[i] \in DOMAIN m /\ Numbered(m)[i] = AsReported(m[p[i]], i)
        BY <2>3, <2>5, NumberedMerge
      <3>2. DOMAIN Numbered(m) = DOMAIN m
        BY <2>3, <2>5, NumberedMerge
      <3>3. PICK i \in DOMAIN m : g = Numbered(m)[i]
        BY <3>2 DEF Range
      <3>4. p[i] \in DOMAIN m /\ g = AsReported(m[p[i]], i) /\ PathOf[m[p[i]].File] # None
        BY <2>3, <3>1, <3>3 DEF Range
      <3> QED BY <1>2, <3>4, FaithfulMember DEF m
    <2> QED BY <1>4, <2>2, <2>4, <2>6 DEF raw
  <1> QED BY <1>3, <1>4

\* A review that is over is at no Source.
LEMMA SourcesAreNoSteps ==
  \A x \in DOMAIN SOURCE_ORDER : x \notin {"report", "publish", "compare", "done"}
PROOF
  <1>1. \A i \in 1..7 : SOURCES[i] \notin {"report", "publish", "compare", "done"}
    <2>1. /\ SOURCES[1] = "cfn-lint" /\ SOURCES[2] = "cfn-guard" /\ SOURCES[3] = "IAM Review"
          /\ SOURCES[4] = "Network Review" /\ SOURCES[5] = "Secret Review" /\ SOURCES[6] = "Quality Review"
          /\ SOURCES[7] = "Agent Review"
      BY DEF SOURCES
    <2>2. \A i \in 1..7 : i \in {1, 2, 3, 4, 5, 6, 7}
      OBVIOUS
    <2> QED BY <2>1, <2>2
  <1>2. DOMAIN SOURCES = 1..7
    BY DEF SOURCES
  <1>3. DOMAIN SOURCE_ORDER = Range(SOURCES)
    BY SourceNumbers
  <1> QED BY <1>1, <1>2, <1>3 DEF Range

\* The first review has collected nothing yet.
LEMMA ReviewStarts == ReviewInit => ReviewInv
PROOF
  <1> SUFFICES ASSUME ReviewInit PROVE ReviewInv
    OBVIOUS
  <1>1. DistinctTools(<<>>)
    BY DEF DistinctTools
  <1>2. Collected
    <2>1. \A s \in SIDES : DistinctTools(tools[s])
      BY <1>1 DEF ReviewInit
    <2>2. <<>> \in Seq(SoundFindings) /\ <<>> \in Seq(Errors) /\ <<>> \in Seq(Tools)
      OBVIOUS
    <2> QED BY <2>1, <2>2 DEF ReviewInit, Collected, SIDES
  <1>3. \A x \in DOMAIN SOURCE_ORDER : x \notin {"report", "publish", "compare", "done"}
    BY SourcesAreNoSteps
  <1>4. ReportsMade
    BY <1>3 DEF ReviewInit, ReportsMade
  <1> QED BY <1>2, <1>4 DEF ReviewInv

\* What a report is made of.
LEMMA PrintedFrom ==
  ASSUME NEW s \in SIDES, collected'[s] = collected[s], failures'[s] = failures[s], tools'[s] = tools[s],
         payload' = payload, enabled' = enabled
  PROVE  Printed(s)' = Printed(s)
BY DEF Printed, Meta

\* Every step of a review keeps the invariant.
LEMMA ReviewSteps == ReviewInv /\ [ReviewNext]_reviewVars => ReviewInv'
PROOF
  <1> SUFFICES ASSUME ReviewInv, [ReviewNext]_reviewVars PROVE ReviewInv'
    OBVIOUS
  <1>0. \A x \in DOMAIN SOURCE_ORDER : x \notin {"report", "publish", "compare", "done"}
    BY SourcesAreNoSteps
  <1>1. CASE SourceReports
    <2>1. /\ side \in SIDES /\ side' = side /\ reports' = reports /\ payload' = payload /\ enabled' = enabled
          /\ stage \in DOMAIN SOURCE_ORDER /\ stage' \in DOMAIN SOURCE_ORDER \cup {"report"}
      BY <1>1 DEF SourceReports, ReviewInv, Collected
    <2>2. /\ collected' \in [SIDES -> Seq(SoundFindings)] /\ \A s \in SIDES : s # side => collected'[s] = collected[s]
          /\ failures' \in [SIDES -> Seq(Errors)] /\ \A s \in SIDES : s # side => failures'[s] = failures[s]
          /\ tools' \in [SIDES -> Seq(Tools)] /\ \A s \in SIDES : s # side => tools'[s] = tools[s]
      <3>1. /\ Grows(collected, collected', SoundFindings) /\ Grows(failures, failures', Errors)
            /\ Grows(tools, tools', Tools)
        BY <1>1 DEF SourceReports
      <3>2. /\ collected \in [SIDES -> Seq(SoundFindings)] /\ failures \in [SIDES -> Seq(Errors)]
            /\ tools \in [SIDES -> Seq(Tools)]
        BY DEF ReviewInv, Collected
      <3>3. /\ collected' \in [SIDES -> Seq(SoundFindings)] /\ \A s \in SIDES : s # side => collected'[s] = collected[s]
        BY <2>1, <3>1, <3>2 DEF Grows
      <3>4. /\ failures' \in [SIDES -> Seq(Errors)] /\ \A s \in SIDES : s # side => failures'[s] = failures[s]
        BY <2>1, <3>1, <3>2 DEF Grows
      <3>5. /\ tools' \in [SIDES -> Seq(Tools)] /\ \A s \in SIDES : s # side => tools'[s] = tools[s]
        BY <2>1, <3>1, <3>2 DEF Grows
      <3> QED BY <3>3, <3>4, <3>5
    <2>3. \A s \in SIDES : DistinctTools(tools'[s])
      <3>1. DistinctTools(tools'[side]) /\ \A s \in SIDES : DistinctTools(tools[s])
        BY <1>1 DEF SourceReports, ReviewInv, Collected
      <3> QED BY <2>2, <3>1
    <2>4. Collected'
      BY <2>1, <2>2, <2>3 DEF Collected, ReviewInv
    <2>5. ReportsMade'
      <3>1. stage' \notin {"publish", "compare", "done"}
        BY <1>0, <2>1
      <3>2. ASSUME side' = "head" PROVE reports'["base"] = Printed("base")'
        <4>1. "base" \in SIDES /\ "base" # side /\ reports["base"] = Printed("base")
          BY <2>1, <3>2 DEF SIDES, ReviewInv, ReportsMade
        <4>2. Printed("base")' = Printed("base")
          BY <2>1, <2>2, <4>1, PrintedFrom
        <4> QED BY <2>1, <4>1, <4>2
      <3> QED BY <3>1, <3>2 DEF ReportsMade
    <2> QED BY <2>4, <2>5 DEF ReviewInv
  <1>2. ASSUME NEW first \in DOMAIN SOURCE_ORDER, MakeReport(first) PROVE ReviewInv'
    <2>1. /\ payload' = payload /\ enabled' = enabled /\ collected' = collected /\ failures' = failures
          /\ tools' = tools /\ stage = "report" /\ reports' = [reports EXCEPT ![side] = Printed(side)]
          /\ side = "base" => side' = "head" /\ stage' = first
          /\ side # "base" => side' = side /\ stage' = "publish"
      BY <1>2 DEF MakeReport
    <2>2. side \in SIDES /\ DOMAIN reports = SIDES
      BY DEF ReviewInv, Collected
    <2>3. \A s \in SIDES : Printed(s)' = Printed(s)
      BY <2>1, PrintedFrom
    <2>4. Collected'
      BY <2>1, <2>2 DEF Collected, ReviewInv, SIDES
    <2>5. ReportsMade'
      <3>1. "base" \in SIDES /\ "head" \in SIDES /\ "base" # "head"
        BY DEF SIDES
      <3>2. CASE side = "base"
        <4>1. reports'["base"] = Printed("base") /\ stage' \notin {"publish", "compare", "done"}
          BY <1>0, <2>1, <2>2, <3>1, <3>2
        <4> QED BY <2>3, <3>1, <4>1 DEF ReportsMade
      <3>3. CASE side = "head"
        <4>1. /\ reports'["head"] = Printed("head") /\ reports'["base"] = reports["base"] /\ side' = "head"
              /\ reports["base"] = Printed("base")
          BY <2>1, <2>2, <3>1, <3>3 DEF ReviewInv, ReportsMade
        <4> QED BY <2>3, <3>1, <4>1 DEF ReportsMade
      <3> QED BY <2>2, <3>2, <3>3 DEF SIDES
    <2> QED BY <2>4, <2>5 DEF ReviewInv
  <1>3. ASSUME NEW step \in {"publish", "compare"}, NEW next \in {"compare", "done"}, Proceed(step, next)
        PROVE  ReviewInv'
    <2>1. /\ payload' = payload /\ enabled' = enabled /\ side' = side /\ collected' = collected
          /\ failures' = failures /\ tools' = tools /\ reports' = reports /\ stage = step /\ stage' = next
      BY <1>3 DEF Proceed
    <2>2. \A s \in SIDES : Printed(s)' = Printed(s)
      BY <2>1, PrintedFrom
    <2>3. Collected'
      BY <2>1 DEF Collected, ReviewInv
    <2>4. ReportsMade'
      <3>1. "base" \in SIDES /\ "head" \in SIDES
        BY DEF SIDES
      <3>2. side = "head" /\ reports["head"] = Printed("head") /\ reports["base"] = Printed("base")
        BY <2>1 DEF ReviewInv, ReportsMade
      <3> QED BY <2>1, <2>2, <3>1, <3>2 DEF ReportsMade
    <2> QED BY <2>3, <2>4 DEF ReviewInv
  <1>4. CASE UNCHANGED reviewVars
    <2>1. /\ payload' = payload /\ enabled' = enabled /\ side' = side /\ collected' = collected
          /\ failures' = failures /\ tools' = tools /\ reports' = reports /\ stage' = stage
      BY <1>4 DEF reviewVars
    <2>2. \A s \in SIDES : Printed(s)' = Printed(s)
      BY <2>1, PrintedFrom
    <2>3. Collected'
      BY <2>1 DEF Collected, ReviewInv
    <2>4. ReportsMade'
      <3>1. "base" \in SIDES /\ "head" \in SIDES
        BY DEF SIDES
      <3> QED BY <2>1, <2>2, <3>1 DEF ReportsMade, ReviewInv
    <2> QED BY <2>3, <2>4 DEF ReviewInv
  <1> QED BY <1>1, <1>2, <1>3, <1>4 DEF ReviewNext

\* The invariant of every review.
THEOREM ReviewKeeps == ReviewSpec => []ReviewInv
PROOF
  <1> QED BY ReviewStarts, ReviewSteps, PTL DEF ReviewSpec

\* Every report a review prints is accepted.
THEOREM PublishedIsAcceptedHolds ==
  ASSUME ~IsAFunction(None), ~IsAFunction(Odd)
  PROVE  ReviewSpec => []PublishedIsAccepted
PROOF
  <1>1. ReviewInv => PublishedIsAccepted
    BY AcceptedWhere
  <1> QED BY <1>1, ReviewKeeps, PTL

\* Every merge is faithful.
THEOREM MergeIsFaithfulHolds ==
  ASSUME ~IsAFunction(None), ~IsAFunction(Odd)
  PROVE  ReviewSpec => []MergeIsFaithful
PROOF
  <1>1. ReviewInv => MergeIsFaithful
    BY FaithfulWhere
  <1> QED BY <1>1, ReviewKeeps, PTL

-----------------------------------------------------------------------------
\* What the theorems say.

One(S) == \E x : S = {x}

\* Each of left is in exactly one entry, as its base, each of right as the head of
\* exactly one, and an entry is of one or two of them.
EachOnce(entries, left, right) ==
  /\ \A e \in entries : /\ e.base \in left \cup {None} /\ e.head \in right \cup {None}
                        /\ ~(e.base = None /\ e.head = None)
  /\ \A p \in left : One({e \in entries : e.base = p})
  /\ \A p \in right : One({e \in entries : e.head = p})

\* p is the only one of ps of its Fingerprint, or of its resource and category.
OnlyOne(p, ps) == p \in ps /\ \A q \in ps : Fingerprint(q) = Fingerprint(p) => q = p
OnlyOfItsKey(p, ps) == p \in ps /\ \A q \in ps : IdentityOf(q) = IdentityOf(p) => q = p

Synthesized(file, base, head) == \E r \in {base, head} : file \in Range(r.target.synthesized)

\* What has to be known of both reports before p may be called new or resolved.
Known(p, base, head, declared, corr, hints) ==
  /\ required_declarations(corr) \subseteq declared
  /\ corr \notin {"inconsistent", "unknown"}
  /\ IntegrityFailures(base) = {} /\ IntegrityFailures(head) = {}
  /\ Range(p.Source) # {AGENT_SOURCE} /\ p.Resource \notin hints
  /\ \A source \in Range(p.Source) :
       /\ \A name \in SOURCE_TOOL_DEPENDENCIES[source] :
            {t.version : t \in ToolOf(base, name)} = {t.version : t \in ToolOf(head, name)}
       /\ \A r \in {base, head} :
            /\ Reviewed(r, p.File) /\ source \in Range(r.sources_enabled)
            /\ \A e \in Range(r.errors) : e.source \notin {None, source}
            /\ \A name \in SOURCE_TOOL_DEPENDENCIES[source] : _usable(r, name)
       /\ Synthesized(p.File, base, head) => base.target.synthesis = head.target.synthesis

\* Nothing of others could be p: what is about the same resource and category has
\* another Fingerprint and is matched. Taken is the set of what is matched.
NoCandidate(p, others, taken) ==
  \A q \in others : IdentityOf(q) = IdentityOf(p) => Fingerprint(q) # Fingerprint(p) /\ q \in taken

TakenHeads(entries) == {e.head : e \in {x \in entries : x.classification = "Unchanged"}}
TakenBases(entries) == {e.base : e \in {x \in entries : x.classification = "Unchanged"}}

\* What an entry called Resolved or New rests on.
Earned(entries, left, right, c) ==
  /\ \A e \in entries : e.classification = "Resolved" =>
       /\ e.head = None /\ ambiguous_reasons(c, e.base) = {} /\ c.missing = {}
       /\ NoCandidate(e.base, right, TakenHeads(entries))
  /\ \A e \in entries : e.classification = "New" =>
       /\ e.base = None /\ ambiguous_reasons(c, e.head) = {} /\ c.missing = {}
       /\ NoCandidate(e.head, left, TakenBases(entries))

-----------------------------------------------------------------------------
\* One group.

\* The sides of an entry.
LEMMA MatchedSides ==
  ASSUME NEW matchStage, NEW left, NEW right, NEW base, NEW head
  PROVE  LET e == _matched(matchStage, left, right, base, head)
         IN  /\ e.base = left /\ e.head = right /\ e.stage = matchStage
             /\ e.classification = "Unchanged"
BY DEF _matched, Entry

\* A Finding that occurs once is told from the others of its side by its Fingerprint.
LEMMA SinglesAreAlone ==
  ASSUME NEW ps, IsFiniteSet(ps)
  PROVE  /\ Singles(ps) \subseteq ps
         /\ \A p \in Singles(ps), q \in ps : Fingerprint(p) = Fingerprint(q) => p = q
         /\ \A p \in ps : ~(Occurrences(ps, p) > 1) => p \in Singles(ps)
PROOF
  <1>1. Singles(ps) \subseteq ps
    BY DEF Singles
  <1>2. ASSUME NEW p \in ps
        PROVE  IsFiniteSet({q \in ps : Fingerprint(q) = Fingerprint(p)})
    BY FS_Subset
  <1>3. ASSUME NEW p \in Singles(ps), NEW q \in ps, Fingerprint(p) = Fingerprint(q)
        PROVE  p = q
    <2> DEFINE same == {r \in ps : Fingerprint(r) = Fingerprint(p)}
    <2>1. IsFiniteSet(same) /\ Cardinality(same) = 1
      BY <1>1, <1>2 DEF Singles, Occurrences
    <2>2. p \in same /\ q \in same
      BY <1>1, <1>3
    <2> HIDE DEF same
    <2>3. PICK x : same = {x}
      BY <2>1, FS_Singleton
    <2> QED BY <2>2, <2>3
  <1>4. ASSUME NEW p \in ps, ~(Occurrences(ps, p) > 1)
        PROVE  p \in Singles(ps)
    <2> DEFINE same == {r \in ps : Fingerprint(r) = Fingerprint(p)}
    <2>1. IsFiniteSet(same) /\ p \in same
      BY <1>2
    <2>2. Occurrences(ps, p) = Cardinality(same)
      BY DEF Occurrences
    <2> HIDE DEF same
    <2>3. Cardinality(same) \in Nat /\ Cardinality(same) # 0
      BY <2>1, FS_CardinalityType, FS_EmptySet
    <2>4. Occurrences(ps, p) = 1
      BY <1>4, <2>2, <2>3
    <2> QED BY <2>4 DEF Singles
  <1> QED BY <1>1, <1>3, <1>4

\* No Finding is in two pairs.
LEMMA PairsAreUnique ==
  ASSUME NEW left, NEW right, IsFiniteSet(left), IsFiniteSet(right),
         NEW a \in Counterparts(left, right), NEW b \in Counterparts(left, right)
  PROVE  /\ a = <<a[1], a[2]>> /\ a[1] \in left /\ a[2] \in right
         /\ a[1] = b[1] => a = b
         /\ a[2] = b[2] => a = b
PROOF
  <1>1. /\ a \in Singles(left) \X Singles(right) /\ Fingerprint(a[1]) = Fingerprint(a[2])
        /\ b \in Singles(left) \X Singles(right) /\ Fingerprint(b[1]) = Fingerprint(b[2])
    BY DEF Counterparts
  <1>2. /\ a = <<a[1], a[2]>> /\ a[1] \in Singles(left) /\ a[2] \in Singles(right)
        /\ b = <<b[1], b[2]>> /\ b[1] \in Singles(left) /\ b[2] \in Singles(right)
    BY <1>1
  <1>3. /\ a[1] \in left /\ b[1] \in left /\ a[2] \in right /\ b[2] \in right
    BY <1>2, SinglesAreAlone
  <1>4. a[1] = b[1] => a[2] = b[2]
    BY <1>1, <1>2, <1>3, SinglesAreAlone
  <1>5. a[2] = b[2] => a[1] = b[1]
    BY <1>1, <1>2, <1>3, SinglesAreAlone
  <1> QED BY <1>2, <1>3, <1>4, <1>5

\* The entries of a group: the pair it consists of, or its pairs and what is left
\* of each side.
LEMMA GroupIs ==
  ASSUME NEW left, NEW right, IsFiniteSet(left), IsFiniteSet(right), NEW eligible, NEW c
  PROVE  \/ \E p, q : /\ eligible /\ left = {p} /\ right = {q}
                      /\ _match_group(left, right, eligible, c) = {_matched(1, p, q, c.base, c.head)}
         \/ _match_group(left, right, eligible, c) = ByFingerprint(left, right, c)
PROOF
  <1>1. CASE eligible /\ Cardinality(left) = 1 /\ Cardinality(right) = 1
    <2>1. PICK p : left = {p}
      BY <1>1, FS_Singleton
    <2>q. PICK q : right = {q}
      BY <1>1, FS_Singleton
    <2>2. (CHOOSE x \in left : TRUE) = p /\ (CHOOSE x \in right : TRUE) = q
      BY <2>1, <2>q
    <2>3. _match_group(left, right, eligible, c) = {_matched(1, p, q, c.base, c.head)}
      BY <1>1, <2>2 DEF _match_group
    <2> QED BY <1>1, <2>1, <2>q, <2>3
  <1>2. CASE ~(eligible /\ Cardinality(left) = 1 /\ Cardinality(right) = 1)
    BY <1>2 DEF _match_group
  <1> QED BY <1>1, <1>2

\* Matching by Fingerprint leaves out no Finding and names none twice.
LEMMA FingerprintOnce ==
  ASSUME NEW left, NEW right, IsFiniteSet(left), IsFiniteSet(right), NEW c,
         None \notin left, None \notin right
  PROVE  EachOnce(ByFingerprint(left, right, c), left, right)
PROOF
  <1> DEFINE pairs == Counterparts(left, right)
             restLeft == Unpaired(left, 1, pairs)
             restRight == Unpaired(right, 2, pairs)
             entries == ByFingerprint(left, right, c)
             M(pair) == _matched(2, pair[1], pair[2], c.base, c.head)
             UL(p) == Unmatched(left, p, FALSE, restRight, c)
             UR(p) == Unmatched(right, p, TRUE, restLeft, c)
  <1>0. \A e : One({e}) BY DEF One
  <1>1. entries = {M(pair) : pair \in pairs} \cup {UL(p) : p \in restLeft} \cup {UR(p) : p \in restRight}
    BY DEF ByFingerprint
  <1>2. \A pair : M(pair).base = pair[1] /\ M(pair).head = pair[2]
    BY MatchedSides
  <1>3. \A p : UL(p).base = p /\ UL(p).head = None
    <2> HIDE DEF restLeft, restRight
    <2> QED BY DEF Unmatched, classify, _one_sided, Entry
  <1>4. \A p : UR(p).base = None /\ UR(p).head = p
    <2> HIDE DEF restLeft, restRight
    <2> QED BY DEF Unmatched, classify, _one_sided, Entry
  <1>5. \A a, b \in pairs : /\ a[1] \in left /\ a[2] \in right
                            /\ a[1] = b[1] => a = b
                            /\ a[2] = b[2] => a = b
    BY PairsAreUnique
  <1>6. /\ restLeft = {p \in left : \A pair \in pairs : pair[1] # p}
        /\ restRight = {p \in right : \A pair \in pairs : pair[2] # p}
    BY DEF Unpaired
  <1> HIDE DEF M, UL, UR, pairs, restLeft, restRight, entries
  <1>7. \A e \in entries : /\ e.base \in left \cup {None} /\ e.head \in right \cup {None}
                           /\ ~(e.base = None /\ e.head = None)
    <2>1. ASSUME NEW pair \in pairs
          PROVE  M(pair).base \in left /\ M(pair).head \in right /\ M(pair).base # None
      BY <1>2, <1>5
    <2>2. ASSUME NEW p \in restLeft
          PROVE  UL(p).base \in left /\ UL(p).head = None /\ UL(p).base # None
      BY <1>3, <1>6
    <2>3. ASSUME NEW p \in restRight
          PROVE  UR(p).head \in right /\ UR(p).base = None /\ UR(p).head # None
      BY <1>4, <1>6
    <2> QED BY <1>1, <2>1, <2>2, <2>3
  <1>8. ASSUME NEW p \in left
        PROVE  One({e \in entries : e.base = p})
    <2>1. CASE p \in restLeft
      <3>1. {e \in entries : e.base = p} = {UL(p)}
        BY <1>1, <1>2, <1>3, <1>4, <1>6, <2>1
      <3> QED BY <1>0, <3>1
    <2>2. CASE p \notin restLeft
      <3>1. PICK pair \in pairs : pair[1] = p
        BY <1>6, <2>2
      <3>2. {e \in entries : e.base = p} = {M(pair)}
        BY <1>1, <1>2, <1>3, <1>4, <1>5, <1>6, <3>1
      <3> QED BY <1>0, <3>2
    <2> QED BY <2>1, <2>2
  <1>9. ASSUME NEW p \in right
        PROVE  One({e \in entries : e.head = p})
    <2>1. CASE p \in restRight
      <3>1. {e \in entries : e.head = p} = {UR(p)}
        BY <1>1, <1>2, <1>3, <1>4, <1>6, <2>1
      <3> QED BY <1>0, <3>1
    <2>2. CASE p \notin restRight
      <3>1. PICK pair \in pairs : pair[2] = p
        BY <1>6, <2>2
      <3>2. {e \in entries : e.head = p} = {M(pair)}
        BY <1>1, <1>2, <1>3, <1>4, <1>5, <1>6, <3>1
      <3> QED BY <1>0, <3>2
    <2> QED BY <2>1, <2>2
  <1>10. EachOnce(entries, left, right)
    BY <1>7, <1>8, <1>9 DEF EachOnce
  <1> QED BY <1>10 DEF entries

\* Each Finding of a group is in exactly one entry, on its own side, and an entry
\* is of one or two Findings of the group.
LEMMA GroupOnce ==
  ASSUME NEW left, NEW right, IsFiniteSet(left), IsFiniteSet(right), NEW eligible, NEW c,
         None \notin left, None \notin right
  PROVE  EachOnce(_match_group(left, right, eligible, c), left, right)
PROOF
  <1> DEFINE entries == _match_group(left, right, eligible, c)
  <1>1. ASSUME NEW p, NEW q, left = {p}, right = {q},
               entries = {_matched(1, p, q, c.base, c.head)}
        PROVE  EachOnce(entries, left, right)
    <2> DEFINE only == _matched(1, p, q, c.base, c.head)
    <2>1. only.base = p /\ only.head = q
      BY MatchedSides
    <2>2. entries = {only}
      BY <1>1
    <2> HIDE DEF entries, only
    <2>3. {e \in entries : e.base = p} = {only} /\ {e \in entries : e.head = q} = {only}
      BY <2>1, <2>2
    <2>4. One({only})
      BY DEF One
    <2>5. p # None
      BY <1>1
    <2> QED BY <1>1, <2>1, <2>2, <2>3, <2>4, <2>5 DEF EachOnce
  <1>2. \/ \E p, q : left = {p} /\ right = {q} /\ entries = {_matched(1, p, q, c.base, c.head)}
        \/ entries = ByFingerprint(left, right, c)
    BY GroupIs
  <1> HIDE DEF entries
  <1>3. EachOnce(entries, left, right)
    BY <1>1, <1>2, FingerprintOnce
  <1> QED BY <1>3 DEF entries

-----------------------------------------------------------------------------
\* The theorems.

\* Every Finding of both reports appears in exactly one entry (the docstring of
\* match_and_classify()), and an entry is of one Finding, or of one of each side.
THEOREM EveryFindingOnce ==
  ASSUME NEW base, NEW head, NEW declared, NEW corr, NEW hints,
         IsFiniteSet(Projections(base)), IsFiniteSet(Projections(head)),
         None \notin Projections(base) \cup Projections(head)
  PROVE  EachOnce(match_and_classify(base, head, declared, corr, hints),
                  Projections(base), Projections(head))
PROOF
  <1> DEFINE c == Classifier(base, head, declared, corr, hints)
             left == Projections(base)
             right == Projections(head)
             keys == {IdentityOf(p) : p \in left \cup right}
             G(key) == _match_group(OfKey(left, key), OfKey(right, key),
                                    key[2] # None /\ key[3] # OTHER_CATEGORY, c)
             entries == match_and_classify(base, head, declared, corr, hints)
  <1>1. entries = UNION {G(key) : key \in keys}
    BY DEF match_and_classify
  <1>2. ASSUME NEW key
        PROVE  EachOnce(G(key), OfKey(left, key), OfKey(right, key))
    <2> DEFINE L == OfKey(left, key)
               R == OfKey(right, key)
    <2>1. L \subseteq left /\ R \subseteq right
      BY DEF OfKey
    <2>2. IsFiniteSet(L) /\ IsFiniteSet(R) /\ None \notin L /\ None \notin R
      BY <2>1, FS_Subset
    <2> HIDE DEF L, R, c
    <2>3. EachOnce(_match_group(L, R, key[2] # None /\ key[3] # OTHER_CATEGORY, c), L, R)
      BY <2>2, GroupOnce
    <2> QED BY <2>3 DEF L, R
  <1> HIDE DEF G, c, entries
  <1>3. ASSUME NEW p \in left
        PROVE  One({e \in entries : e.base = p})
    <2> DEFINE key == IdentityOf(p)
    <2>1. p \in OfKey(left, key) /\ key \in keys /\ p # None
      BY DEF OfKey
    <2>2. One({e \in G(key) : e.base = p})
      BY <1>2, <2>1 DEF EachOnce
    <2>3. ASSUME NEW k \in keys, NEW e \in G(k), e.base = p
          PROVE  k = key
      BY <1>2, <2>1, <2>3 DEF EachOnce, OfKey
    <2> HIDE DEF key, keys, left, right
    <2>4. {e \in entries : e.base = p} = {e \in G(key) : e.base = p}
      BY <1>1, <2>1, <2>3
    <2> QED BY <2>2, <2>4
  <1>4. ASSUME NEW p \in right
        PROVE  One({e \in entries : e.head = p})
    <2> DEFINE key == IdentityOf(p)
    <2>1. p \in OfKey(right, key) /\ key \in keys /\ p # None
      BY DEF OfKey
    <2>2. One({e \in G(key) : e.head = p})
      BY <1>2, <2>1 DEF EachOnce
    <2>3. ASSUME NEW k \in keys, NEW e \in G(k), e.head = p
          PROVE  k = key
      BY <1>2, <2>1, <2>3 DEF EachOnce, OfKey
    <2> HIDE DEF key, keys, left, right
    <2>4. {e \in entries : e.head = p} = {e \in G(key) : e.head = p}
      BY <1>1, <2>1, <2>3
    <2> QED BY <2>2, <2>4
  <1>5. ASSUME NEW e \in entries
        PROVE  /\ e.base \in left \cup {None} /\ e.head \in right \cup {None}
               /\ ~(e.base = None /\ e.head = None)
    <2>1. PICK key \in keys : e \in G(key)
      BY <1>1
    <2> QED BY <1>2, <2>1 DEF EachOnce, OfKey
  <1>6. EachOnce(entries, left, right)
    BY <1>3, <1>4, <1>5 DEF EachOnce
  <1> QED BY <1>6 DEF entries

\* What a group matches is unique in the group.
LEMMA MatchedOfGroup ==
  ASSUME NEW left, NEW right, IsFiniteSet(left), IsFiniteSet(right), NEW eligible, NEW c,
         NEW e \in _match_group(left, right, eligible, c), e.classification = "Unchanged"
  PROVE  \/ e.stage = 1 /\ eligible /\ left = {e.base} /\ right = {e.head}
         \/ /\ e.stage = 2 /\ Fingerprint(e.base) = Fingerprint(e.head)
            /\ OnlyOne(e.base, left) /\ OnlyOne(e.head, right)
PROOF
  <1>1. ASSUME NEW p, NEW q, eligible, left = {p}, right = {q},
               _match_group(left, right, eligible, c) = {_matched(1, p, q, c.base, c.head)}
        PROVE  e.stage = 1 /\ eligible /\ left = {e.base} /\ right = {e.head}
    <2>1. e = _matched(1, p, q, c.base, c.head)
      BY <1>1
    <2> QED BY <1>1, <2>1, MatchedSides
  <1>2. ASSUME _match_group(left, right, eligible, c) = ByFingerprint(left, right, c)
        PROVE  /\ e.stage = 2 /\ Fingerprint(e.base) = Fingerprint(e.head)
               /\ OnlyOne(e.base, left) /\ OnlyOne(e.head, right)
    <2> DEFINE pairs == Counterparts(left, right)
               restLeft == Unpaired(left, 1, pairs)
               restRight == Unpaired(right, 2, pairs)
               M(pair) == _matched(2, pair[1], pair[2], c.base, c.head)
               UL(p) == Unmatched(left, p, FALSE, restRight, c)
               UR(p) == Unmatched(right, p, TRUE, restLeft, c)
    <2>1. e \in {M(pair) : pair \in pairs} \cup {UL(p) : p \in restLeft} \cup {UR(p) : p \in restRight}
      BY <1>2 DEF ByFingerprint
    <2>2. \A p : UL(p).classification # "Unchanged" /\ UR(p).classification # "Unchanged"
      <3> HIDE DEF restLeft, restRight
      <3> QED BY DEF Unmatched, classify, _one_sided, Entry
    <2>3. \A pair : M(pair).base = pair[1] /\ M(pair).head = pair[2] /\ M(pair).stage = 2
      BY MatchedSides
    <2>4. \A pair \in pairs : /\ Fingerprint(pair[1]) = Fingerprint(pair[2])
                              /\ pair[1] \in Singles(left) /\ pair[2] \in Singles(right)
      BY DEF Counterparts
    <2> HIDE DEF M, UL, UR, pairs, restLeft, restRight
    <2>5. PICK pair \in pairs : e = M(pair)
      BY <2>1, <2>2
    <2>6. e.base \in Singles(left) /\ e.head \in Singles(right)
      BY <2>3, <2>4, <2>5
    <2>7. OnlyOne(e.base, left) /\ OnlyOne(e.head, right)
      BY <2>6, SinglesAreAlone DEF OnlyOne
    <2> QED BY <2>3, <2>4, <2>5, <2>7
  <1> QED BY <1>1, <1>2, GroupIs

\* Matching pairs only what is unique (delta.py, the module docstring): the one
\* Finding of its resource and category on each side, or Findings with a
\* Fingerprint that no other Finding of either report has.
THEOREM MatchedIsUnique ==
  ASSUME NEW base, NEW head, NEW declared, NEW corr, NEW hints,
         IsFiniteSet(Projections(base)), IsFiniteSet(Projections(head)),
         NEW e \in match_and_classify(base, head, declared, corr, hints),
         e.classification = "Unchanged"
  PROVE  /\ IdentityOf(e.base) = IdentityOf(e.head)
         /\ \/ /\ e.stage = 1
               /\ e.base.Resource # None /\ e.base.Normalized_Category # OTHER_CATEGORY
               /\ OnlyOfItsKey(e.base, Projections(base)) /\ OnlyOfItsKey(e.head, Projections(head))
            \/ /\ e.stage = 2 /\ Fingerprint(e.base) = Fingerprint(e.head)
               /\ OnlyOne(e.base, Projections(base)) /\ OnlyOne(e.head, Projections(head))
PROOF
  <1> DEFINE c == Classifier(base, head, declared, corr, hints)
             left == Projections(base)
             right == Projections(head)
             keys == {IdentityOf(p) : p \in left \cup right}
  <1>1. PICK key \in keys : e \in _match_group(OfKey(left, key), OfKey(right, key),
                                               key[2] # None /\ key[3] # OTHER_CATEGORY, c)
    BY DEF match_and_classify
  <1> DEFINE L == OfKey(left, key)
             R == OfKey(right, key)
             eligible == key[2] # None /\ key[3] # OTHER_CATEGORY
  <1>2. IsFiniteSet(L) /\ IsFiniteSet(R)
    <2>1. L \in SUBSET left /\ R \in SUBSET right
      BY DEF OfKey
    <2> QED BY <2>1, FS_Subset
  <1>3. \/ e.stage = 1 /\ eligible /\ L = {e.base} /\ R = {e.head}
        \/ /\ e.stage = 2 /\ Fingerprint(e.base) = Fingerprint(e.head)
           /\ OnlyOne(e.base, L) /\ OnlyOne(e.head, R)
    <2> HIDE DEF L, R, c
    <2> QED BY <1>1, <1>2, MatchedOfGroup DEF L, R
  <1>4. \A q : (q \in L <=> q \in left /\ IdentityOf(q) = key) /\ (q \in R <=> q \in right /\ IdentityOf(q) = key)
    BY DEF OfKey
  <1>5. \A p, q : Fingerprint(p) = Fingerprint(q) => IdentityOf(p) = IdentityOf(q)
    BY DEF Fingerprint
  <1>6. \A p : IdentityOf(p)[2] = p.Resource /\ IdentityOf(p)[3] = p.Normalized_Category
    BY DEF IdentityOf
  <1> HIDE DEF c, L, R, left, right, keys
  <1>7. CASE e.stage = 1 /\ eligible /\ L = {e.base} /\ R = {e.head}
    <2>1. IdentityOf(e.base) = key /\ IdentityOf(e.head) = key
      BY <1>4, <1>7
    <2>2. OnlyOfItsKey(e.base, left) /\ OnlyOfItsKey(e.head, right)
      BY <1>4, <1>7, <2>1 DEF OnlyOfItsKey
    <2> QED BY <1>6, <1>7, <2>1, <2>2 DEF left, right
  <1>8. CASE /\ e.stage = 2 /\ Fingerprint(e.base) = Fingerprint(e.head)
             /\ OnlyOne(e.base, L) /\ OnlyOne(e.head, R)
    <2>1. IdentityOf(e.base) = key /\ IdentityOf(e.head) = key
      BY <1>4, <1>8 DEF OnlyOne
    <2>2. OnlyOne(e.base, left) /\ OnlyOne(e.head, right)
      BY <1>4, <1>5, <1>8, <2>1 DEF OnlyOne
    <2> QED BY <1>8, <2>1, <2>2 DEF left, right
  <1> QED BY <1>3, <1>7, <1>8

\* A source that is comparable ran on the file on both sides, with the same tools
\* (comparable_reasons()).
LEMMA ComparableMeans ==
  ASSUME NEW source, NEW file, NEW base, NEW head, comparable_reasons(source, file, base, head) = {}
  PROVE  /\ \A name \in SOURCE_TOOL_DEPENDENCIES[source] :
              {t.version : t \in ToolOf(base, name)} = {t.version : t \in ToolOf(head, name)}
         /\ \A r \in {base, head} :
              /\ Reviewed(r, file) /\ source \in Range(r.sources_enabled)
              /\ \A e \in Range(r.errors) : e.source \notin {None, source}
              /\ \A name \in SOURCE_TOOL_DEPENDENCIES[source] : _usable(r, name)
         /\ Synthesized(file, base, head) => base.target.synthesis = head.target.synthesis
PROOF
  <1> DEFINE sides == {base, head}
             synthesized == \E r \in sides : file \in Range(r.target.synthesized)
             named == SOURCE_TOOL_DEPENDENCIES[source]
                        \cup {t \in {CDK_TOOL} : synthesized /\ \E r \in sides : ToolOf(r, t) # {}}
             changed == \E name \in named :
               /\ _usable(base, name) /\ _usable(head, name)
               /\ {t.version : t \in ToolOf(base, name)} # {t.version : t \in ToolOf(head, name)}
             unreviewed == \E r \in sides : ~Reviewed(r, file)
             apart == \/ synthesized /\ base.target.synthesis # head.target.synthesis
                      \/ \E r \in sides : \/ source \notin Range(r.sources_enabled)
                                          \/ \E name \in named : ~_usable(r, name)
                                          \/ \E e \in Range(r.errors) : e.source \in {None, source}
  <1>1. comparable_reasons(source, file, base, head)
          = {x \in {"source_not_comparable"} : unreviewed \/ changed \/ apart}
              \cup {x \in {"tool_version_mismatch"} : changed}
              \cup {x \in {"template_not_reviewed"} : unreviewed}
    BY DEF comparable_reasons
  <1> SOURCE_TOOL_DEPENDENCIES[source] \subseteq named
    OBVIOUS
  <1>2. synthesized <=> Synthesized(file, base, head)
    BY DEF Synthesized
  <1> HIDE DEF named, synthesized
  <1>3. ~unreviewed /\ ~changed /\ ~apart
    <2> HIDE DEF unreviewed, changed, apart
    <2> QED BY <1>1
  <1>4. \A r \in sides : \A name \in SOURCE_TOOL_DEPENDENCIES[source] : _usable(r, name)
    BY <1>3
  <1> QED BY <1>3, <1>4, <1>2

\* Without a reason against it, all that has to be known of p is.
LEMMA NothingAgainst ==
  ASSUME NEW base, NEW head, NEW declared, NEW corr, NEW hints, NEW p,
         LET c == Classifier(base, head, declared, corr, hints)
         IN  ambiguous_reasons(c, p) = {} /\ c.missing = {}
  PROVE  Known(p, base, head, declared, corr, hints)
PROOF
  <1> DEFINE c == Classifier(base, head, declared, corr, hints)
  <1>1. /\ c.base = base /\ c.head = head /\ c.missing = required_declarations(corr) \ declared
        /\ c.integrity = IntegrityFailures(base) \cup IntegrityFailures(head)
        /\ c.mismatch = (corr \in {"inconsistent", "unknown"}) /\ c.hints = hints
    BY DEF Classifier
  <1>2. ambiguous_reasons(c, p) = {} /\ c.missing = {}
    OBVIOUS
  <1> HIDE DEF c
  <1>3. /\ \A source \in Range(p.Source) : comparable_reasons(source, p.File, c.base, c.head) = {}
        /\ Range(p.Source) # {AGENT_SOURCE} /\ p.Resource \notin c.hints
        /\ c.integrity = {} /\ ~c.mismatch
    <2> DEFINE incomparable == UNION {comparable_reasons(s, p.File, c.base, c.head) : s \in Range(p.Source)}
    <2>1. /\ incomparable = {}
          /\ {r \in {"non_deterministic_source"} : Range(p.Source) = {AGENT_SOURCE}} = {}
          /\ {r \in {"possible_logical_id_rename"} : p.Resource \in c.hints} = {}
          /\ {r \in {"report_integrity_failed"} : c.integrity # {}} = {}
          /\ {r \in {"template_report_mismatch"} : c.mismatch} = {}
      <3> HIDE DEF incomparable
      <3>1. ambiguous_reasons(c, p) = incomparable
              \cup {r \in {"non_deterministic_source"} : Range(p.Source) = {AGENT_SOURCE}}
              \cup {r \in {"possible_logical_id_rename"} : p.Resource \in c.hints}
              \cup {r \in {"report_integrity_failed"} : c.integrity # {}}
              \cup {r \in {"template_report_mismatch"} : c.mismatch}
        BY DEF ambiguous_reasons, incomparable
      <3> QED BY <1>2, <3>1
    <2>2. \A source \in Range(p.Source) : comparable_reasons(source, p.File, c.base, c.head) = {}
      BY <2>1
    <2> HIDE DEF incomparable
    <2>3. Range(p.Source) # {AGENT_SOURCE}
      BY <2>1
    <2>4. p.Resource \notin c.hints
      BY <2>1
    <2>5. c.integrity = {}
      BY <2>1
    <2>6. ~c.mismatch
      BY <2>1
    <2> QED BY <2>2, <2>3, <2>4, <2>5, <2>6
  <1>4. \A source \in Range(p.Source) : comparable_reasons(source, p.File, base, head) = {}
    BY <1>1, <1>3
  <1>5. /\ required_declarations(corr) \subseteq declared
        /\ corr \notin {"inconsistent", "unknown"}
        /\ IntegrityFailures(base) = {} /\ IntegrityFailures(head) = {}
        /\ Range(p.Source) # {AGENT_SOURCE} /\ p.Resource \notin hints
    BY <1>1, <1>2, <1>3
  <1>6. ASSUME NEW source \in Range(p.Source)
        PROVE  /\ \A name \in SOURCE_TOOL_DEPENDENCIES[source] :
                    {t.version : t \in ToolOf(base, name)} = {t.version : t \in ToolOf(head, name)}
               /\ \A r \in {base, head} :
                    /\ Reviewed(r, p.File) /\ source \in Range(r.sources_enabled)
                    /\ \A e \in Range(r.errors) : e.source \notin {None, source}
                    /\ \A name \in SOURCE_TOOL_DEPENDENCIES[source] : _usable(r, name)
               /\ Synthesized(p.File, base, head) => base.target.synthesis = head.target.synthesis
    BY <1>4, ComparableMeans
  <1> QED BY <1>5, <1>6 DEF Known

\* A Finding left of a group, with nothing left on the other side, and once on its own.
LEMMA LeftAlone ==
  ASSUME NEW left, NEW right, IsFiniteSet(left), IsFiniteSet(right)
  PROVE  LET pairs == Counterparts(left, right)
         IN  /\ \A p \in Unpaired(left, 1, pairs) :
                  ~(Occurrences(left, p) > 1) /\ Unpaired(right, 2, pairs) = {} =>
                    \A q \in right : Fingerprint(q) # Fingerprint(p) /\ \E pair \in pairs : q = pair[2]
             /\ \A p \in Unpaired(right, 2, pairs) :
                  ~(Occurrences(right, p) > 1) /\ Unpaired(left, 1, pairs) = {} =>
                    \A q \in left : Fingerprint(q) # Fingerprint(p) /\ \E pair \in pairs : q = pair[1]
PROOF
  <1> DEFINE pairs == Counterparts(left, right)
  <1>1. \A pair \in pairs : /\ pair[1] \in left /\ pair[2] \in right
                            /\ Fingerprint(pair[1]) = Fingerprint(pair[2])
                            /\ pair[1] \in Singles(left) /\ pair[2] \in Singles(right)
    BY SinglesAreAlone DEF Counterparts
  <1> HIDE DEF pairs
  <1>2. ASSUME NEW p \in Unpaired(left, 1, pairs), ~(Occurrences(left, p) > 1),
               Unpaired(right, 2, pairs) = {}, NEW q \in right
        PROVE  Fingerprint(q) # Fingerprint(p) /\ \E pair \in pairs : q = pair[2]
    <2>1. PICK pair \in pairs : q = pair[2]
      BY <1>2 DEF Unpaired
    <2>2. p \in left /\ p # pair[1]
      BY <1>2, <2>1 DEF Unpaired
    <2>3. Fingerprint(pair[1]) # Fingerprint(p)
      BY <1>1, <2>1, <2>2, SinglesAreAlone
    <2> QED BY <1>1, <2>1, <2>3
  <1>3. ASSUME NEW p \in Unpaired(right, 2, pairs), ~(Occurrences(right, p) > 1),
               Unpaired(left, 1, pairs) = {}, NEW q \in left
        PROVE  Fingerprint(q) # Fingerprint(p) /\ \E pair \in pairs : q = pair[1]
    <2>1. PICK pair \in pairs : q = pair[1]
      BY <1>3 DEF Unpaired
    <2>2. p \in right /\ p # pair[2]
      BY <1>3, <2>1 DEF Unpaired
    <2>3. Fingerprint(pair[2]) # Fingerprint(p)
      BY <1>1, <2>1, <2>2, SinglesAreAlone
    <2> QED BY <1>1, <2>1, <2>3
  <1>4. /\ \A p \in Unpaired(left, 1, pairs) :
             ~(Occurrences(left, p) > 1) /\ Unpaired(right, 2, pairs) = {} =>
               \A q \in right : Fingerprint(q) # Fingerprint(p) /\ \E pair \in pairs : q = pair[2]
        /\ \A p \in Unpaired(right, 2, pairs) :
             ~(Occurrences(right, p) > 1) /\ Unpaired(left, 1, pairs) = {} =>
               \A q \in left : Fingerprint(q) # Fingerprint(p) /\ \E pair \in pairs : q = pair[1]
    BY <1>2, <1>3
  <1> QED BY <1>4 DEF pairs

\* What a group says is resolved or new: nothing is known against it, and the
\* Findings of the other side are all taken by others.
LEMMA OneSidedOfGroup ==
  ASSUME NEW left, NEW right, IsFiniteSet(left), IsFiniteSet(right), NEW eligible, NEW c
  PROVE  Earned(_match_group(left, right, eligible, c), left, right, c)
PROOF
  <1> DEFINE entries == _match_group(left, right, eligible, c)
             pairs == Counterparts(left, right)
             restLeft == Unpaired(left, 1, pairs)
             restRight == Unpaired(right, 2, pairs)
             M(pair) == _matched(2, pair[1], pair[2], c.base, c.head)
             UL(p) == Unmatched(left, p, FALSE, restRight, c)
             UR(p) == Unmatched(right, p, TRUE, restLeft, c)
  <1>1. ASSUME NEW p, NEW q, entries = {_matched(1, p, q, c.base, c.head)}
        PROVE  Earned(entries, left, right, c)
    <2>1. \A e \in entries : e.classification = "Unchanged"
      BY <1>1, MatchedSides
    <2> HIDE DEF entries
    <2> QED BY <2>1 DEF Earned
  <1>2. ASSUME entries = ByFingerprint(left, right, c)
        PROVE  Earned(entries, left, right, c)
    <2>1. entries = {M(pair) : pair \in pairs} \cup {UL(p) : p \in restLeft} \cup {UR(p) : p \in restRight}
      BY <1>2 DEF ByFingerprint
    <2>2. \A pair : /\ M(pair).base = pair[1] /\ M(pair).head = pair[2]
                    /\ M(pair).classification = "Unchanged"
      BY MatchedSides
    <2>3. \A p : /\ UL(p).base = p /\ UL(p).head = None /\ UL(p).classification # "New"
                 /\ UL(p).classification = "Resolved" =>
                      /\ restRight = {} /\ ~(Occurrences(left, p) > 1)
                      /\ ambiguous_reasons(c, p) = {} /\ c.missing = {}
      <3> HIDE DEF restLeft, restRight
      <3> QED BY DEF Unmatched, classify, _one_sided, Entry
    <2>4. \A p : /\ UR(p).base = None /\ UR(p).head = p /\ UR(p).classification # "Resolved"
                 /\ UR(p).classification = "New" =>
                      /\ restLeft = {} /\ ~(Occurrences(right, p) > 1)
                      /\ ambiguous_reasons(c, p) = {} /\ c.missing = {}
      <3> HIDE DEF restLeft, restRight
      <3> QED BY DEF Unmatched, classify, _one_sided, Entry
    <2>5. /\ \A p \in restLeft :
               ~(Occurrences(left, p) > 1) /\ restRight = {} =>
                 \A q \in right : Fingerprint(q) # Fingerprint(p) /\ \E pair \in pairs : q = pair[2]
          /\ \A p \in restRight :
               ~(Occurrences(right, p) > 1) /\ restLeft = {} =>
                 \A q \in left : Fingerprint(q) # Fingerprint(p) /\ \E pair \in pairs : q = pair[1]
      BY LeftAlone
    <2> HIDE DEF M, UL, UR, pairs, restLeft, restRight, entries
    <2>6. \A pair \in pairs : pair[1] \in TakenBases(entries) /\ pair[2] \in TakenHeads(entries)
      BY <2>1, <2>2 DEF TakenBases, TakenHeads
    <2>7. ASSUME NEW e \in entries, e.classification = "Resolved"
          PROVE  /\ e.head = None /\ ambiguous_reasons(c, e.base) = {} /\ c.missing = {}
                 /\ NoCandidate(e.base, right, TakenHeads(entries))
      <3>1. PICK p \in restLeft : e = UL(p)
        BY <2>1, <2>2, <2>4, <2>7
      <3> QED BY <2>3, <2>5, <2>6, <2>7, <3>1 DEF NoCandidate
    <2>8. ASSUME NEW e \in entries, e.classification = "New"
          PROVE  /\ e.base = None /\ ambiguous_reasons(c, e.head) = {} /\ c.missing = {}
                 /\ NoCandidate(e.head, left, TakenBases(entries))
      <3>1. PICK p \in restRight : e = UR(p)
        BY <2>1, <2>2, <2>3, <2>8
      <3> QED BY <2>4, <2>5, <2>6, <2>8, <3>1 DEF NoCandidate
    <2>9. Earned(entries, left, right, c)
      BY <2>7, <2>8 DEF Earned
    <2> QED BY <2>9
  <1>3. (\E p, q : entries = {_matched(1, p, q, c.base, c.head)}) \/ entries = ByFingerprint(left, right, c)
    BY GroupIs
  <1> HIDE DEF entries
  <1>4. Earned(entries, left, right, c)
    BY <1>1, <1>2, <1>3
  <1> QED BY <1>4 DEF entries

\* Only a Finding with no candidate at all on the other side is called New or
\* Resolved (delta.py, the module docstring): everything of the other report that
\* is about the same resource and category is matched to another Finding, and the
\* two reports were made and declared so that they can be compared for it.
THEOREM OneSidedIsEarned ==
  ASSUME NEW base, NEW head, NEW declared, NEW corr, NEW hints,
         IsFiniteSet(Projections(base)), IsFiniteSet(Projections(head)),
         None \notin Projections(base) \cup Projections(head),
         NEW e \in match_and_classify(base, head, declared, corr, hints)
  PROVE  LET entries == match_and_classify(base, head, declared, corr, hints)
         IN  /\ e.classification = "Resolved" =>
                  /\ e.base \in Projections(base) /\ e.head = None
                  /\ Known(e.base, base, head, declared, corr, hints)
                  /\ NoCandidate(e.base, Projections(head), TakenHeads(entries))
             /\ e.classification = "New" =>
                  /\ e.head \in Projections(head) /\ e.base = None
                  /\ Known(e.head, base, head, declared, corr, hints)
                  /\ NoCandidate(e.head, Projections(base), TakenBases(entries))
PROOF
  <1> DEFINE c == Classifier(base, head, declared, corr, hints)
             left == Projections(base)
             right == Projections(head)
             keys == {IdentityOf(p) : p \in left \cup right}
             G(key) == _match_group(OfKey(left, key), OfKey(right, key),
                                    key[2] # None /\ key[3] # OTHER_CATEGORY, c)
             entries == match_and_classify(base, head, declared, corr, hints)
  <1>1. entries = UNION {G(key) : key \in keys}
    BY DEF match_and_classify
  <1>2. PICK key \in keys : e \in G(key)
    BY <1>1
  <1> DEFINE L == OfKey(left, key)
             R == OfKey(right, key)
  <1>3. IsFiniteSet(L) /\ IsFiniteSet(R) /\ None \notin L /\ None \notin R
    <2>1. L \in SUBSET left /\ R \in SUBSET right
      BY DEF OfKey
    <2> QED BY <2>1, FS_Subset
  <1>4. EachOnce(G(key), L, R) /\ Earned(G(key), L, R, c)
    <2> HIDE DEF L, R, c
    <2>1. /\ EachOnce(_match_group(L, R, key[2] # None /\ key[3] # OTHER_CATEGORY, c), L, R)
          /\ Earned(_match_group(L, R, key[2] # None /\ key[3] # OTHER_CATEGORY, c), L, R, c)
      BY <1>3, GroupOnce, OneSidedOfGroup
    <2> QED BY <2>1 DEF L, R
  <1>5. \A q : (q \in L <=> q \in left /\ IdentityOf(q) = key) /\ (q \in R <=> q \in right /\ IdentityOf(q) = key)
    BY DEF OfKey
  <1>6. \A p : ambiguous_reasons(c, p) = {} /\ c.missing = {} => Known(p, base, head, declared, corr, hints)
    BY NothingAgainst
  <1> HIDE DEF c, G, L, R, left, right, keys, entries
  <1>7. G(key) \subseteq entries
    BY <1>1
  <1>8. TakenHeads(G(key)) \subseteq TakenHeads(entries) /\ TakenBases(G(key)) \subseteq TakenBases(entries)
    BY <1>7 DEF TakenHeads, TakenBases
  <1>9. ASSUME e.classification = "Resolved"
        PROVE  /\ e.base \in left /\ e.head = None
               /\ Known(e.base, base, head, declared, corr, hints)
               /\ NoCandidate(e.base, right, TakenHeads(entries))
    <2>1. e.head = None /\ e.base \in L /\ NoCandidate(e.base, R, TakenHeads(G(key)))
      BY <1>2, <1>4, <1>9 DEF Earned, EachOnce
    <2>2. Known(e.base, base, head, declared, corr, hints)
      BY <1>2, <1>4, <1>6, <1>9 DEF Earned
    <2>3. NoCandidate(e.base, right, TakenHeads(entries))
      BY <1>5, <1>8, <2>1 DEF NoCandidate
    <2> QED BY <1>5, <2>1, <2>2, <2>3
  <1>10. ASSUME e.classification = "New"
         PROVE  /\ e.head \in right /\ e.base = None
                /\ Known(e.head, base, head, declared, corr, hints)
                /\ NoCandidate(e.head, left, TakenBases(entries))
    <2>1. e.base = None /\ e.head \in R /\ NoCandidate(e.head, L, TakenBases(G(key)))
      BY <1>2, <1>4, <1>10 DEF Earned, EachOnce
    <2>2. Known(e.head, base, head, declared, corr, hints)
      BY <1>2, <1>4, <1>6, <1>10 DEF Earned
    <2>3. NoCandidate(e.head, left, TakenBases(entries))
      BY <1>5, <1>8, <2>1 DEF NoCandidate
    <2> QED BY <1>5, <2>1, <2>2, <2>3
  <1> QED BY <1>9, <1>10 DEF left, right, entries

-----------------------------------------------------------------------------
\* What the delta tool says of the failures it met.

\* The failures of one invocation: each of a template or a report, of one side
\* or, when the diff itself failed, of neither; two of the same are one.
FailureOf == [code : DOMAIN EXIT_CODES, side : SIDES \cup {None}, input : {"template", "report"}]
Reportable(met) ==
  /\ IsFiniteSet(met) /\ met \subseteq FailureOf
  /\ \A f, g \in met : f.input = g.input /\ f.side = g.side => f = g

FailureOrder(met) == {p \in met \X met : FailureBefore(p[1], p[2])}
FailureKey(f) == <<_INPUT_RANK[f.input], _SIDE_RANK(f.side)>>

\* A failure is told by the numbers it is ordered by.
LEMMA FailureKeys ==
  ASSUME None \notin SIDES, NEW met, Reportable(met)
  PROVE  /\ \A f \in met : FailureKey(f) \in Seq(Int)
         /\ \A f, g \in met : FailureKey(f) = FailureKey(g) => f = g
PROOF
  <1>1. /\ _SIDE_RANK("base") = 0 /\ _SIDE_RANK("head") = 1 /\ _SIDE_RANK(None) = 2
    <2>1. None # "base" /\ None # "head"
      BY DEF SIDES
    <2> QED BY <2>1 DEF _SIDE_RANK
  <1>2. _INPUT_RANK["template"] = 0 /\ _INPUT_RANK["report"] = 1
    BY DEF _INPUT_RANK
  <1>3. \A f \in met : f.side \in {"base", "head", None} /\ f.input \in {"template", "report"}
    BY DEF Reportable, FailureOf, SIDES
  <1>4. \A f \in met : _INPUT_RANK[f.input] \in 0..1 /\ _SIDE_RANK(f.side) \in 0..2
    BY <1>1, <1>2, <1>3
  <1>5. ASSUME NEW f \in met, NEW g \in met, FailureKey(f) = FailureKey(g)
        PROVE  f = g
    <2>1. _INPUT_RANK[f.input] = _INPUT_RANK[g.input] /\ _SIDE_RANK(f.side) = _SIDE_RANK(g.side)
      BY <1>5 DEF FailureKey
    <2>2. f.input = g.input
      BY <1>2, <1>3, <2>1
    <2>3. f.side = g.side
      BY <1>1, <1>3, <2>1
    <2> QED BY <2>2, <2>3 DEF Reportable
  <1>6. ASSUME NEW f \in met
        PROVE  FailureKey(f) \in Seq(Int)
    <2>1. _INPUT_RANK[f.input] \in Int /\ _SIDE_RANK(f.side) \in Int
      BY <1>4
    <2> QED BY <2>1 DEF FailureKey
  <1> QED BY <1>5, <1>6

\* Templates before reports, the base before the head, and what is of neither
\* last: the failures of one invocation are listed once, in that order.
LEMMA FailuresListed ==
  ASSUME None \notin SIDES, NEW met, Reportable(met)
  PROVE  /\ _ordered_failures(met) \in Seq(met)
         /\ Range(_ordered_failures(met)) = met
         /\ \A m, n \in DOMAIN _ordered_failures(met) :
              m < n => FailureBefore(_ordered_failures(met)[m], _ordered_failures(met)[n])
PROOF
  <1> DEFINE R == FailureOrder(met)
             q == Ranked(met, R)
  <1>1. \A f, g : FailureBefore(f, g) <=> LexLess(FailureKey(f), FailureKey(g))
    BY DEF FailureBefore, FailureKey
  <1>2. Orders(R, met)
    <2>1. \A a, b \in met : <<a, b>> \in R <=> LexLess(FailureKey(a), FailureKey(b))
      BY <1>1 DEF FailureOrder
    <2>2. \A a \in met : ~LexLess(FailureKey(a), FailureKey(a))
      BY FailureKeys, LexIrreflexive
    <2>3. \A a, b, c \in met :
            LexLess(FailureKey(a), FailureKey(b)) /\ LexLess(FailureKey(b), FailureKey(c))
              => LexLess(FailureKey(a), FailureKey(c))
      BY FailureKeys, LexTransitive
    <2>4. \A a, b \in met : LexLess(FailureKey(a), FailureKey(b)) \/ LexLess(FailureKey(b), FailureKey(a)) \/ a = b
      BY FailureKeys, LexTotal
    <2> HIDE DEF R
    <2> QED BY <2>1, <2>2, <2>3, <2>4 DEF Orders
  <1>3. _ordered_failures(met) = q
    BY DEF _ordered_failures, SortedSet, FailureOrder
  <1>4. IsFiniteSet(met)
    BY DEF Reportable
  <1> HIDE DEF R
  <1>5. Lists(q, met, R)
    BY <1>2, <1>4, RankedLists
  <1>6. DOMAIN q = 1..Cardinality(met) /\ Range(q) = met
    BY <1>2, <1>5, ListsOnce
  <1> HIDE DEF q
  <1>7. q \in Seq(met)
    BY <1>5 DEF Lists
  <1>8. \A m, n \in DOMAIN q : m < n => <<q[m], q[n]>> \in R
    BY <1>5, <1>6 DEF Lists
  <1>9. \A m, n \in DOMAIN q : m < n => FailureBefore(q[m], q[n])
    BY <1>8 DEF R, FailureOrder
  <1> QED BY <1>3, <1>6, <1>7, <1>9

\* A part is blocked by a failure of its inputs, and by nothing else.
LEMMA FirstFailure ==
  ASSUME ~IsAFunction(None), NEW S, NEW met \in Seq(S), NEW inputs,
         \A f \in S : IsAFunction(f)
  PROVE  _first_failure(met, inputs) # None <=> \E f \in Range(met) : f.input \in inputs
PROOF
  <1> DEFINE I == {i \in DOMAIN met : met[i].input \in inputs}
             found == Picked(met, I)
  <1>1. _first_failure(met, inputs) = IF found = <<>> THEN None ELSE found[1]
    BY DEF _first_failure, FirstWhere, Chosen, SortedSet, Picked, PlacesIn, PlaceOrder
  <1>2. /\ found \in Seq(S) /\ Range(found) = {met[i] : i \in I}
        /\ found = <<>> <=> I = {}
    BY PickedPlaces
  <1>3. I = {} <=> ~\E f \in Range(met) : f.input \in inputs
    BY DEF Range
  <1> HIDE DEF found, I
  <1>4. found # <<>> => found[1] \in S
    BY <1>2
  <1>5. None \notin S
    OBVIOUS
  <1> QED BY <1>1, <1>2, <1>3, <1>4, <1>5

\* Exit code 0 means that nothing failed, and any other is that of the failure
\* that comes first, before all others. Each part that was asked for is analyzed
\* unless one of its own inputs failed or the result is too large: the failure of
\* a report keeps no template from being compared, nor the other way around
\* (deltareport.py).
THEOREM ExitIsTrue ==
  ASSUME ~IsAFunction(None), None \notin SIDES, NEW request, Reportable(request.failures), NEW plain,
         NEW r, r = render_delta_report(request, plain),
         NEW tooLarge \in BOOLEAN, tooLarge = (OutputSize(request) > MAX_OUTPUT)
  PROVE  /\ r.exit = 0 <=> request.failures = {} /\ ~tooLarge
         /\ request.failures # {} =>
              \E f \in request.failures :
                /\ r.exit = EXIT_CODES[f.code] /\ r.report.errors[1] = f.code
                /\ \A g \in request.failures \ {f} : FailureBefore(f, g)
         /\ request.failures = {} /\ tooLarge => r.exit = EXIT_CODES["output_size_limit_exceeded"]
         /\ request.templates # None =>
              (Analyzed(r.report.semantic_diff) <=> ~tooLarge /\ \A f \in request.failures : f.input # "template")
         /\ request.reports # None =>
              (Analyzed(r.report.finding_delta) <=> ~tooLarge /\ \A f \in request.failures : f.input # "report")
PROOF
  <1> DEFINE F == request.failures
             lost == Failure("output_size_limit_exceeded", None, "output")
             q == _ordered_failures(F)
             all == IF tooLarge THEN Append(q, lost) ELSE q
             All == F \cup {lost}
             blocked(input) == _first_failure(all, {input} \cup {o \in {"output"} : tooLarge})
  <1>1. /\ r.exit = exit_code(all)
        /\ r.report = _render(request, plain, all, tooLarge)
    BY DEF render_delta_report
  <1>2. /\ q \in Seq(F) /\ Range(q) = F
        /\ \A m, n \in DOMAIN q : m < n => FailureBefore(q[m], q[n])
    BY FailuresListed
  <1>3. tooLarge \in BOOLEAN
    OBVIOUS
  <1>4. /\ lost = [code |-> "output_size_limit_exceeded", side |-> None, input |-> "output"]
        /\ IsAFunction(lost)
    BY DEF Failure, IsAFunction
  <1>5. \A f \in F : f \in FailureOf /\ f.code \in DOMAIN EXIT_CODES /\ f.input \in {"template", "report"} /\ IsAFunction(f)
    BY DEF Reportable, FailureOf, IsAFunction
  <1>6. \A c \in DOMAIN EXIT_CODES : EXIT_CODES[c] # 0
    BY DEF EXIT_CODES
  <1>7. lost.code \in DOMAIN EXIT_CODES /\ lost.input = "output" /\ lost.code = "output_size_limit_exceeded"
    BY <1>4 DEF EXIT_CODES
  <1> HIDE DEF q, lost
  <1>8. /\ all \in Seq(All)
        /\ Range(all) = F \cup (IF tooLarge THEN {lost} ELSE {})
        /\ all = <<>> <=> F = {} /\ ~tooLarge
        /\ F # {} => q # <<>> /\ all[1] = q[1]
        /\ F = {} => q = <<>>
    <2>1. q \in Seq(All) /\ DOMAIN q = 1..Len(q) /\ Len(q) \in Nat
      BY <1>2
    <2>2. q = <<>> <=> F = {}
      BY <1>2, <2>1 DEF Range
    <2>3. CASE ~tooLarge
      BY <1>2, <2>1, <2>2, <2>3
    <2>4. CASE tooLarge
      <3>1. /\ all = Append(q, lost) /\ all \in Seq(All) /\ DOMAIN all = 1..(Len(q) + 1)
            /\ all[Len(q) + 1] = lost /\ \A i \in DOMAIN q : all[i] = q[i]
        <4>1. all = Append(q, lost) /\ lost \in All
          BY <2>4
        <4> HIDE DEF all, All
        <4> QED BY <2>1, <4>1
      <3> HIDE DEF all
      <3>2. DOMAIN all = DOMAIN q \cup {Len(q) + 1}
        BY <2>1, <3>1
      <3>3. Range(all) = F \cup {lost}
        BY <1>2, <3>1, <3>2 DEF Range
      <3>4. all # <<>> /\ (q # <<>> => all[1] = q[1])
        BY <2>1, <3>1
      <3> QED BY <2>2, <2>4, <3>1, <3>3, <3>4
    <2> QED BY <2>3, <2>4, <1>3
  <1>9. \A f \in All : IsAFunction(f) /\ f.code \in DOMAIN EXIT_CODES
    BY <1>4, <1>5, <1>7
  <1>10. \A input : blocked(input) # None
                      <=> \E f \in Range(all) : f.input \in {input} \cup {o \in {"output"} : tooLarge}
    <2> HIDE DEF all, All
    <2> QED BY <1>8, <1>9, FirstFailure
  <1> HIDE DEF blocked, all
  <1>11. \A input \in {"template", "report"} :
           blocked(input) # None <=> tooLarge \/ \E f \in F : f.input = input
    BY <1>3, <1>5, <1>7, <1>8, <1>10
  <1>12. /\ r.report.semantic_diff = _semantic_diff(request, blocked("template"), plain)
         /\ r.report.finding_delta = _finding_delta(request, blocked("report"), plain)
         /\ r.report.errors = [i \in DOMAIN all |-> all[i].code]
    BY <1>1 DEF _render, blocked
  <1>13. r.exit = IF all = <<>> THEN 0 ELSE EXIT_CODES[all[1].code]
    BY <1>1 DEF exit_code
  <1>14. all # <<>> => all[1] \in All /\ 1 \in DOMAIN all /\ EXIT_CODES[all[1].code] # 0
    <2> HIDE DEF All
    <2> QED BY <1>6, <1>8, <1>9
  <1>15. r.exit = 0 <=> F = {} /\ ~tooLarge
    BY <1>8, <1>13, <1>14
  <1>16. ASSUME F # {}
         PROVE  \E f \in F : /\ r.exit = EXIT_CODES[f.code] /\ r.report.errors[1] = f.code
                             /\ \A g \in F \ {f} : FailureBefore(f, g)
    <2>1. q # <<>> /\ all[1] = q[1] /\ all # <<>>
      BY <1>8, <1>16
    <2>2. q[1] \in F /\ 1 \in DOMAIN q /\ DOMAIN q = 1..Len(q)
      BY <1>2, <2>1
    <2>3. ASSUME NEW g \in F \ {q[1]}
          PROVE  FailureBefore(q[1], g)
      <3>1. PICK n \in DOMAIN q : q[n] = g
        BY <1>2 DEF Range
      <3>2. 1 < n
        BY <2>2, <2>3, <3>1
      <3> QED BY <1>2, <2>2, <3>1, <3>2
    <2>4. r.exit = EXIT_CODES[q[1].code] /\ r.report.errors[1] = q[1].code
      BY <1>12, <1>13, <1>14, <2>1
    <2> QED BY <2>2, <2>3, <2>4
  <1>17. ASSUME F = {}, tooLarge
         PROVE  r.exit = EXIT_CODES["output_size_limit_exceeded"]
    <2>1. Range(all) = {lost} /\ all # <<>>
      BY <1>8, <1>17
    <2>2. all[1] = lost
      BY <1>14, <2>1 DEF Range
    <2> QED BY <1>7, <1>13, <2>1, <2>2
  <1>18. \A failure : /\ IsAFunction(Unanalyzable(failure)) /\ Unanalyzable(failure).state = "unanalyzable"
                      /\ ~Analyzed(Unanalyzable(failure))
    BY DEF Unanalyzable, Analyzed, IsAFunction
  <1>19. ASSUME request.templates # None
         PROVE  Analyzed(r.report.semantic_diff) <=> blocked("template") = None
    <2>1. CASE blocked("template") # None
      <3>1. r.report.semantic_diff = Unanalyzable(blocked("template"))
        BY <1>12, <1>19, <2>1 DEF _semantic_diff
      <3> QED BY <1>18, <2>1, <3>1
    <2>2. CASE blocked("template") = None
      <3> DEFINE part == r.report.semantic_diff
      <3>1. IsAFunction(part) /\ part.state = "analyzed"
        BY <1>12, <1>19, <2>2 DEF _semantic_diff, IsAFunction
      <3> QED BY <2>2, <3>1 DEF Analyzed
    <2> QED BY <2>1, <2>2
  <1>20. ASSUME request.reports # None
         PROVE  Analyzed(r.report.finding_delta) <=> blocked("report") = None
    <2>1. CASE blocked("report") # None
      <3>1. r.report.finding_delta = Unanalyzable(blocked("report"))
        BY <1>12, <1>20, <2>1 DEF _finding_delta
      <3> QED BY <1>18, <2>1, <3>1
    <2>2. CASE blocked("report") = None
      <3> DEFINE part == r.report.finding_delta
                 Made(a, b, c, d, e, f, g, h) ==
                   [state |-> "analyzed", observation |-> a, completeness |-> b, integrity |-> c,
                    correspondence |-> d, comparable |-> e, declared |-> f, undeclared |-> g, entries |-> h]
      <3>2. \A a, b, c, d, e, f, g, h : IsAFunction(Made(a, b, c, d, e, f, g, h)) /\ Made(a, b, c, d, e, f, g, h).state = "analyzed"
        BY DEF IsAFunction
      <3>3. PICK a, b, c, d, e, f, g, h : part = Made(a, b, c, d, e, f, g, h)
        <4>1. part = _finding_delta(request, None, plain)
          BY <1>12, <2>2
        <4> DEFINE found == request.delta
                   seen == IF \E e \in found.entries : e.observation # "matched" \/ e.changes # {}
                           THEN "changes_observed" ELSE "no_changes_observed"
                   whole == IF \A e \in found.entries : e.classification \in DECIDED THEN "complete" ELSE "partial"
                   undeclared == {c \in Range(DECLARATION_CODES) \ request.declared :
                                    c = TEMPLATE_DECLARATION => request.templates # None}
                   rendered == {_entry(request, e, plain) : e \in found.entries}
        <4>2. _finding_delta(request, None, plain)
                = Made(seen, whole, found.integrity, found.correspondence, found.comparable, request.declared,
                       undeclared, rendered)
          BY <1>20 DEF _finding_delta
        <4> HIDE DEF part, seen, whole, undeclared, rendered, Made
        <4> QED BY <4>1, <4>2
      <3>1. IsAFunction(part) /\ part.state = "analyzed"
        BY <3>2, <3>3
      <3> QED BY <2>2, <3>1 DEF Analyzed
    <2> QED BY <2>1, <2>2
  <1>21. /\ ~tooLarge /\ (\A f \in F : f.input # "template") <=> blocked("template") = None
         /\ ~tooLarge /\ (\A f \in F : f.input # "report") <=> blocked("report") = None
    BY <1>11
  <1> QED BY <1>15, <1>16, <1>17, <1>19, <1>20, <1>21 DEF F
=============================================================================
