--------------------------- MODULE GroupingProofs ---------------------------
(* What the order and the arithmetic of a partition give, for every set of  *)
(* participants, every group size and every joining times, ties included.   *)
EXTENDS Grouping, FiniteSetTheorems, WellFoundedInduction, TLAPS

(* A non-empty set with numbered elements has a first element: the loops    *)
(* over a listing (fanOutGroupAssignments, Array.find) meet a member of it.  *)
LEMMA FirstInSet ==
  ASSUME NEW P, P # {}, NEW rank, \A p \in P : rank[p] \in Nat
  PROVE  First(P, rank) \in P
<1> DEFINE R == {rank[p] : p \in P}
<1>1. R \subseteq Nat /\ R # {}
  OBVIOUS
<1> DEFINE Below == {ss \in Nat \X Nat : ss[1] < ss[2]}
<1>2. IsWellFoundedOn(Below, Nat)
  BY NatLessThanWellFounded, Zenon DEF OpToRel
<1>3. PICK m \in R : \A n \in R : ~ (<<n, m>> \in Below)
  BY <1>1, <1>2, WFMin
<1>4. \A n \in R : m <= n
  <2> SUFFICES ASSUME NEW n \in R, ~ (m <= n) PROVE FALSE
    OBVIOUS
  <2>1. m \in Nat /\ n \in Nat
    BY <1>1
  <2>2. n < m
    BY <2>1
  <2>3. <<n, m>> \in Below
    BY <2>1, <2>2
  <2> QED
    BY <2>3, <1>3
<1>5. \E p \in P : \A q \in P : rank[p] <= rank[q]
  BY <1>4
<1> QED
  BY <1>5 DEF First

(* A position is a number below the number of participants. *)
LEMMA PositionType ==
  ASSUME NEW P, IsFiniteSet(P), NEW p, NEW joinedAt, NEW rank
  PROVE  Position(p, P, joinedAt, rank) \in Nat
<1>1. {q \in P : Earlier(q, p, joinedAt, rank)} \in SUBSET P
  OBVIOUS
<1> QED
  BY <1>1, FS_Subset, FS_CardinalityType DEF Position

LEMMA GroupIndexType ==
  ASSUME NEW P, IsFiniteSet(P), NEW p, NEW joinedAt, NEW rank,
         NEW size \in Nat \ {0}
  PROVE  GroupIndex(p, P, joinedAt, rank, size) \in Nat
<1>1. Position(p, P, joinedAt, rank) \in Nat
  BY PositionType
<1> QED
  BY <1>1 DEF GroupIndex

(* No two participants have the same position, even if they joined in the   *)
(* same millisecond: the one that sorts first has strictly fewer before it. *)
LEMMA PositionIncreases ==
  ASSUME NEW P, IsFiniteSet(P), NEW p \in P, NEW q \in P,
         NEW joinedAt, \A x \in P : joinedAt[x] \in Nat,
         NEW rank, \A x \in P : rank[x] \in Nat,
         Earlier(p, q, joinedAt, rank)
  PROVE  Position(p, P, joinedAt, rank) # Position(q, P, joinedAt, rank)
<1> DEFINE Before(x) == {y \in P : Earlier(y, x, joinedAt, rank)}
<1>1. Before(p) \in SUBSET Before(q)
  BY DEF Earlier
<1>2. p \in Before(q) /\ p \notin Before(p)
  BY DEF Earlier
<1>3. IsFiniteSet(Before(q))
  BY FS_Subset
<1> HIDE DEF Before
<1>4. Cardinality(Before(q)) # Cardinality(Before(p))
  BY <1>1, <1>2, <1>3, FS_Subset
<1> QED
  BY <1>4 DEF Position, Before

LEMMA PositionInjective ==
  ASSUME NEW P, IsFiniteSet(P),
         NEW joinedAt, \A x \in P : joinedAt[x] \in Nat,
         NEW rank, \A x \in P : rank[x] \in Nat,
         \A x, y \in P : rank[x] = rank[y] => x = y,
         NEW p \in P, NEW q \in P,
         Position(p, P, joinedAt, rank) = Position(q, P, joinedAt, rank)
  PROVE  p = q
<1> SUFFICES ASSUME p # q PROVE FALSE
  OBVIOUS
<1>1. Earlier(p, q, joinedAt, rank) \/ Earlier(q, p, joinedAt, rank)
  BY DEF Earlier
<1> QED
  BY <1>1, PositionIncreases

(* The positions of one group are among `size' consecutive numbers. *)
LEMMA ChunkBounds ==
  ASSUME NEW n \in Nat, NEW size \in Nat \ {0}, NEW i \in Nat, n \div size = i
  PROVE  n \in (i * size) .. (i * size + (size - 1))
<1>1. n = size * (n \div size) + (n % size)
  BY SMT
<1>2. n % size \in 0 .. (size - 1)
  BY SMT
<1>3. i * size \in Nat
  BY SMT
<1> QED
  BY <1>1, <1>2, <1>3, SMT

(* The promise of partitionIntoGroups (grouping.ts): no group is given more *)
(* than `size' participants.                                               *)
THEOREM GroupsWithinSize ==
  ASSUME NEW P, IsFiniteSet(P),
         NEW joinedAt, \A x \in P : joinedAt[x] \in Nat,
         NEW rank, \A x \in P : rank[x] \in Nat,
         \A x, y \in P : rank[x] = rank[y] => x = y,
         NEW size \in Nat \ {0}, NEW i \in Nat
  PROVE  Cardinality({p \in P : GroupIndex(p, P, joinedAt, rank, size) = i}) <= size
<1> DEFINE M == {p \in P : GroupIndex(p, P, joinedAt, rank, size) = i}
           I == (i * size) .. (i * size + (size - 1))
           f == [p \in M |-> Position(p, P, joinedAt, rank)]
<1>1. \A p \in M : f[p] \in I
  <2> SUFFICES ASSUME NEW p \in M PROVE Position(p, P, joinedAt, rank) \in I
    OBVIOUS
  <2>1. Position(p, P, joinedAt, rank) \in Nat
    BY PositionType
  <2>2. Position(p, P, joinedAt, rank) \div size = i
    BY DEF GroupIndex
  <2> QED
    BY <2>1, <2>2, ChunkBounds
<1>2. \A p, q \in M : f[p] = f[q] => p = q
  BY PositionInjective
<1>3. f \in Injection(M, I)
  BY <1>1, <1>2 DEF Injection, IsInjective
<1>4. i * size \in Nat
  BY SMT
<1>5. IsFiniteSet(I) /\ Cardinality(I) = size
  <2> DEFINE a == i * size
  <2>1. a \in Int /\ a + (size - 1) \in Int
    BY <1>4
  <2> HIDE DEF a
  <2>2. /\ IsFiniteSet(a .. (a + (size - 1)))
        /\ Cardinality(a .. (a + (size - 1))) =
             IF a > a + (size - 1) THEN 0 ELSE (a + (size - 1)) - a + 1
    BY <2>1, FS_Interval
  <2>3. Cardinality(a .. (a + (size - 1))) = size
    BY <2>1, <2>2
  <2> QED
    BY <2>2, <2>3 DEF a
<1> QED
  BY <1>3, <1>5, FS_Injection

LEMMA DivMonotone ==
  ASSUME NEW m \in Nat, NEW n \in Nat, m <= n, NEW size \in Nat \ {0}
  PROVE  m \div size <= n \div size
<1> DEFINE a == m \div size
           b == n \div size
<1>1. a \in Nat /\ b \in Nat
  BY SMT
<1>2. m \in (a * size) .. (a * size + (size - 1))
  BY <1>1, ChunkBounds
<1>3. n \in (b * size) .. (b * size + (size - 1))
  BY <1>1, ChunkBounds
<1> HIDE DEF a, b
<1> SUFFICES ASSUME b < a PROVE FALSE
  BY <1>1 DEF a, b
<1>4. PICK k \in Nat : a = b + 1 + k
  <2>1. a - b - 1 \in Nat
    BY <1>1
  <2>2. a = b + 1 + (a - b - 1)
    BY <1>1
  <2> QED
    BY <2>1, <2>2
<1>5. a * size = b * size + size + k * size
  BY <1>1, <1>4, SMT
<1>6. k * size \in Nat /\ b * size \in Nat
  BY <1>1, <1>4, SMT
<1> QED
  BY <1>2, <1>3, <1>5, <1>6

(* Participants who arrive together are grouped together: nobody who joined *)
(* later sits in an earlier group (the sort by joinedAt, grouping.ts).      *)
THEOREM JoinOrderKept ==
  ASSUME NEW P, IsFiniteSet(P),
         NEW joinedAt, \A x \in P : joinedAt[x] \in Nat,
         NEW rank, NEW size \in Nat \ {0},
         NEW p \in P, NEW q \in P, joinedAt[p] < joinedAt[q]
  PROVE  GroupIndex(p, P, joinedAt, rank, size) <= GroupIndex(q, P, joinedAt, rank, size)
<1> DEFINE Before(x) == {y \in P : Earlier(y, x, joinedAt, rank)}
<1>1. Before(p) \in SUBSET Before(q)
  BY DEF Earlier
<1>2. IsFiniteSet(Before(q))
  BY FS_Subset
<1>3. Position(p, P, joinedAt, rank) <= Position(q, P, joinedAt, rank)
  <2> HIDE DEF Before
  <2>1. Cardinality(Before(p)) <= Cardinality(Before(q))
    BY <1>1, <1>2, FS_Subset
  <2> QED
    BY <2>1 DEF Position, Before
<1>4. Position(p, P, joinedAt, rank) \in Nat /\ Position(q, P, joinedAt, rank) \in Nat
  BY PositionType
<1> QED
  BY <1>3, <1>4, DivMonotone DEF GroupIndex

(* Every position up to the number of participants is somebody's. *)
LEMMA PositionsTaken ==
  ASSUME NEW P, IsFiniteSet(P),
         NEW joinedAt, \A x \in P : joinedAt[x] \in Nat,
         NEW rank, \A x \in P : rank[x] \in Nat,
         \A x, y \in P : rank[x] = rank[y] => x = y,
         NEW n \in Nat, n < Cardinality(P)
  PROVE  \E p \in P : Position(p, P, joinedAt, rank) = n
<1> DEFINE c == Cardinality(P)
           I == 0 .. (c - 1)
           f == [p \in P |-> Position(p, P, joinedAt, rank)]
<1>1. c \in Nat
  BY FS_CardinalityType
<1>2. \A p \in P : f[p] \in I
  <2> SUFFICES ASSUME NEW p \in P PROVE Position(p, P, joinedAt, rank) \in I
    OBVIOUS
  <2> DEFINE Before == {y \in P : Earlier(y, p, joinedAt, rank)}
  <2>1. Before \in SUBSET P /\ p \notin Before
    BY DEF Earlier
  <2> HIDE DEF Before
  <2>2. Cardinality(Before) <= c /\ Cardinality(Before) # c
    BY <2>1, FS_Subset
  <2>3. Position(p, P, joinedAt, rank) = Cardinality(Before)
    BY DEF Position, Before
  <2>4. Position(p, P, joinedAt, rank) \in Nat
    BY PositionType
  <2> QED
    BY <1>1, <2>2, <2>3, <2>4
<1>3. \A p, q \in P : f[p] = f[q] => p = q
  BY PositionInjective
<1>4. f \in Injection(P, I)
  BY <1>2, <1>3 DEF Injection, IsInjective
<1>5. IsFiniteSet(I) /\ Cardinality(I) = c
  <2> HIDE DEF c
  <2>1. /\ IsFiniteSet(0 .. (c - 1))
        /\ Cardinality(0 .. (c - 1)) = IF 0 > c - 1 THEN 0 ELSE (c - 1) - 0 + 1
    BY <1>1, FS_Interval
  <2> QED
    BY <1>1, <2>1
<1>6. f \in Surjection(P, I)
  BY <1>4, <1>5, FS_Injection
<1>7. n \in I
  BY <1>1
<1>8. \E p \in P : f[p] = n
  BY <1>6, <1>7 DEF Surjection
<1> QED
  BY <1>8

(* The groups fill in order: while there are participants enough, a group   *)
(* has `size' of them, so that at most the last is smaller, and none is     *)
(* empty (the slices of partitionIntoGroups; grouping.test.ts: 8/8/4).      *)
THEOREM GroupsFillInOrder ==
  ASSUME NEW P, IsFiniteSet(P),
         NEW joinedAt, \A x \in P : joinedAt[x] \in Nat,
         NEW rank, \A x \in P : rank[x] \in Nat,
         \A x, y \in P : rank[x] = rank[y] => x = y,
         NEW size \in Nat \ {0}, NEW i \in Nat
  PROVE  i * size + size <= Cardinality(P) =>
           Cardinality({p \in P : GroupIndex(p, P, joinedAt, rank, size) = i}) = size
<1> DEFINE M == {p \in P : GroupIndex(p, P, joinedAt, rank, size) = i}
<1>1. Cardinality(M) <= size
  BY GroupsWithinSize
<1>2. \A n \in Nat : n < Cardinality(P) =>
        \E p \in P : Position(p, P, joinedAt, rank) = n
  BY PositionsTaken
<1>3. SUFFICES ASSUME i * size + size <= Cardinality(P) PROVE Cardinality(M) = size
  OBVIOUS
<1> DEFINE Place(n) == CHOOSE p \in P : Position(p, P, joinedAt, rank) = n
           I == 0 .. (size - 1)
           f == [k \in I |-> Place(i * size + k)]
<1>4. i * size \in Nat /\ Cardinality(P) \in Nat
  BY FS_CardinalityType, SMT
<1>5. ASSUME NEW k \in I
      PROVE  f[k] \in P /\ Position(f[k], P, joinedAt, rank) = i * size + k
  <2>1. i * size + k \in Nat /\ i * size + k < Cardinality(P)
    BY <1>3, <1>4
  <2>2. \E p \in P : Position(p, P, joinedAt, rank) = i * size + k
    BY <2>1, <1>2
  <2> QED
    BY <2>2
<1>6. ASSUME NEW k \in I PROVE f[k] \in M
  <2>1. (i * size + k) \div size = i
    BY SMT
  <2> QED
    BY <1>5, <2>1 DEF GroupIndex
<1>7. \A k, l \in I : f[k] = f[l] => k = l
  <2> SUFFICES ASSUME NEW k \in I, NEW l \in I, f[k] = f[l] PROVE k = l
    OBVIOUS
  <2>1. i * size + k = i * size + l
    BY <1>5, Zenon
  <2> QED
    BY <1>4, <2>1
<1>8. f \in Injection(I, M)
  BY <1>6, <1>7 DEF Injection, IsInjective
<1>9. IsFiniteSet(M)
  BY FS_Subset
<1>10. Cardinality(I) = size
  BY FS_Interval
<1>11. size <= Cardinality(M)
  BY <1>8, <1>9, <1>10, FS_Injection
<1>12. Cardinality(M) \in Nat
  BY <1>9, FS_CardinalityType
<1> QED
  BY <1>1, <1>11, <1>12

=============================================================================
