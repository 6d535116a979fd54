----------------------------- MODULE PartsProofs -----------------------------
(* The three parts of the server that are models of their own and small: the *)
(* loop of a partition, the cap on sockets and the rate limiter.  They share *)
(* no state: the latter two name their specifications after themselves so    *)
(* that one module can extend all three.                                     *)
EXTENDS GroupingLoop, ConnectionCap, TokenBucket, GroupingProofs

----------------------------------------------------------------------------
(* The loop of a partition.                                                 *)
PositionOf(p) == Position(p, ours, joined, KeyOrder)
IndexOf(p) == GroupIndex(p, ours, joined, KeyOrder, size)

(* The groups made so far have the first k chunks of positions, the last of *)
(* them begun within the line, and nobody else has a group.                 *)
LoopTypeOK ==
  /\ joined \in [Person -> Nat] /\ ours \subseteq Person /\ size \in Nat \ {0}
  /\ pc \in {"sort", "loop", "made", "merged"}

LoopInv ==
  /\ LoopTypeOK
  /\ pc = "sort" => /\ i = 0 /\ groups = <<>>
                    /\ \A p \in Person : table[p] = NoGroup
  /\ pc \in {"loop", "made"} =>
       /\ line \in Sorted(ours)
       /\ \E k \in Nat : /\ i = k * size /\ groups = [m \in 1..k |-> m - 1]
                         /\ k > 0 => (k - 1) * size < Cardinality(ours)
       /\ \A p \in Person : table[p] = IF p \in ours /\ PositionOf(p) < i THEN IndexOf(p)
                                                                         ELSE NoGroup
  /\ pc = "made" => i >= Cardinality(ours)

LEMMA OursFacts ==
  ASSUME LoopTypeOK
  PROVE  /\ IsFiniteSet(ours) /\ Cardinality(ours) \in Nat
         /\ \A x \in ours : joined[x] \in Nat /\ KeyOrder[x] \in Nat
         /\ \A x, y \in ours : KeyOrder[x] = KeyOrder[y] => x = y
<1>1. ours \subseteq Person
  BY DEF LoopTypeOK
<1>2. IsFiniteSet(ours)
  BY <1>1, FS_Subset, LoopAssumption
<1> QED
  BY <1>1, <1>2, FS_CardinalityType, LoopAssumption DEF LoopTypeOK

(* The n-th of the sorted line has n - 1 participants before it, and the    *)
(* line has all of them.                                                    *)
LEMMA LinePositions ==
  ASSUME LoopTypeOK, NEW s \in Sorted(ours)
  PROVE  /\ \A n \in 1..Cardinality(ours) : s[n] \in ours /\ PositionOf(s[n]) = n - 1
         /\ \A p \in ours : \E n \in 1..Cardinality(ours) : s[n] = p
<1> DEFINE N == Cardinality(ours)
<1>1. /\ IsFiniteSet(ours) /\ N \in Nat
      /\ \A x \in ours : joined[x] \in Nat /\ KeyOrder[x] \in Nat
  BY OursFacts
<1>2. /\ s \in [1..N -> ours]
      /\ \A m, n \in 1..N : m < n => Earlier(s[m], s[n], joined, KeyOrder)
  BY DEF Sorted
<1>3. \A p \in ours : ~ Earlier(p, p, joined, KeyOrder)
  BY <1>1 DEF Earlier
<1>4. \A p, q \in ours : Earlier(p, q, joined, KeyOrder) => ~ Earlier(q, p, joined, KeyOrder)
  BY <1>1 DEF Earlier
<1> HIDE DEF N
<1>5. \A m, n \in 1..N : s[m] = s[n] => m = n
  <2> SUFFICES ASSUME NEW m \in 1..N, NEW n \in 1..N, s[m] = s[n], m < n PROVE FALSE
    BY <1>1
  <2> QED
    BY <1>2, <1>3
<1>6. s \in Injection(1..N, ours)
  BY <1>2, <1>5 DEF Injection, IsInjective
<1>7. IsFiniteSet(1..N) /\ Cardinality(1..N) = N
  BY <1>1, FS_Interval
<1>8. s \in Surjection(1..N, ours)
  BY <1>1, <1>6, <1>7, FS_Injection DEF N
<1>9. \A p \in ours : \E n \in 1..N : s[n] = p
  BY <1>8 DEF Surjection
<1>10. ASSUME NEW n \in 1..N
       PROVE  s[n] \in ours /\ PositionOf(s[n]) = n - 1
  <2> DEFINE I == 1..(n - 1)
             B == {q \in ours : Earlier(q, s[n], joined, KeyOrder)}
             f == [m \in I |-> s[m]]
  <2>1. s[n] \in ours /\ I \subseteq 1..N
    BY <1>1, <1>2
  <2>2. \A m \in I : f[m] \in B
    BY <1>1, <1>2, <2>1
  <2>3. ASSUME NEW q \in B PROVE \E m \in I : f[m] = q
    <3>1. PICK m \in 1..N : s[m] = q
      BY <1>9
    <3>2. ~ (n < m) /\ m # n
      BY <1>2, <1>3, <1>4, <2>1, <3>1
    <3>3. m \in I
      BY <1>1, <3>2
    <3> QED
      BY <3>1, <3>3
  <2>4. \A l, m \in I : f[l] = f[m] => l = m
    BY <1>5, <2>1
  <2>5. f \in Bijection(I, B)
    BY <2>2, <2>3, <2>4 DEF Bijection, Injection, Surjection, IsInjective
  <2>6. IsFiniteSet(I) /\ Cardinality(I) = n - 1
    BY <1>1, FS_Interval
  <2> HIDE DEF I, B, f
  <2>7. Cardinality(B) = n - 1
    BY <2>5, <2>6, FS_Bijection DEF ExistsBijection
  <2> QED
    BY <2>1, <2>7 DEF PositionOf, Position, B
<1> QED
  BY <1>9, <1>10 DEF N

LEMMA ChunkIndex ==
  ASSUME NEW n \in Nat, NEW k \in Nat, NEW m \in Nat \ {0},
         k * m <= n, n < k * m + m
  PROVE  n \div m = k
<1>1. k * m \in Nat
  BY SMT
<1>2. PICK r \in 0..(m - 1) : n = k * m + r
  <2>1. n - k * m \in 0..(m - 1) /\ n = k * m + (n - k * m)
    BY <1>1
  <2> QED
    BY <2>1
<1>3. (k * m + r) \div m = k
  BY SMT
<1> QED
  BY <1>2, <1>3

(* A slice of the line: the participants at those positions.                *)
LEMMA SliceIs ==
  ASSUME LoopTypeOK, line \in Sorted(ours), NEW from \in Nat, NEW to \in Nat
  PROVE  Slice(from, to) = {p \in ours : from <= PositionOf(p) /\ PositionOf(p) < to}
<1> DEFINE N == Cardinality(ours)
           end == IF to <= N THEN to ELSE N
<1>1. N \in Nat
  BY OursFacts
<1>2. /\ \A n \in 1..N : line[n] \in ours /\ PositionOf(line[n]) = n - 1
      /\ \A p \in ours : \E n \in 1..N : line[n] = p
  BY LinePositions
<1>3. line \in Seq(ours) /\ Len(line) = N
  BY <1>1 DEF Sorted
<1>4. Min({to, N}) = end
  <2>1. end \in {to, N} /\ \A x \in {to, N} : end <= x
    BY <1>1
  <2>2. \A y \in {to, N} : (\A x \in {to, N} : y <= x) => y = end
    BY <1>1
  <2> HIDE DEF N, end
  <2> QED
    BY <2>1, <2>2 DEF Min
<1> HIDE DEF N
<1>5. end \in Nat /\ end <= N
  BY <1>1
<1> DEFINE S == SubSeq(line, from + 1, end)
<1>6. Slice(from, to) = {S[x] : x \in DOMAIN S}
  BY <1>3, <1>4 DEF Slice, Range
<1>7. \A p : p \in {S[x] : x \in DOMAIN S} <=> \E n \in (from + 1)..end : p = line[n]
  <2>1. S = [x \in 1..(IF from + 1 <= end THEN end - from ELSE 0) |-> line[from + x]]
    BY <1>1, <1>3, <1>5
  <2>2. ASSUME NEW x \in DOMAIN S
        PROVE  from + x \in (from + 1)..end /\ S[x] = line[from + x]
    BY <2>1, <1>5
  <2>3. ASSUME NEW n \in (from + 1)..end
        PROVE  n - from \in DOMAIN S /\ S[n - from] = line[n]
    <3> HIDE DEF end
    <3>1. n - from \in 1..(end - from) /\ from + 1 <= end /\ from + (n - from) = n
      BY <1>5
    <3>2. n - from \in DOMAIN S
      BY <2>1, <3>1
    <3>3. S[n - from] = line[from + (n - from)]
      BY <2>1, <3>2
    <3> QED
      BY <3>1, <3>2, <3>3
  <2> HIDE DEF S
  <2> QED
    BY <2>2, <2>3
<1> HIDE DEF S
<1>8. ASSUME NEW p, p \in Slice(from, to)
      PROVE  p \in ours /\ from <= PositionOf(p) /\ PositionOf(p) < to
  <2>1. PICK n \in (from + 1)..end : p = line[n]
    BY <1>6, <1>7, <1>8
  <2>2. n \in 1..N /\ n <= to
    BY <1>1, <1>5
  <2>3. p \in ours /\ PositionOf(p) = n - 1
    BY <1>2, <2>1, <2>2
  <2> QED
    BY <2>2, <2>3
<1>9. ASSUME NEW p \in ours, from <= PositionOf(p), PositionOf(p) < to
      PROVE  p \in Slice(from, to)
  <2>1. PICK n \in 1..N : line[n] = p
    BY <1>2
  <2>2. PositionOf(p) = n - 1
    BY <1>2, <2>1
  <2>3. n \in (from + 1)..end
    BY <1>1, <1>9, <2>2
  <2> QED
    BY <1>6, <1>7, <2>1, <2>3
<1> QED
  BY <1>8, <1>9

LEMMA LineLength ==
  ASSUME LoopTypeOK, line \in Sorted(ours)
  PROVE  Len(line) = Cardinality(ours)
<1>1. Cardinality(ours) \in Nat
  BY OursFacts
<1> QED
  BY <1>1 DEF Sorted

LEMMA PositionsOfOurs ==
  ASSUME LoopTypeOK, line \in Sorted(ours), NEW p \in ours
  PROVE  PositionOf(p) \in Nat /\ PositionOf(p) < Cardinality(ours)
<1>1. PICK n \in 1..Cardinality(ours) : line[n] = p
  BY LinePositions
<1>2. PositionOf(p) = n - 1
  BY <1>1, LinePositions
<1>3. Cardinality(ours) \in Nat
  BY OursFacts
<1> QED
  BY <1>2, <1>3

LEMMA MakeGroupKeeps ==
  ASSUME LoopInv, MakeGroup
  PROVE  LoopInv'
<1>1. /\ LoopTypeOK /\ line \in Sorted(ours)
      /\ \A p \in Person : table[p] = IF p \in ours /\ PositionOf(p) < i THEN IndexOf(p)
                                                                        ELSE NoGroup
  BY DEF LoopInv, MakeGroup
<1>2. PICK k \in Nat : i = k * size /\ groups = [m \in 1..k |-> m - 1]
  BY DEF LoopInv, MakeGroup
<1>3. /\ pc = "loop" /\ i < Len(line)
      /\ table' = [p \in Person |-> IF p \in Slice(i, i + size) THEN i \div size ELSE table[p]]
      /\ groups' = Append(groups, i \div size)
      /\ i' = i + size
      /\ UNCHANGED <<joined, ours, size, line, pc>>
  BY DEF MakeGroup
<1>4. size \in Nat \ {0} /\ ours \subseteq Person
  BY <1>1 DEF LoopTypeOK
<1>5. i \in Nat
  BY <1>2, <1>4, SMT
<1>6. i < k * size + size
  BY <1>2, <1>4, <1>5
<1>7. i \div size = k
  BY <1>2, <1>4, <1>5, <1>6, ChunkIndex
<1>8. i' = (k + 1) * size /\ k + 1 \in Nat
  BY <1>2, <1>3, <1>4, SMT
<1>9. groups' = [m \in 1..(k + 1) |-> m - 1]
  BY <1>2, <1>3, <1>7
<1>10. i < Cardinality(ours)
  BY <1>1, <1>3, LineLength
<1>11. Slice(i, i + size) = {p \in ours : i <= PositionOf(p) /\ PositionOf(p) < i + size}
  BY <1>1, <1>4, <1>5, SliceIs
<1>12. ASSUME NEW p \in ours, i <= PositionOf(p), PositionOf(p) < i + size
       PROVE  IndexOf(p) = k
  <2>1. PositionOf(p) \in Nat
    BY <1>1, PositionsOfOurs
  <2>2. PositionOf(p) \div size = k
    BY <1>2, <1>4, <1>12, <2>1, ChunkIndex
  <2> QED
    BY <2>2 DEF IndexOf, GroupIndex, PositionOf
<1>13. ASSUME NEW p \in Person
       PROVE  table'[p] = IF p \in ours /\ PositionOf(p) < i' THEN IndexOf(p) ELSE NoGroup
  <2>1. CASE p \in Slice(i, i + size)
    BY <1>3, <1>7, <1>11, <1>12, <2>1
  <2>2. CASE p \notin Slice(i, i + size)
    <3>1. table'[p] = table[p]
      BY <1>3, <2>2
    <3>2. p \in ours => PositionOf(p) \in Nat
      BY <1>1, PositionsOfOurs
    <3>3. ~ (p \in ours /\ i <= PositionOf(p) /\ PositionOf(p) < i + size)
      BY <1>11, <2>2
    <3>4. CASE p \in ours
      <4>1. PositionOf(p) < i + size <=> PositionOf(p) < i
        BY <1>4, <1>5, <3>2, <3>3, <3>4
      <4> QED
        BY <1>1, <1>3, <3>1, <3>4, <4>1
    <3>5. CASE p \notin ours
      BY <1>1, <3>1, <3>5
    <3> QED
      BY <3>4, <3>5
  <2> QED
    BY <2>1, <2>2
<1>14. \A p : PositionOf(p)' = PositionOf(p) /\ IndexOf(p)' = IndexOf(p)
  BY <1>3 DEF PositionOf, IndexOf, Position, GroupIndex, Earlier
<1>15. line' \in Sorted(ours)'
  BY <1>1, <1>3 DEF Sorted, Earlier
<1>16. LoopTypeOK'
  BY <1>1, <1>3 DEF LoopTypeOK
<1>17. (k + 1) - 1 = k /\ k * size < Cardinality(ours)
  BY <1>2, <1>10
<1>18. \E l \in Nat : /\ i' = l * size' /\ groups' = [m \in 1..l |-> m - 1]
                      /\ l > 0 => (l - 1) * size' < Cardinality(ours')
  <2>1. i' = (k + 1) * size' /\ ((k + 1) - 1) * size' < Cardinality(ours')
    BY <1>3, <1>8, <1>17
  <2> QED
    BY <1>8, <1>9, <2>1, Zenon
<1>19. (\A p \in Person : table[p] = IF p \in ours /\ PositionOf(p) < i THEN IndexOf(p)
                                                                      ELSE NoGroup)'
  BY <1>3, <1>13, <1>14
<1>20. pc' = "loop"
  BY <1>3
<1> QED
  BY <1>15, <1>16, <1>18, <1>19, <1>20 DEF LoopInv

LEMMA NextKeepsLoop ==
  ASSUME LoopInv, [Next]_vars
  PROVE  LoopInv'
<1>1. CASE SortParticipants
  <2>1. /\ LoopTypeOK /\ i = 0 /\ groups = <<>>
        /\ \A p \in Person : table[p] = NoGroup
    BY <1>1 DEF LoopInv, SortParticipants
  <2>2. /\ line' \in Sorted(ours) /\ pc' = "loop"
        /\ UNCHANGED <<joined, ours, size, i, groups, table>>
    BY <1>1 DEF SortParticipants
  <2>3. LoopTypeOK'
    BY <2>1, <2>2 DEF LoopTypeOK
  <2>4. line' \in Sorted(ours)'
    BY <2>2 DEF Sorted, Earlier
  <2>5. \E l \in Nat : /\ i' = l * size' /\ groups' = [m \in 1..l |-> m - 1]
                       /\ l > 0 => (l - 1) * size' < Cardinality(ours')
    <3>1. i' = 0 * size' /\ groups' = [m \in 1..0 |-> m - 1]
      BY <2>1, <2>2 DEF LoopTypeOK
    <3>2. 0 \in Nat /\ ~ (0 > 0)
      OBVIOUS
    <3> QED
      BY <3>1, <3>2, Zenon
  <2>6. ASSUME NEW p \in Person PROVE ~ (p \in ours /\ PositionOf(p) < i)
    <3> SUFFICES ASSUME p \in ours PROVE ~ (PositionOf(p) < 0)
      BY <2>1
    <3>1. PositionOf(p) \in Nat
      BY <2>1, OursFacts, PositionType DEF PositionOf
    <3> QED
      BY <3>1
  <2>7. \A p : PositionOf(p)' = PositionOf(p) /\ IndexOf(p)' = IndexOf(p)
    BY <2>2 DEF PositionOf, IndexOf, Position, GroupIndex, Earlier
  <2>8. (\A p \in Person : table[p] = IF p \in ours /\ PositionOf(p) < i THEN IndexOf(p)
                                                                       ELSE NoGroup)'
    BY <2>1, <2>2, <2>6, <2>7
  <2> QED
    BY <2>2, <2>3, <2>4, <2>5, <2>8 DEF LoopInv
<1>2. CASE MakeGroup
  BY <1>2, MakeGroupKeeps
<1>3. CASE EndLoop
  <2>1. /\ LoopTypeOK /\ line \in Sorted(ours) /\ i >= Len(line)
        /\ pc' = "made" /\ UNCHANGED <<joined, ours, size, line, i, groups, table>>
    BY <1>3 DEF LoopInv, EndLoop
  <2>2. i >= Cardinality(ours)
    BY <2>1, LineLength
  <2>3. LoopTypeOK' /\ line' \in Sorted(ours)'
    BY <2>1 DEF LoopTypeOK, Sorted, Earlier
  <2>4. \A p : PositionOf(p)' = PositionOf(p) /\ IndexOf(p)' = IndexOf(p)
    BY <2>1 DEF PositionOf, IndexOf, Position, GroupIndex, Earlier
  <2>5. /\ \E k \in Nat : /\ i = k * size /\ groups = [m \in 1..k |-> m - 1]
                          /\ k > 0 => (k - 1) * size < Cardinality(ours)
        /\ \A p \in Person : table[p] = IF p \in ours /\ PositionOf(p) < i THEN IndexOf(p)
                                                                          ELSE NoGroup
    BY <1>3 DEF LoopInv, EndLoop
  <2>6. (\A p \in Person : table[p] = IF p \in ours /\ PositionOf(p) < i THEN IndexOf(p)
                                                                       ELSE NoGroup)'
    BY <2>1, <2>4, <2>5
  <2>7. (\E k \in Nat : /\ i = k * size /\ groups = [m \in 1..k |-> m - 1]
                        /\ k > 0 => (k - 1) * size < Cardinality(ours))'
    BY <2>1, <2>5
  <2> QED
    BY <2>1, <2>2, <2>3, <2>6, <2>7 DEF LoopInv
<1>4. CASE MergeToPlenary
  BY <1>4 DEF MergeToPlenary, LoopInv, LoopTypeOK
<1>5. CASE UNCHANGED vars
  <2>1. LoopTypeOK' /\ Sorted(ours)' = Sorted(ours)
    BY <1>5 DEF vars, LoopInv, LoopTypeOK, Sorted, Earlier
  <2>2. \A p : PositionOf(p)' = PositionOf(p) /\ IndexOf(p)' = IndexOf(p)
    BY <1>5 DEF vars, PositionOf, IndexOf, Position, GroupIndex, Earlier
  <2> QED
    BY <1>5, <2>1, <2>2 DEF vars, LoopInv
<1> QED
  BY <1>1, <1>2, <1>3, <1>4, <1>5 DEF Next, Terminated

(* For every set of participants, every order of keys, all joining times    *)
(* and every size, the loop of partitionIntoGroups gives each participant   *)
(* the group that Grouping!GroupIndex says.                                 *)
THEOREM LoopCorrect == Spec => []LoopMatchesPosition
<1>1. Init => LoopInv
  <2> SUFFICES ASSUME Init PROVE LoopInv
    OBVIOUS
  <2>1. LoopTypeOK
    BY LoopAssumption DEF Init, LoopTypeOK
  <2> QED
    BY <2>1 DEF Init, LoopInv
<1>2. LoopInv /\ [Next]_vars => LoopInv'
  BY NextKeepsLoop
<1>3. LoopInv => LoopMatchesPosition
  <2> SUFFICES ASSUME LoopInv, pc = "made" PROVE
        /\ \A p \in Person : table[p] = IF p \in ours THEN IndexOf(p) ELSE NoGroup
        /\ groups = [k \in 1..Len(groups) |-> k - 1]
        /\ ToSet(groups) = {table[p] : p \in ours}
    BY DEF LoopMatchesPosition, IndexOf
  <2>1. /\ LoopTypeOK /\ line \in Sorted(ours) /\ i >= Cardinality(ours)
        /\ \A p \in Person : table[p] = IF p \in ours /\ PositionOf(p) < i THEN IndexOf(p)
                                                                          ELSE NoGroup
    BY DEF LoopInv
  <2>2. PICK k \in Nat : /\ i = k * size /\ groups = [m \in 1..k |-> m - 1]
                         /\ k > 0 => (k - 1) * size < Cardinality(ours)
    BY DEF LoopInv
  <2>3. /\ IsFiniteSet(ours) /\ Cardinality(ours) \in Nat
        /\ \A x \in ours : joined[x] \in Nat /\ KeyOrder[x] \in Nat
        /\ \A x, y \in ours : KeyOrder[x] = KeyOrder[y] => x = y
    BY <2>1, OursFacts
  <2>4. size \in Nat \ {0} /\ ours \subseteq Person
    BY <2>1 DEF LoopTypeOK
  <2>5. i \in Nat
    BY <2>2, <2>4, SMT
  <2>6. \A p \in ours : PositionOf(p) \in Nat /\ PositionOf(p) < i
    <3> SUFFICES ASSUME NEW p \in ours PROVE PositionOf(p) \in Nat /\ PositionOf(p) < i
      OBVIOUS
    <3>1. PositionOf(p) \in Nat /\ PositionOf(p) < Cardinality(ours)
      BY <2>1, PositionsOfOurs
    <3> QED
      BY <2>1, <2>3, <2>5, <3>1
  <2>7. \A p \in Person : table[p] = IF p \in ours THEN IndexOf(p) ELSE NoGroup
    BY <2>1, <2>6
  <2>8. Len(groups) = k /\ groups = [m \in 1..Len(groups) |-> m - 1]
    BY <2>2
  <2>9. ToSet(groups) = 0..(k - 1)
    <3>1. ToSet(groups) = {groups[m] : m \in 1..k}
      BY <2>2 DEF ToSet
    <3>2. ASSUME NEW m \in 1..k PROVE groups[m] \in 0..(k - 1)
      BY <2>2
    <3>3. ASSUME NEW n \in 0..(k - 1) PROVE n + 1 \in 1..k /\ groups[n + 1] = n
      BY <2>2
    <3> QED
      BY <3>1, <3>2, <3>3
  <2>10. ASSUME NEW p \in ours PROVE table[p] \in 0..(k - 1)
    <3>1. IndexOf(p) = PositionOf(p) \div size
      BY DEF IndexOf, GroupIndex, PositionOf
    <3>2. ASSUME NEW n \in Nat, n < k * size PROVE n \div size \in 0..(k - 1)
      <4> DEFINE d == n \div size
      <4>1. d \in Nat
        BY <2>4, SMT
      <4>2. n \in (d * size) .. (d * size + (size - 1))
        BY <2>4, <4>1, ChunkBounds
      <4> HIDE DEF d
      <4>3. ASSUME k <= d PROVE k * size <= d * size
        <5>1. PICK e \in Nat : d = k + e
          <6>1. d - k \in Nat /\ d = k + (d - k)
            BY <4>1, <4>3
          <6> QED
            BY <6>1
        <5>2. d * size = k * size + e * size /\ e * size \in Nat /\ k * size \in Nat
          BY <2>4, <5>1, SMT
        <5> QED
          BY <5>2
      <4>4. d * size \in Nat /\ k * size \in Nat
        BY <2>4, <4>1, SMT
      <4>5. d < k
        BY <3>2, <4>1, <4>2, <4>3, <4>4
      <4> QED
        BY <4>1, <4>5 DEF d
    <3> QED
      BY <2>2, <2>4, <2>6, <2>7, <3>1, <3>2
  <2>11. ASSUME NEW n \in 0..(k - 1) PROVE \E p \in ours : table[p] = n
    <3>1. n * size \in Nat /\ (k - 1) * size \in Nat /\ n * size <= (k - 1) * size
      <4>1. PICK e \in Nat : k - 1 = n + e
        <5>1. (k - 1) - n \in Nat /\ k - 1 = n + ((k - 1) - n)
          OBVIOUS
        <5> QED
          BY <5>1
      <4>2. (n + e) * size = n * size + e * size /\ e * size \in Nat /\ n * size \in Nat
        BY <2>4, SMT
      <4> QED
        BY <4>1, <4>2
    <3>2. n * size < Cardinality(ours)
      BY <2>2, <2>3, <3>1
    <3>3. PICK p \in ours : PositionOf(p) = n * size
      <4> DEFINE m == n * size
      <4>1. m \in Nat /\ m < Cardinality(ours)
        BY <3>1, <3>2
      <4> HIDE DEF m
      <4>2. \E p \in ours : Position(p, ours, joined, KeyOrder) = m
        BY <2>3, <4>1, PositionsTaken
      <4> QED
        BY <4>2 DEF PositionOf, m
    <3>4. (n * size) \div size = n
      BY <2>4, <3>1, ChunkIndex
    <3>5. IndexOf(p) = n
      BY <3>3, <3>4 DEF IndexOf, GroupIndex, PositionOf
    <3> QED
      BY <2>4, <2>7, <3>5
  <2> HIDE DEF ToSet
  <2>12. ToSet(groups) = {table[p] : p \in ours}
    BY <2>9, <2>10, <2>11
  <2> QED
    BY <2>7, <2>8, <2>12
<1> QED
  BY <1>1, <1>2, <1>3, PTL DEF Spec

----------------------------------------------------------------------------
(* The cap on sockets, for any number of addresses and requests, any cap.   *)
LEMMA CapFacts ==
  /\ IsFiniteSet(Socket) /\ IpOf \in [Socket -> Ip] /\ MaxPerIp \in Nat
  /\ Errors \subseteq Socket /\ EarlyEnds \subseteq Socket
BY CapAssumption DEF CapAssumption

(* Without transport errors a slot is counted for every live socket, and   *)
(* perhaps for some that are gone.                                         *)
EverySocketCounted ==
  \A ip \in Ip : ErrorFree(ip) =>
    Cardinality(LiveAt(ip)) <= counts[ip] /\ counts[ip] <= MaxPerIp

(* Without early ends no slot is counted but for a live socket.            *)
NoSlotLost ==
  \A ip \in Ip : Patient(ip) => counts[ip] <= Cardinality(LiveAt(ip))

LEMMA LiveFinite ==
  ASSUME NEW ip \in Ip
  PROVE  IsFiniteSet(LiveAt(ip)) /\ Cardinality(LiveAt(ip)) \in Nat
<1>1. LiveAt(ip) \in SUBSET Socket
  BY DEF LiveAt
<1> QED
  BY <1>1, CapFacts, FS_Subset, FS_CardinalityType

\* What a request that is let in adds, a socket that ends takes away, and any
\* other step leaves.
LEMMA LiveBegins ==
  ASSUME CapTypeOK, NEW s \in Socket, Over(s), ws' = [ws EXCEPT ![s] = "connecting"],
         NEW ip \in Ip
  PROVE  Cardinality(LiveAt(ip)') =
           Cardinality(LiveAt(ip)) + (IF ip = IpOf[s] THEN 1 ELSE 0)
<1>1. CASE ip = IpOf[s]
  <2>1. LiveAt(ip)' = LiveAt(ip) \cup {s} /\ s \notin LiveAt(ip)
    BY <1>1 DEF LiveAt, Live, Over, CapTypeOK
  <2>2. Cardinality(LiveAt(ip) \cup {s}) = Cardinality(LiveAt(ip)) + 1
    BY <2>1, LiveFinite, FS_AddElement
  <2> QED
    BY <1>1, <2>1, <2>2
<1>2. CASE ip # IpOf[s]
  <2>1. LiveAt(ip)' = LiveAt(ip)
    BY <1>2 DEF LiveAt, Live, CapTypeOK
  <2> QED
    BY <1>2, <2>1, LiveFinite
<1> QED
  BY <1>1, <1>2

LEMMA LiveEnds ==
  ASSUME CapTypeOK, NEW s \in Socket, Live(s), ws' = [ws EXCEPT ![s] = "closed"],
         NEW ip \in Ip
  PROVE  /\ ip # IpOf[s] => Cardinality(LiveAt(ip)') = Cardinality(LiveAt(ip))
         /\ ip = IpOf[s] => /\ Cardinality(LiveAt(ip)) >= 1
                            /\ Cardinality(LiveAt(ip)') = Cardinality(LiveAt(ip)) - 1
<1>1. CASE ip = IpOf[s]
  <2>1. LiveAt(ip)' = LiveAt(ip) \ {s} /\ s \in LiveAt(ip)
    BY <1>1 DEF LiveAt, Live, CapTypeOK
  <2>2. Cardinality(LiveAt(ip) \ {s}) = Cardinality(LiveAt(ip)) - 1
    BY <2>1, LiveFinite, FS_RemoveElement
  <2>3. Cardinality(LiveAt(ip)) # 0
    BY <2>1, LiveFinite, FS_EmptySet
  <2> QED
    BY <1>1, <2>1, <2>2, <2>3, LiveFinite
<1>2. CASE ip # IpOf[s]
  <2>1. LiveAt(ip)' = LiveAt(ip)
    BY <1>2 DEF LiveAt, Live, CapTypeOK
  <2> QED
    BY <1>2, <2>1
<1> QED
  BY <1>1, <1>2

LEMMA LiveStays ==
  ASSUME \A s \in Socket : Live(s)' <=> Live(s), NEW ip \in Ip
  PROVE  Cardinality(LiveAt(ip)') = Cardinality(LiveAt(ip))
<1>1. LiveAt(ip)' = LiveAt(ip)
  BY DEF LiveAt
<1> QED
  BY <1>1

\* The three kinds of steps.
LEMMA StepKinds ==
  ASSUME CapTypeOK, NEW s \in Socket,
         \/ Refuse(s) \/ RefuseNoToken(s) \/ Upgrade(s)
         \/ Open(s) \/ Verified(s) \/ GiveUp(s) \/ RegisterHandlers(s)
         \/ ServerClose(s) \/ CloseEvent(s) \/ ErrorEvent(s)
  PROVE  \/ /\ \A t \in Socket : Live(t)' <=> Live(t)
            /\ counts' = counts \/ (s \in EarlyEnds /\ TryAcquire(IpOf[s]))
         \/ /\ Over(s) /\ TryAcquire(IpOf[s])
            /\ ws' = [ws EXCEPT ![s] = "connecting"]
         \/ /\ Live(s) /\ ws' = [ws EXCEPT ![s] = "closed"]
            /\ s \in EarlyEnds \/ bind[s] = "bound"
            /\ \/ CloseEvent(s)
               \/ s \in Errors /\ ErrorEvent(s)
<1>1. CASE Refuse(s)
  BY <1>1 DEF Refuse, Live, Over, CapTypeOK
<1>2. CASE RefuseNoToken(s)
  BY <1>2 DEF RefuseNoToken, Live, Over, CapTypeOK
<1>3. CASE Upgrade(s)
  BY <1>3 DEF Upgrade
<1>4. CASE Open(s) \/ Verified(s) \/ GiveUp(s)
             \/ RegisterHandlers(s) \/ ServerClose(s)
  BY <1>4 DEF Open, Verified, GiveUp, RegisterHandlers,
              ServerClose, Live, CapTypeOK
<1>5. CASE CloseEvent(s) \/ ErrorEvent(s)
  BY <1>5 DEF CloseEvent, ErrorEvent
<1> QED
  BY <1>1, <1>2, <1>3, <1>4, <1>5

LEMMA ReleaseType ==
  \A n \in Nat : /\ AfterRelease(n) \in Nat
                 /\ AfterRelease(n) <= n
                 /\ \A m \in Nat : m <= n => AfterRelease(m) <= AfterRelease(n)
                 /\ n >= 1 => AfterRelease(n) = n - 1
BY DEF AfterRelease

(* The records of the limiter and of the sockets are well formed; a count  *)
(* never falls below nothing, however often a slot is released.            *)
THEOREM CapTypeCorrect == CapSpec => []CapTypeOK
<1>1. CapInit => CapTypeOK
  BY DEF CapInit, CapTypeOK
<1>2. CapTypeOK /\ [CapNext]_capVars => CapTypeOK'
  <2> SUFFICES ASSUME CapTypeOK, [CapNext]_capVars PROVE CapTypeOK'
    OBVIOUS
  <2>1. \A s \in Socket : IpOf[s] \in Ip
    BY CapFacts
  <2>2. ASSUME NEW s \in Socket, CloseEvent(s) \/ ErrorEvent(s) PROVE CapTypeOK'
    <3>1. counts[IpOf[s]] \in Nat
      BY <2>1 DEF CapTypeOK
    <3>2. /\ AfterRelease(counts[IpOf[s]]) \in Nat
          /\ AfterRelease(AfterRelease(counts[IpOf[s]])) \in Nat
      BY <3>1, ReleaseType
    <3> QED
      BY <2>2, <3>1, <3>2 DEF CloseEvent, ErrorEvent, CapTypeOK
  <2>3. ASSUME NEW s \in Socket, RefuseNoToken(s) \/ Upgrade(s) PROVE CapTypeOK'
    BY <2>1, <2>3 DEF RefuseNoToken, Upgrade, TryAcquire, CapTypeOK
  <2>4. ASSUME NEW s \in Socket,
               Refuse(s) \/ Open(s) \/ Verified(s) \/ GiveUp(s)
                 \/ RegisterHandlers(s) \/ ServerClose(s)
        PROVE  CapTypeOK'
    BY <2>4 DEF Refuse, Open, Verified, GiveUp,
                RegisterHandlers, ServerClose, CapTypeOK
  <2>5. CASE UNCHANGED capVars
    BY <2>5 DEF capVars, CapTypeOK
  <2> QED
    BY <2>2, <2>3, <2>4, <2>5 DEF CapNext
<1> QED
  BY <1>1, <1>2, PTL DEF CapSpec

----------------------------------------------------------------------------
LEMMA CountedKept ==
  ASSUME CapTypeOK, EverySocketCounted, [CapNext]_capVars
  PROVE  EverySocketCounted'
<1> SUFFICES ASSUME NEW ip \in Ip, ErrorFree(ip)
             PROVE  Cardinality(LiveAt(ip)') <= counts'[ip] /\ counts'[ip] <= MaxPerIp
  BY DEF EverySocketCounted, ErrorFree
<1>1. /\ Cardinality(LiveAt(ip)) \in Nat /\ counts[ip] \in Nat /\ MaxPerIp \in Nat
      /\ Cardinality(LiveAt(ip)) <= counts[ip] /\ counts[ip] <= MaxPerIp
  BY LiveFinite, CapFacts DEF CapTypeOK, EverySocketCounted
<1>2. CASE UNCHANGED capVars
  <2>1. Cardinality(LiveAt(ip)') = Cardinality(LiveAt(ip))
    BY <1>2, LiveStays DEF capVars, Live
  <2> QED
    BY <1>1, <1>2, <2>1 DEF capVars
<1>3. CASE CapNext
  <2>1. PICK s \in Socket :
           \/ Refuse(s) \/ RefuseNoToken(s) \/ Upgrade(s)
           \/ Open(s) \/ Verified(s) \/ GiveUp(s) \/ RegisterHandlers(s)
           \/ ServerClose(s) \/ CloseEvent(s) \/ ErrorEvent(s)
    BY <1>3 DEF CapNext
  <2>2. ASSUME \A t \in Socket : Live(t)' <=> Live(t),
               counts' = counts \/ TryAcquire(IpOf[s])
        PROVE  Cardinality(LiveAt(ip)') <= counts'[ip] /\ counts'[ip] <= MaxPerIp
    <3>1. Cardinality(LiveAt(ip)') = Cardinality(LiveAt(ip))
      BY <2>2, LiveStays
    <3> QED
      BY <1>1, <2>2, <3>1 DEF TryAcquire, CapTypeOK
  <2>3. ASSUME Over(s), TryAcquire(IpOf[s]), ws' = [ws EXCEPT ![s] = "connecting"]
        PROVE  Cardinality(LiveAt(ip)') <= counts'[ip] /\ counts'[ip] <= MaxPerIp
    <3>1. Cardinality(LiveAt(ip)') =
            Cardinality(LiveAt(ip)) + (IF ip = IpOf[s] THEN 1 ELSE 0)
      BY <2>3, LiveBegins
    <3> QED
      BY <1>1, <2>3, <3>1 DEF TryAcquire, CapTypeOK
  <2>4. ASSUME Live(s), ws' = [ws EXCEPT ![s] = "closed"], CloseEvent(s)
        PROVE  Cardinality(LiveAt(ip)') <= counts'[ip] /\ counts'[ip] <= MaxPerIp
    <3>1. /\ ip # IpOf[s] => Cardinality(LiveAt(ip)') = Cardinality(LiveAt(ip))
          /\ ip = IpOf[s] => /\ Cardinality(LiveAt(ip)) >= 1
                             /\ Cardinality(LiveAt(ip)') = Cardinality(LiveAt(ip)) - 1
      BY <2>4, LiveEnds
    <3>2. /\ ip # IpOf[s] => counts'[ip] = counts[ip]
          /\ ip = IpOf[s] => counts'[ip] \in {counts[ip], AfterRelease(counts[ip])}
      BY <2>4 DEF CloseEvent, CapTypeOK
    <3>3. CASE ip = IpOf[s]
      <4>1. AfterRelease(counts[ip]) = counts[ip] - 1
        BY <3>1, <3>3, <1>1, ReleaseType
      <4> QED
        BY <1>1, <3>1, <3>2, <3>3, <4>1
    <3> QED
      BY <1>1, <3>1, <3>2, <3>3
  <2>5. ASSUME ErrorEvent(s)
        PROVE  Cardinality(LiveAt(ip)') <= counts'[ip] /\ counts'[ip] <= MaxPerIp
    <3>1. ip # IpOf[s] /\ Live(s) /\ ws' = [ws EXCEPT ![s] = "closed"]
      BY <2>5 DEF ErrorEvent, ErrorFree
    <3>2. Cardinality(LiveAt(ip)') = Cardinality(LiveAt(ip)) /\ counts'[ip] = counts[ip]
      BY <2>5, <3>1, LiveEnds DEF ErrorEvent, CapTypeOK
    <3> QED
      BY <1>1, <3>2
  <2> QED
    BY <2>1, <2>2, <2>3, <2>4, <2>5, StepKinds
<1> QED
  BY <1>2, <1>3

(* No address whose sockets end without transport errors ever has more     *)
(* sockets than the cap, however requests fail and slots are lost.         *)
THEOREM CapCorrect == CapSpec => []CapRespected
<1>1. CapInit => EverySocketCounted
  <2> SUFFICES ASSUME CapInit, NEW ip \in Ip
               PROVE  Cardinality(LiveAt(ip)) <= counts[ip] /\ counts[ip] <= MaxPerIp
    BY DEF EverySocketCounted
  <2>1. LiveAt(ip) = {}
    BY DEF CapInit, LiveAt, Live
  <2>2. Cardinality(LiveAt(ip)) = 0
    BY <2>1, FS_EmptySet
  <2> QED
    BY <2>2, CapFacts DEF CapInit
<1>2. CapTypeOK /\ EverySocketCounted /\ [CapNext]_capVars => EverySocketCounted'
  BY CountedKept
<1>3. CapTypeOK /\ EverySocketCounted => CapRespected
  <2> SUFFICES ASSUME CapTypeOK, EverySocketCounted, NEW ip \in Ip, ErrorFree(ip)
               PROVE  Cardinality(LiveAt(ip)) <= MaxPerIp
    BY DEF CapRespected
  <2> QED
    BY LiveFinite, CapFacts DEF EverySocketCounted, CapTypeOK
<1> QED
  BY <1>1, <1>2, <1>3, CapTypeCorrect, PTL DEF CapSpec

----------------------------------------------------------------------------
LEMMA NoSlotLostKept ==
  ASSUME CapTypeOK, NoSlotLost, [CapNext]_capVars
  PROVE  NoSlotLost'
<1> SUFFICES ASSUME NEW ip \in Ip, Patient(ip)
             PROVE  counts'[ip] <= Cardinality(LiveAt(ip)')
  BY DEF NoSlotLost, Patient
<1>1. /\ Cardinality(LiveAt(ip)) \in Nat /\ counts[ip] \in Nat
      /\ counts[ip] <= Cardinality(LiveAt(ip))
  BY LiveFinite DEF CapTypeOK, NoSlotLost
<1>2. CASE UNCHANGED capVars
  <2>1. Cardinality(LiveAt(ip)') = Cardinality(LiveAt(ip))
    BY <1>2, LiveStays DEF capVars, Live
  <2> QED
    BY <1>1, <1>2, <2>1 DEF capVars
<1>3. CASE CapNext
  <2>1. PICK s \in Socket :
           \/ Refuse(s) \/ RefuseNoToken(s) \/ Upgrade(s)
           \/ Open(s) \/ Verified(s) \/ GiveUp(s) \/ RegisterHandlers(s)
           \/ ServerClose(s) \/ CloseEvent(s) \/ ErrorEvent(s)
    BY <1>3 DEF CapNext
  <2>2. ASSUME \A t \in Socket : Live(t)' <=> Live(t),
               counts' = counts \/ (s \in EarlyEnds /\ TryAcquire(IpOf[s]))
        PROVE  counts'[ip] <= Cardinality(LiveAt(ip)')
    <3>1. counts'[ip] = counts[ip]
      BY <2>2 DEF TryAcquire, CapTypeOK, Patient
    <3> QED
      BY <1>1, <2>2, <3>1, LiveStays
  <2>3. ASSUME Over(s), TryAcquire(IpOf[s]), ws' = [ws EXCEPT ![s] = "connecting"]
        PROVE  counts'[ip] <= Cardinality(LiveAt(ip)')
    <3>1. Cardinality(LiveAt(ip)') =
            Cardinality(LiveAt(ip)) + (IF ip = IpOf[s] THEN 1 ELSE 0)
      BY <2>3, LiveBegins
    <3> QED
      BY <1>1, <2>3, <3>1 DEF TryAcquire, CapTypeOK
  <2>4. ASSUME Live(s), ws' = [ws EXCEPT ![s] = "closed"],
               s \in EarlyEnds \/ bind[s] = "bound",
               CloseEvent(s) \/ ErrorEvent(s)
        PROVE  counts'[ip] <= Cardinality(LiveAt(ip)')
    <3> DEFINE n == counts[ip]
    <3>1. /\ ip # IpOf[s] => Cardinality(LiveAt(ip)') = Cardinality(LiveAt(ip))
          /\ ip = IpOf[s] => /\ Cardinality(LiveAt(ip)) >= 1
                             /\ Cardinality(LiveAt(ip)') = Cardinality(LiveAt(ip)) - 1
      BY <2>4, LiveEnds
    <3>2. /\ ip # IpOf[s] => counts'[ip] = n
          /\ ip = IpOf[s] => counts'[ip] \in {AfterRelease(n),
                                             AfterRelease(AfterRelease(n))}
      BY <2>4 DEF CloseEvent, ErrorEvent, CapTypeOK, Patient
    <3>3. /\ AfterRelease(n) \in Nat /\ AfterRelease(AfterRelease(n)) \in Nat
          /\ AfterRelease(AfterRelease(n)) <= AfterRelease(n)
          /\ AfterRelease(n) = 0 \/ AfterRelease(n) = n - 1
      BY <1>1, ReleaseType DEF AfterRelease
    <3> HIDE DEF n
    <3>4. n \in Nat /\ n <= Cardinality(LiveAt(ip))
      BY <1>1 DEF n
    <3> QED
      BY <1>1, <3>1, <3>2, <3>3, <3>4
  <2> QED
    BY <2>1, <2>2, <2>3, <2>4, StepKinds
<1> QED
  BY <1>2, <1>3

(* An address whose sockets all live until their listeners are registered  *)
(* is refused only when it has as many sockets as the cap, errors or not.  *)
THEOREM RefusedOnlyAtCapCorrect == CapSpec => RefusedOnlyAtCap
<1>1. CapInit => NoSlotLost
  <2> SUFFICES ASSUME CapInit, NEW ip \in Ip
               PROVE  counts[ip] <= Cardinality(LiveAt(ip))
    BY DEF NoSlotLost
  <2>1. Cardinality(LiveAt(ip)) \in Nat /\ counts[ip] = 0
    BY LiveFinite DEF CapInit
  <2> QED
    BY <2>1
<1>2. CapTypeOK /\ NoSlotLost /\ [CapNext]_capVars => NoSlotLost'
  BY NoSlotLostKept
<1>3. CapTypeOK /\ NoSlotLost =>
        [\A s \in Socket : Refuse(s) /\ Patient(IpOf[s])
            => Cardinality(LiveAt(IpOf[s])) >= MaxPerIp]_capVars
  <2> SUFFICES ASSUME CapTypeOK, NoSlotLost, NEW s \in Socket,
                      Refuse(s), Patient(IpOf[s])
               PROVE  Cardinality(LiveAt(IpOf[s])) >= MaxPerIp
    OBVIOUS
  <2>1. IpOf[s] \in Ip /\ counts[IpOf[s]] >= MaxPerIp
    BY CapFacts DEF Refuse
  <2>2. /\ Cardinality(LiveAt(IpOf[s])) \in Nat /\ counts[IpOf[s]] \in Nat
        /\ MaxPerIp \in Nat
    BY <2>1, LiveFinite, CapFacts DEF CapTypeOK
  <2> QED
    BY <2>1, <2>2 DEF NoSlotLost
<1> QED
  BY <1>1, <1>2, <1>3, CapTypeCorrect, PTL DEF CapSpec, RefusedOnlyAtCap

----------------------------------------------------------------------------
(* The rate limiter, for any rate, burst, pauses and number of messages.    *)
LEMMA BucketFacts ==
  Rate \in Nat /\ Capacity \in Nat /\ Pauses \subseteq Nat
BY BucketAssumption DEF BucketAssumption

(* What the bucket owes: from any message it let through to now, the       *)
(* tokens spent and the tokens left are within the bound.                  *)
Budget ==
  \A a \in 1..Len(accepted) :
    1000 * (Len(accepted) - a + 1) + tokens
      <= Full + Worth(last - accepted[a])

(* ... and it gives away no less: it is full, or one of these is spent to  *)
(* the last token.                                                         *)
Tight ==
  \/ tokens = Full
  \/ \E a \in 1..Len(accepted) :
       1000 * (Len(accepted) - a + 1) + tokens
         = Full + Worth(last - accepted[a])

BucketInv == BucketTypeOK /\ Budget /\ Tight /\ WindowBound

LEMMA WorthFacts ==
  /\ Full \in Nat
  /\ Capacity >= 1 => Full >= 1000
  /\ Worth(0) = 0
  /\ \A x \in Int : Worth(x) \in Int
  /\ \A e \in Nat : Worth(e) \in Nat
  /\ \A x \in Int, e \in Nat : Worth(x + e) = Worth(x) + Worth(e)
  BY BucketFacts DEF Full, Worth

LEMMA RefilledFacts ==
  ASSUME BucketTypeOK, NEW e \in Nat
  PROVE  /\ Refilled(e) \in Nat /\ Worth(e) \in Nat
         /\ Refilled(e) <= tokens + Worth(e)
         /\ Refilled(e) <= Full
         /\ Refilled(e) = tokens + Worth(e) \/ Refilled(e) = Full
<1>1. Worth(e) \in Nat /\ tokens \in Nat /\ Full \in Nat
  BY WorthFacts DEF BucketTypeOK
<1> QED
  BY <1>1 DEF Refilled

\* The shares of time since a message, before and after a pause.
LEMMA Elapsed ==
  ASSUME BucketTypeOK, NEW e \in Nat, NEW a \in 1..Len(accepted)
  PROVE  /\ accepted[a] \in Nat
         /\ Worth(last - accepted[a]) \in Int
         /\ Worth((last + e) - accepted[a])
              = Worth(last - accepted[a]) + Worth(e)
<1>1. accepted[a] \in Nat /\ last \in Nat
  BY DEF BucketTypeOK
<1>2. last - accepted[a] \in Int /\ (last + e) - accepted[a] = (last - accepted[a]) + e
  BY <1>1
<1>3. Worth(last - accepted[a]) \in Int
  BY <1>2, WorthFacts
<1> QED
  BY <1>1, <1>2, <1>3, WorthFacts

LEMMA AcceptKeeps ==
  ASSUME BucketInv, messages' \in Nat, NEW e \in Nat, Accept(e)
  PROVE  BucketInv'
<1> DEFINE n == Len(accepted)
           r == Refilled(e)
<1>a. tokens \in Nat /\ last \in Nat /\ n \in Nat
  BY DEF BucketInv, BucketTypeOK
<1>b. /\ r \in Nat /\ Worth(e) \in Nat /\ Full \in Nat
      /\ r <= tokens + Worth(e) /\ r <= Full
      /\ r = tokens + Worth(e) \/ r = Full
  BY RefilledFacts, WorthFacts DEF BucketInv
<1>c. ASSUME NEW a \in 1..n
      PROVE  /\ Worth(last - accepted[a]) \in Int
             /\ Worth((last + e) - accepted[a])
                  = Worth(last - accepted[a]) + Worth(e)
  BY Elapsed DEF BucketInv
<1>1. /\ r >= 1000 /\ tokens' = r - 1000
      /\ last' = last + e
      /\ accepted' = Append(accepted, last + e)
  BY DEF Accept
<1> HIDE DEF r
<1>2. /\ n \in Nat /\ Len(accepted') = n + 1
      /\ accepted'[n + 1] = last'
      /\ \A a \in 1..n : accepted'[a] = accepted[a]
  BY <1>1, <1>a DEF BucketInv, BucketTypeOK
<1> HIDE DEF n
<1>3. tokens' \in Nat /\ last' \in Nat
  BY <1>1, <1>a, <1>b
<1>4. BucketTypeOK'
  BY <1>1, <1>3 DEF BucketInv, BucketTypeOK
<1>5. Worth(last' - last') = 0
  BY <1>3, WorthFacts
<1>6. Budget'
  <2> SUFFICES ASSUME NEW a \in 1..(n + 1)
               PROVE  1000 * (n + 1 - a + 1) + tokens'
                        <= Full + Worth(last' - accepted'[a])
    BY <1>2 DEF Budget, n
  <2>1. CASE a = n + 1
    <3>1. Worth(last' - accepted'[a]) = 0
      BY <2>1, <1>2, <1>5
    <3>2. tokens' + 1000 <= Full
      BY <1>1, <1>a, <1>b
    <3>3. 1000 * (n + 1 - a + 1) = 1000
      BY <2>1, <1>2
    <3>4. Full \in Nat /\ tokens' \in Nat
      BY <1>3, <1>b
    <3>5. Full + Worth(last' - accepted'[a]) = Full
      BY <3>1, <3>4
    <3>6. 1000 * (n + 1 - a + 1) + tokens' = tokens' + 1000
      BY <3>3, <3>4
    <3> QED
      BY <3>2, <3>5, <3>6
  <2>2. CASE a \in 1..n
    <3>1. 1000 * (n - a + 1) + tokens <= Full + Worth(last - accepted[a])
      BY <2>2 DEF BucketInv, Budget, n
    <3>2. Worth(last' - accepted'[a])
            = Worth(last - accepted[a]) + Worth(e)
      BY <2>2, <1>1, <1>2, <1>c
    <3>3. tokens' <= tokens + Worth(e) - 1000
      BY <1>1, <1>a, <1>b
    <3>4. Worth(last - accepted[a]) \in Int
      BY <2>2, <1>c
    <3> QED
      BY <3>1, <3>2, <3>3, <3>4, <1>3, <1>a, <1>b, <2>2
  <2> QED
    BY <2>1, <2>2, <1>a
<1>7. Tight'
  <2>1. CASE r = Full
    <3>1. 1000 * (n + 1 - (n + 1) + 1) + tokens'
            = Full + Worth(last' - accepted'[n + 1])
      BY <2>1, <1>1, <1>2, <1>3, <1>5, <1>a, <1>b
    <3> QED
      BY <3>1, <1>2 DEF Tight, n
  <2>2. CASE r # Full
    <3>1. r = tokens + Worth(e) /\ tokens # Full
      BY <2>2, <1>a, <1>b, <1>1
    <3>2. PICK a \in 1..n :
            1000 * (n - a + 1) + tokens = Full + Worth(last - accepted[a])
      BY <3>1 DEF BucketInv, Tight, n
    <3>3. Worth(last' - accepted'[a])
            = Worth(last - accepted[a]) + Worth(e)
      BY <1>1, <1>2, <1>c
    <3>4. Worth(last - accepted[a]) \in Int
      BY <1>c
    <3>5. 1000 * (n + 1 - a + 1) + tokens'
            = Full + Worth(last' - accepted'[a])
      <4>1. tokens' = tokens + Worth(e) - 1000
        BY <3>1, <1>1, <1>a, <1>b
      <4> QED
        BY <4>1, <3>2, <3>3, <3>4, <1>3, <1>a, <1>b
    <3> QED
      BY <3>5, <1>2 DEF Tight, n
  <2> QED
    BY <2>1, <2>2
<1>8. WindowBound'
  <2> SUFFICES ASSUME NEW j \in 1..(n + 1), NEW a \in 1..j
               PROVE  1000 * (j - a + 1)
                        <= Full + Worth(accepted'[j] - accepted'[a])
    BY <1>2 DEF WindowBound, n
  <2>1. CASE j \in 1..n
    <3>1. a \in 1..n /\ a \in 1..j
      BY <2>1, <1>a
    <3>2. accepted'[a] = accepted[a] /\ accepted'[j] = accepted[j]
      BY <2>1, <3>1, <1>2
    <3> QED
      BY <2>1, <3>1, <3>2 DEF BucketInv, WindowBound, n
  <2>2. CASE j = n + 1
    <3>1. a \in 1..(n + 1) /\ accepted'[j] = last'
      BY <2>2, <1>2, <1>a
    <3>2. 1000 * (j - a + 1) + tokens' <= Full + Worth(last' - accepted'[a])
      BY <2>2, <3>1, <1>2, <1>6 DEF Budget
    <3>3. accepted'[a] \in Nat
      BY <3>1, <1>2, <1>4 DEF BucketTypeOK
    <3>4. last' - accepted'[a] \in Int
      BY <3>3, <1>3
    <3>5. Worth(last' - accepted'[a]) \in Int
      BY <3>4, WorthFacts
    <3> QED
      BY <3>1, <3>2, <3>5, <1>3, <1>a, <1>b
  <2> QED
    BY <2>1, <2>2, <1>2
<1> QED
  BY <1>4, <1>6, <1>7, <1>8 DEF BucketInv

LEMMA RejectKeeps ==
  ASSUME BucketInv, messages' \in Nat, NEW e \in Nat, Reject(e)
  PROVE  BucketInv' /\ ~Conforms(last')
<1> DEFINE n == Len(accepted)
           r == Refilled(e)
<1>a. tokens \in Nat /\ last \in Nat /\ n \in Nat
  BY DEF BucketInv, BucketTypeOK
<1>b. /\ r \in Nat /\ Worth(e) \in Nat /\ Full \in Nat
      /\ r <= tokens + Worth(e) /\ r <= Full
      /\ r = tokens + Worth(e) \/ r = Full
  BY RefilledFacts, WorthFacts DEF BucketInv
<1>c. ASSUME NEW a \in 1..n
      PROVE  /\ Worth(last - accepted[a]) \in Int
             /\ Worth((last + e) - accepted[a])
                  = Worth(last - accepted[a]) + Worth(e)
  BY Elapsed DEF BucketInv
<1>1. /\ r < 1000 /\ tokens' = r
      /\ last' = last + e /\ accepted' = accepted
  BY DEF Reject
<1> HIDE DEF r, n
<1>2. tokens' \in Nat /\ last' \in Nat
  BY <1>1, <1>a, <1>b
<1>3. BucketTypeOK'
  BY <1>1, <1>2 DEF BucketInv, BucketTypeOK
<1>4. ASSUME NEW a \in 1..n
      PROVE  /\ Worth(last' - accepted[a])
                  = Worth(last - accepted[a]) + Worth(e)
             /\ Worth(last - accepted[a]) \in Int
  BY <1>1, <1>c
<1>e. accepted' = accepted
  BY <1>1
<1>5. Budget'
  <2> SUFFICES ASSUME NEW a \in 1..n
               PROVE  1000 * (n - a + 1) + tokens'
                        <= Full + Worth(last' - accepted[a])
    <3>1. Len(accepted') = n
      BY <1>e DEF n
    <3>2. \A a \in 1..n : 1000 * (n - a + 1) + tokens'
                             <= Full + Worth(last' - accepted'[a])
      BY <1>e
    <3> QED
      BY <3>1, <3>2 DEF Budget
  <2>1. 1000 * (n - a + 1) + tokens <= Full + Worth(last - accepted[a])
    BY DEF BucketInv, Budget, n
  <2>2. tokens' <= tokens + Worth(e)
    BY <1>1, <1>b
  <2> QED
    BY <2>1, <2>2, <1>2, <1>4, <1>a, <1>b
<1>6. \/ tokens' = Full
      \/ \E a \in 1..n : 1000 * (n - a + 1) + tokens'
                           = Full + Worth(last' - accepted[a])
  <2>1. CASE r # Full
    <3>1. r = tokens + Worth(e) /\ tokens # Full
      BY <2>1, <1>a, <1>b, <1>1
    <3>2. PICK a \in 1..n :
            1000 * (n - a + 1) + tokens = Full + Worth(last - accepted[a])
      BY <3>1 DEF BucketInv, Tight, n
    <3>3. 1000 * (n - a + 1) + tokens' = Full + Worth(last' - accepted[a])
      BY <3>1, <3>2, <1>1, <1>2, <1>4, <1>a, <1>b
    <3> QED
      BY <3>3
  <2> QED
    BY <2>1, <1>1
<1>7. ~Conforms(last')
  <2> SUFFICES ASSUME Conforms(last') PROVE FALSE
    OBVIOUS
  <2>1. tokens' # Full
    BY <1>1, <1>b, WorthFacts DEF Conforms, n
  <2>2. PICK a \in 1..n :
          1000 * (n - a + 1) + tokens' = Full + Worth(last' - accepted[a])
    BY <2>1, <1>6
  <2>3. 1000 * (n - a + 2) <= Full + Worth(last' - accepted[a])
    BY DEF Conforms, n
  <2> QED
    BY <2>2, <2>3, <1>1, <1>2, <1>4, <1>a, <1>b
<1>8. Tight' /\ WindowBound'
  BY <1>1, <1>6 DEF BucketInv, Tight, WindowBound, n
<1> QED
  BY <1>3, <1>5, <1>7, <1>8 DEF BucketInv

LEMMA NextKeeps ==
  ASSUME BucketInv, [BucketNext]_bucketVars
  PROVE  BucketInv' /\ [accepted' = accepted => ~Conforms(last')]_bucketVars
<1>1. CASE BucketNext
  <2>1. messages' \in Nat
    BY <1>1 DEF BucketNext, Take, BucketInv, BucketTypeOK
  <2>2. PICK e \in Nat : Accept(e) \/ Reject(e)
    BY <1>1, BucketFacts DEF BucketNext, Take
  <2>3. CASE Accept(e)
    <3>1. Len(accepted') # Len(accepted)
      BY <2>3 DEF Accept, BucketInv, BucketTypeOK
    <3> QED
      BY <2>1, <2>3, <3>1, AcceptKeeps
  <2>4. CASE Reject(e)
    BY <2>1, <2>4, RejectKeeps
  <2> QED
    BY <2>2, <2>3, <2>4
<1>2. CASE UNCHANGED bucketVars
  BY <1>2 DEF bucketVars, BucketInv, BucketTypeOK, Budget, Tight, WindowBound
<1> QED
  BY <1>1, <1>2

LEMMA BucketInvCorrect ==
  BucketSpec => []BucketInv
<1>1. BucketInit => BucketInv
  <2> SUFFICES ASSUME BucketInit PROVE BucketInv
    OBVIOUS
  <2>1. BucketTypeOK
    BY WorthFacts DEF BucketInit, BucketTypeOK
  <2>2. Len(accepted) = 0
    BY DEF BucketInit
  <2> QED
    BY <2>1, <2>2 DEF BucketInit, BucketInv, Budget, Tight, WindowBound
<1>2. BucketInv /\ [BucketNext]_bucketVars => BucketInv'
  BY NextKeeps
<1> QED
  BY <1>1, <1>2, PTL DEF BucketSpec

(* In any stretch of time a socket gets at most the burst and what the rate*)
(* adds in that time through, whatever it sends and when.                  *)
THEOREM WindowBoundCorrect == BucketSpec => []WindowBound
<1>1. BucketInv => WindowBound
  BY DEF BucketInv
<1> QED
  BY <1>1, BucketInvCorrect, PTL

(* A message is refused only when with it some stretch of time would exceed*)
(* that bound: a sender that keeps to the rate is never refused.           *)
THEOREM RefusesOnlyOverRateCorrect == BucketSpec => RefusesOnlyOverRate
<1>1. BucketInv /\ [BucketNext]_bucketVars
        => [accepted' = accepted => ~Conforms(last')]_bucketVars
  BY NextKeeps
<1> QED
  BY <1>1, BucketInvCorrect, PTL DEF BucketSpec, RefusesOnlyOverRate
=============================================================================
