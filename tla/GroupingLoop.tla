---------------------------- MODULE GroupingLoop ----------------------------
(***************************************************************************)
(* The loop of partitionIntoGroups, one chunk per step, and mergeToPlenary *)
(* (packages/ecs/src/systems/grouping.ts) on a world of component tables.  *)
(*                                                                         *)
(* The event server calls the partition with the closed form of Grouping;  *)
(* this module runs the loop itself and checks that the two agree, ties in *)
(* joinedAt included.                                                      *)
(***************************************************************************)
EXTENDS Grouping, Sequences, SequencesExt

CONSTANTS
  Person,        \* every participant of the world, of this event or another
  KeyOrder,      \* [Person -> Nat], injective: the order of the storage keys
  MaxTime,       \* bound on joinedAt
  Sizes,         \* the group sizes a host may ask for
  NoGroup        \* groupId: null

ASSUME LoopAssumption ==
  /\ IsFiniteSet(Person)
  /\ KeyOrder \in [Person -> Nat]
  /\ \A p, q \in Person : KeyOrder[p] = KeyOrder[q] => p = q
  /\ MaxTime \in Nat
  /\ Sizes \subseteq Nat \ {0}

VARIABLES
  joined,        \* joinedAt of each person
  ours,          \* the persons whose eventId is the event's
  size,          \* the argument `size'
  line,          \* participants, sorted; <<>> before the sort
  i,             \* the loop variable
  groups,        \* the array `groups': the index of each group made
  table,         \* the world's Membership table: person -> group index
  pc             \* "sort", "loop", "made", "merged"

vars == <<joined, ours, size, line, i, groups, table, pc>>

Init ==
  /\ joined \in [Person -> 0..MaxTime]
  /\ ours \in SUBSET Person
  /\ size \in Sizes
  /\ line = <<>> /\ i = 0 /\ groups = <<>>
  /\ table = [p \in Person |-> NoGroup]
  /\ pc = "sort"

\* What a sort makes of a set: all of it, in order.
Sorted(P) ==
  {s \in [1..Cardinality(P) -> P] :
     \A m, n \in DOMAIN s : m < n => Earlier(s[m], s[n], joined, KeyOrder)}

\* participantsOfEvent and the stable sort by joinedAt.
SortParticipants ==
  /\ pc = "sort"
  /\ line' \in Sorted(ours)
  /\ pc' = "loop"
  /\ UNCHANGED <<joined, ours, size, i, groups, table>>

Slice(from, to) == Range(SubSeq(line, from + 1, Min({to, Len(line)})))

\* Defect: the loop advances one participant too far.
MakeGroup_SkipsOne ==
  /\ pc = "loop" /\ i < Len(line)
  /\ table' = [p \in Person |->
                 IF p \in Slice(i, i + size) THEN i \div size ELSE table[p]]
  /\ groups' = Append(groups, i \div size)
  /\ i' = i + size + 1
  /\ UNCHANGED <<joined, ours, size, line, pc>>

\* One turn of the loop: slice(i, i + size), one group, its memberships.
MakeGroup ==
  /\ pc = "loop" /\ i < Len(line)
  /\ table' = [p \in Person |->
                 IF p \in Slice(i, i + size) THEN i \div size ELSE table[p]]
  /\ groups' = Append(groups, i \div size)
  /\ i' = i + size
  /\ UNCHANGED <<joined, ours, size, line, pc>>

EndLoop ==
  /\ pc = "loop" /\ i >= Len(line)
  /\ pc' = "made"
  /\ UNCHANGED <<joined, ours, size, line, i, groups, table>>

\* mergeToPlenary: every membership of the event becomes null and its groups
\* are deleted.
MergeToPlenary ==
  /\ pc = "made"
  /\ table' = [p \in Person |-> IF p \in ours THEN NoGroup ELSE table[p]]
  /\ groups' = <<>>
  /\ pc' = "merged"
  /\ UNCHANGED <<joined, ours, size, line, i>>

Terminated == pc = "merged" /\ UNCHANGED vars

Next == SortParticipants \/ MakeGroup \/ EndLoop \/ MergeToPlenary \/ Terminated

Spec == Init /\ [][Next]_vars

----------------------------------------------------------------------------
(* The loop computes what Grouping!GroupIndex says in one expression, so    *)
(* the server model may use the expression: every participant of the event *)
(* gets the chunk of its position, nobody else gets a group, and the groups *)
(* made are the ones that have members, in order.                          *)
LoopMatchesPosition ==
  pc = "made" =>
    /\ \A p \in Person :
         table[p] = IF p \in ours THEN GroupIndex(p, ours, joined, KeyOrder, size)
                                  ELSE NoGroup
    /\ groups = [k \in 1..Len(groups) |-> k - 1]
    /\ ToSet(groups) = {table[p] : p \in ours}
=============================================================================
