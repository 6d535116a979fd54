------------------------------ MODULE Grouping ------------------------------
(***************************************************************************)
(* The order and the arithmetic of partitionIntoGroups                     *)
(* (packages/ecs/src/systems/grouping.ts), as pure operators.              *)
(*                                                                         *)
(* The participants come out of the store in the order of their keys and   *)
(* are sorted by joinedAt.  The sort is stable, so two participants with   *)
(* the same millisecond keep the order of their keys: `rank' is that key   *)
(* order.  A participant's group is the chunk of `size' consecutive        *)
(* positions its own position falls in.                                    *)
(***************************************************************************)
EXTENDS Naturals, FiniteSets

Earlier(p, q, joinedAt, rank) ==
  \/ joinedAt[p] < joinedAt[q]
  \/ joinedAt[p] = joinedAt[q] /\ rank[p] < rank[q]

Position(p, P, joinedAt, rank) ==
  Cardinality({q \in P : Earlier(q, p, joinedAt, rank)})

\* Defect: a chunk takes one participant too many.
GroupIndex_OneMore(p, P, joinedAt, rank, size) ==
  Position(p, P, joinedAt, rank) \div (size + 1)

GroupIndex(p, P, joinedAt, rank, size) ==
  Position(p, P, joinedAt, rank) \div size

\* The first participant of P in key order: what Array.find and a for loop
\* over a listing meet first.
First(P, rank) == CHOOSE p \in P : \A q \in P : rank[p] <= rank[q]
=============================================================================
