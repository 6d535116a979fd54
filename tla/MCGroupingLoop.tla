--------------------------- MODULE MCGroupingLoop ---------------------------
(* Four persons, of this event or another, three joining times, so that     *)
(* ties, chunks that come out even and a short last chunk all occur.        *)
EXTENDS GroupingLoop

CONSTANTS a, b, c, d

MCPerson   == {a, b, c, d}
MCKeyOrder == (a :> 2) @@ (b :> 0) @@ (c :> 3) @@ (d :> 1)
MCSizes    == {1, 2, 3}
=============================================================================
