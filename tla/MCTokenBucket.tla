---------------------------- MODULE MCTokenBucket ----------------------------
(* A burst of three and four messages a second, so a token every 250 ms,   *)
(* with pauses below, at and above it.                                     *)
EXTENDS TokenBucket

MCPauses == {0, 100, 250, 600}
=============================================================================
