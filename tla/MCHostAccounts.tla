--------------------------- MODULE MCHostAccounts ---------------------------
(* HostAccounts with two spellings of one address and one of another.       *)
EXTENDS HostAccounts, TLC

MCNormal(s) == IF s = "Ann" THEN "ann" ELSE s

Symmetry == Permutations(HostId) \cup Permutations(EventId) \cup Permutations(Code)
            \cup Permutations(Request) \cup Permutations(Password) \cup Permutations(HostPage)
=============================================================================
