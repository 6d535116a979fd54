--------------------------- MODULE MCConnectionCap ---------------------------
(* Three requests at a time from each of two addresses: those from home may *)
(* end with errors, those from the office may end early.                   *)
EXTENDS ConnectionCap, TLC

CONSTANTS s1, s2, s3, t1, t2, t3, home, office

MCHome == {s1, s2, s3}
MCOffice == {t1, t2, t3}
MCSockets == MCHome \cup MCOffice
MCIps == {home, office}
MCIpOf == [s \in MCSockets |-> IF s \in MCHome THEN home ELSE office]

\* Sockets of one address are interchangeable.
MCSymmetry == Permutations(MCHome) \cup Permutations(MCOffice)
=============================================================================
