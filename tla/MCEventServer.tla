--------------------------- MODULE MCEventServer ---------------------------
(* Up to three sockets; the order of the keys is not the order of the names.*)
EXTENDS EventServer, TLC

CONSTANTS s1, s2, s3, d1, d2, c1, c2

MCThree == {s1, s2, s3}
MCTwo   == {s1, s2}

MCKeyOrder == [s \in Socket |-> CASE s = s1 -> 1 [] s = s2 -> 2 [] s = s3 -> 0]

\* Every socket from a device of its own; or the first two from one device.
MCDevices  == [s \in Socket |-> s]
MCReturns  == [s \in Socket |-> IF s \in MCTwo THEN d1 ELSE d2]

MCCommands == {c1, c2}

MCSizes == {1, 2}

\* Any phase but "closed" is written the same way; one stands for the three.
MCHostPhases == {"plenary", "closed"}

\* The store and the tasks.  No step that changes these looks at the sockets,
\* the hub or the screens (Connect looks at conn, which is "new" exactly while
\* at is "idle"), so a property of these may be checked on this view.
MCStoreView == <<storeVars, pid, at, pc, request, listed, plan, doomed, stamped, left>>

\* Commands are interchangeable in a run without liveness.
MCSymmetry == Permutations(Command)
=============================================================================
