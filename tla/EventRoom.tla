----------------------------- MODULE EventRoom -----------------------------
(***************************************************************************)
(* What the server promises about one event, without tasks, sockets or     *)
(* storage: a room the participants enter and leave.  The host moves it    *)
(* from phase to phase and concludes it once; a concluded room admits      *)
(* nobody, never opens again, and empties.                                 *)
(***************************************************************************)
CONSTANT Person

VARIABLES phase, room

vars == <<phase, room>>

Phase == {"lobby", "plenary", "breakout", "closed"}

Init == phase = "lobby" /\ room = {}

Enter == /\ phase # "closed"
         /\ \E p \in Person \ room : room' = room \cup {p}
         /\ UNCHANGED phase

\* One leaves, or everyone is sent home.
Leave == /\ room # {}
         /\ \E rest \in SUBSET room : rest # room /\ room' = rest
         /\ UNCHANGED phase

Move == /\ phase # "closed"
        /\ phase' \in Phase
        /\ UNCHANGED room

Next == Enter \/ Leave \/ Move

Spec == Init /\ [][Next]_vars /\ WF_vars(phase = "closed" /\ Leave)
=============================================================================
