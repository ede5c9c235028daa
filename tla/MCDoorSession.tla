--------------------------- MODULE MCDoorSession ---------------------------
(***************************************************************************)
(* Small instances of DoorSession for TLC.                                 *)
(***************************************************************************)
EXTENDS DoorSession, TLC

Alike == Permutations(Attempt) \cup Permutations(Session)
            \cup Permutations(Source) \cup Permutations(Password)

\* Bound: no cookie is presented while an address stands above the first rung.
\* A request reads neither the ladder nor the slots, so the sessions are looked
\* at below that height, and above it the attempts alone.
Climbing == \E s \in DOMAIN sources : sources[s].failures > 1
Apart == Climbing => \A r \in Request : req[r].state = "idle"
MCSpec == Init /\ [][Next /\ Apart']_vars
=============================================================================
