------------------------------ MODULE MCTrash ------------------------------
(* Small instances of Trash for TLC. *)
EXTENDS Trash
CONSTANTS f, g, e1, e2, w1, w2, p1, p2, h
BinSymmetry ==
    Permutations(Entry) \cup Permutations(Worker) \cup Permutations(Publisher)

Scene(sw, cr, fa) ==
    [swaps |-> sw, crashes |-> cr, failures |-> fa]
Quiet == {Scene(0, 0, 0)}
\* A failing call, with either a crash or somebody else at Home.
OneFailure == {Scene(0, 1, 1), Scene(1, 0, 1)}

\* While the root is published no job runs, so one bin at rest will do.
MCInit == Init /\ (place[DirName] = NoDir => where[f] = "home" /\ swaps = 0)
MCSpec == MCInit /\ [][Next]_vars
=============================================================================
