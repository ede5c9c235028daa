---------------------------- MODULE MCWorkerPool ----------------------------
(* Small instances of WorkerPool for TLC. *)
EXTENDS WorkerPool, TLC

CONSTANTS c1, c2, c3, x1, x2, k1, k2, g1, g2

\* The groups of one user change, those of another do not.
Groups == [k \in Key |-> IF k = k1 THEN {g1, g2} ELSE {g1}]

\* Clients are forked in any order, so any permutation of them is a symmetry.
PoolSymmetry == Permutations(Client) \cup Permutations(Call)
\* And nothing tells one set of groups of a user from another.
GroupSymmetry == PoolSymmetry \cup Permutations({g1, g2})

\* Uploads, or everything that may go wrong with other calls.
Serving == {{"upload", "broken"}, {"archive", "job", "crash", "broken"}}
Closing == {{"upload", "shutdown"}}
Cancelling == {{"job"}}
=============================================================================
