---------------------------- MODULE MCCopyMove ----------------------------
(***************************************************************************)
(* Small trees for CopyMove. Top holds the selected root "r" and the       *)
(* destination directory "b".                                              *)
(*    file  r                a file                                        *)
(*    link  r                a symbolic link                               *)
(*    tree  r/x, r/e/x       a directory, a file, a directory with a file  *)
(* and "b" may already hold an entry of the same name.                     *)
(***************************************************************************)
EXTENDS CopyMove

TopDir == 0   R == 1   X == 2   E == 3   Y == 4   B == 5   Old == 6   OldX == 7
Nodes == 0 .. 10
Tries == [x \in Name |-> IF x = "r" THEN <<"x">> ELSE <<>>]

Places(shape, old) ==
    [n \in Nodes |->
        CASE n = R -> <<TopDir, "r">>
          [] n = B -> <<TopDir, "b">>
          [] n = X /\ shape \in {"dir", "tree"} -> <<R, "x">>
          [] n = E /\ shape = "tree" -> <<R, "e">>
          [] n = Y /\ shape = "tree" -> <<E, "x">>
          [] n = Old /\ old # "none" -> <<B, "r">>
          [] n = OldX /\ old = "dir" -> <<Old, "x">>
          [] OTHER -> Nowhere]
KindOf(shape, old) ==
    [n \in Nodes |->
        CASE n \in {TopDir, B} -> "dir"
          [] n = R -> IF shape \in {"dir", "tree"} THEN "dir" ELSE shape
          [] n \in {X, Y} /\ Places(shape, old)[n] # Nowhere -> "file"
          [] n = E /\ shape = "tree" -> "dir"
          [] n = Old /\ old # "none" -> old
          [] n = OldX /\ old = "dir" -> "file"
          [] OTHER -> "none"]

Source(shape) == CASE shape = "tree" -> {R, X, E, Y}
                   [] shape = "dir" -> {R, X} [] OTHER -> {R}

Tree(shape, old) ==
    [at |-> Places(shape, old), kind |-> KindOf(shape, old),
     data |-> [n \in Nodes |-> IF n \in {X, Y, Old, OldX} \/
                                (n = R /\ shape \in {"file", "link"})
                               THEN <<"first", 10 + n>> ELSE <<"first", 3>>],
     stamp |-> [n \in Nodes |-> 0], src |-> Source(shape),
     places |-> {<<TopDir, "r">>, <<B, "r">>} \cup
                (IF shape \in {"file", "link"} THEN {} ELSE {<<R, "x">>, <<R, "b">>, <<E, "b">>}),
     roots |-> <<"r">>, dst |-> B]

Trees == [t \in {"file", "link", "dir", "tree"} \X {"none", "file", "link", "dir"} |->
            Tree(t[1], t[2])]

\* room stands for maxTrackedDirs and maxLedgerEntries. A move between two file
\* systems is the one that copies.
Plan(shape, old, move, policy, build, others) ==
    [tree |-> <<shape, old>>, move |-> move, policy |-> policy, build |-> build,
     split |-> move, others |-> others, faults |-> 0, cancel |-> FALSE, room |-> 3]
Failing(s) == [s EXCEPT !.faults = 1, !.others = 0]
Stopped(s) == [s EXCEPT !.cancel = TRUE, !.others = 0]
Cramped(s) == [s EXCEPT !.room = 1, !.others = 0]
Within(s)  == [s EXCEPT !.split = FALSE]

Files == {Plan("file", "file", m, p, b, 1) :
            m \in BOOLEAN, p \in {"skip", "overwrite", "rename"},
            b \in {"unnamed", "staged", "direct"}}
\* The moves of a file in which the others act twice.
Twice == {Plan("file", "file", TRUE, p[1], p[2], 2) :
            p \in {<<"overwrite", "staged">>, <<"rename", "unnamed">>, <<"skip", "direct">>}}
Links == {Plan("link", "link", m, "overwrite", "staged", 2) : m \in BOOLEAN}
Folders == {Plan("dir", o, m, "overwrite", "staged", 1) :
            o \in {"none", "dir"}, m \in BOOLEAN}
Deep == {Plan("tree", "none", m, "skip", "unnamed", 1) : m \in BOOLEAN}
Renames == {Within(Plan("dir", "none", TRUE, "overwrite", "staged", 1)),
            Within(Plan("file", "file", TRUE, "overwrite", "staged", 2))}
Harsh == {Failing(s) : s \in Files \cup Links \cup Folders \cup Deep}
         \cup {Stopped(s) : s \in Files \cup Folders \cup Deep}
         \cup {Cramped(s) : s \in Deep}
         \cup {[s EXCEPT !.build = "refused"] : s \in Folders}
Plans == Files \cup Twice \cup Links \cup Folders \cup Deep \cup Renames \cup Harsh
=============================================================================
