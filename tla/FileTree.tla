----------------------------- MODULE FileTree -----------------------------
(***************************************************************************)
(* The part of a share that one file job of a worker sees, and the other   *)
(* programs and users of the NAS that change it between the job's system   *)
(* calls. A node is an inode; a place is a directory and a name in it. The *)
(* worker addresses everything relative to a directory it holds open, so a *)
(* place names its directory by node and not by path: a directory renamed  *)
(* under the job stays the directory it holds.                             *)
(*                                                                         *)
(* data[n] is what a file holds, what a link points to, and the mode and   *)
(* owner of a directory: what it was from the start, what the others wrote *)
(* (never the same twice), or what the job left of it, half written or put *)
(* together from two versions. stamp[n] is its change time in ticks of the *)
(* file system's clock: two changes within one tick carry the same stamp.  *)
(***************************************************************************)
EXTENDS Naturals, Sequences, FiniteSets

CONSTANTS
    Node,       \* the inodes
    Name,       \* the names an entry may have
    Top,        \* the directory everything stands in
    Stage,      \* a private directory of the job, out of everybody's reach
    None,       \* no node
    MaxClock    \* bound: ticks of the file system's clock

ASSUME NodeAssumption == /\ None \notin Node /\ Stage \notin Node
                         /\ Top \in Node /\ MaxClock \in Nat

VARIABLES
    at,         \* the place of every node, or Nowhere
    kind,       \* "dir", "file", "link", "special", or "none": not in use
    data,
    stamp,
    clock,
    budget,     \* bound: how many more times the others act
    theirs      \* history: the nodes the others changed, moved or removed

tree == <<at, kind, data, stamp>>
world == <<at, kind, data, stamp, clock, budget, theirs>>

Nowhere == <<>>
Content == {"first", "theirs", "partial", "torn"} \X (Nat \cup Node)
Partial(n) == <<"partial", n>>
Torn(n)    == <<"torn", n>>

Lookup(d, x) ==
    LET s == {n \in Node : at[n] = <<d, x>>}
    IN  IF s = {} THEN None ELSE CHOOSE n \in s : TRUE

Children(d) == {n \in Node : at[n] # Nowhere /\ at[n][1] = d}

\* A directory that was removed takes no more entries.
Alive(d) == d \in {Top, Stage} \/ at[d] # Nowhere

\* n and the directories above it in the tree a; no tree here is deeper than
\* eight levels.
UpIn(a, s) == s \cup {a[m][1] : m \in {m \in s \cap Node : a[m] # Nowhere}}
AncestorsIn(a, n) ==
    UpIn(a, UpIn(a, UpIn(a, UpIn(a, UpIn(a, UpIn(a, UpIn(a, {n})))))))
Ancestors(n) == AncestorsIn(at, n)

Unused == {n \in Node : kind[n] = "none"}
Spare == CHOOSE n \in Unused : TRUE

\* renameat2 and renameat: what stood under the name is gone.
Renamed(n, d, x) ==
    [m \in Node |-> IF m = n THEN <<d, x>>
                    ELSE IF at[m] = <<d, x>> THEN Nowhere ELSE at[m]]
Unlinked(n) == [at EXCEPT ![n] = Nowhere]

-----------------------------------------------------------------------------
(* The others: everybody else who may write here. *)

Visible == {n \in Node \ {Top} : at[n] # Nowhere /\ at[n][1] # Stage}
Fresh == <<"theirs", budget>>
Act == budget > 0 /\ budget' = budget - 1 /\ UNCHANGED clock

OthersRewrite(n) ==
    /\ Act
    /\ kind[n] \in {"file", "dir"}
    /\ data' = [data EXCEPT ![n] = Fresh]
    /\ stamp' = [stamp EXCEPT ![n] = clock]
    /\ theirs' = theirs \cup {n}
    /\ UNCHANGED <<at, kind>>

OthersRemove(n) ==
    /\ Act
    /\ Children(n) = {}
    /\ at' = Unlinked(n)
    /\ stamp' = [stamp EXCEPT ![n] = clock]
    /\ theirs' = theirs \cup {n}
    /\ UNCHANGED <<kind, data>>

OthersPut(d, x) ==
    /\ Act
    /\ Unused # {}
    /\ LET n == Spare
           old == Lookup(d, x)
       IN  /\ old # None => kind[old] # "dir"
           /\ at' = Renamed(n, d, x)
           /\ kind' = [kind EXCEPT ![n] = "file"]
           /\ data' = [data EXCEPT ![n] = Fresh]
           /\ stamp' = [stamp EXCEPT ![n] = clock]
           /\ theirs' = theirs \cup ({n, old} \ {None})

OthersShift(n, d, x) ==
    /\ Act
    /\ Lookup(d, x) = None
    /\ n \notin Ancestors(d)
    /\ at' = Renamed(n, d, x)
    /\ stamp' = [stamp EXCEPT ![n] = clock]
    /\ theirs' = theirs \cup {n}
    /\ UNCHANGED <<kind, data>>

\* They write to, and move entries to, the places of a set: a bound.
OthersStep(places) ==
    \/ \E n \in Visible : OthersRewrite(n) \/ OthersRemove(n)
    \/ \E p \in places :
        /\ Alive(p[1])
        /\ OthersPut(p[1], p[2]) \/ \E n \in Visible : OthersShift(n, p[1], p[2])

Tick ==
    /\ clock < MaxClock
    /\ clock' = clock + 1
    /\ UNCHANGED <<at, kind, data, stamp, budget, theirs>>
=============================================================================
