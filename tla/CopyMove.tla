----------------------------- MODULE CopyMove -----------------------------
(***************************************************************************)
(* One copy or move job of the worker: each selected root is renamed when  *)
(* it can be, otherwise copied entry by entry and, for a move, removed     *)
(* again entry by entry once its copy has been proved. Between any two     *)
(* steps the others may change both trees.                                 *)
(*                                                                         *)
(* One action is one decision of the engine together with the system call  *)
(* it leads to. The pairs the kernel has no single call for (the last look *)
(* at a name and the unlink or rename of it) are one step: the source      *)
(* names that window as its residual.                                      *)
(***************************************************************************)
EXTENDS FileTree

CONSTANTS
    Layout,         \* the trees a job may start with, by name
    Scenarios,      \* the jobs
    KeepBoth        \* the names "keep both" tries, per name

VARIABLES
    sc,         \* the job and the tree it starts with
    pc,
    left,       \* the roots not yet taken
    root,       \* the root at work: its name, its node and its mode
    item,       \* the entry at work
    frames,     \* the directories being copied, outermost first
    above,      \* the destination and the directories above it (ancestry)
    tracked,    \* the destination directories this job knows (made)
    full,       \* madeFull
    touched,
    ledger,     \* what a move recorded as copied, and whether it could
    ledgerFull,
    spoiled,    \* a skip or a content warning since the root began
    grumbled,   \* the same, since the job began
    del,        \* the source directories being emptied, outermost first
    cancelled,
    faults,     \* bound: how many more system calls fail
    result,
    made,       \* history: what this job created, a directory once it is proved
    copied,     \* history: what this job read from
    held,       \* history: what stood whole at the destination
    synced,     \* history: the files whose bytes were flushed
    flushed     \* history: the nodes whose names were flushed

ledgerVars == <<ledger, ledgerFull, del>>
marks == <<spoiled, grumbled>>
ghosts == <<made, copied, held, synced, flushed>>
vars == <<world, sc, pc, left, root, item, frames, above, tracked, full,
          touched, ledgerVars, marks, cancelled, faults, result, ghosts>>

\* The trees the job starts with.
start == Layout[sc.tree]
Dst == start.dst
Temp == "tmp"
NoItem == [id |-> None]

Kinds == {"dir", "file", "link", "special", "none"}
ASSUME NameAssumption == Temp \notin Name /\ KeepBoth \in [Name -> Seq(Name)]
ASSUME ScenarioAssumption ==
    Scenarios \subseteq
        [tree : DOMAIN Layout, move : BOOLEAN, policy : {"skip", "overwrite", "rename"},
         build : {"unnamed", "staged", "direct", "refused"}, split : BOOLEAN,
         others : Nat, faults : Nat, cancel : BOOLEAN, room : Nat]
\* The entry a root of the job selects, in the tree l.
Selects(l, n) == \E i \in DOMAIN l.roots : l.at[n] = <<Top, l.roots[i]>>
\* A tree has one entry under a name, entries in directories only, and nothing
\* yet in the job's private directory or under its temporary name; its two ends
\* are directories, and src holds the selected entries and everything below
\* them, down to the depth Ancestors sees.
ASSUME LayoutAssumption ==
    \A t \in DOMAIN Layout :
        LET l == Layout[t] IN
        /\ l.at \in [Node -> {Nowhere} \cup Node \X Name]
        /\ l.kind \in [Node -> Kinds]
        /\ l.data \in [Node -> {"first"} \X Nat]
        /\ l.stamp = [n \in Node |-> 0]
        /\ l.places \subseteq Node \X Name /\ l.roots \in Seq(Name)
        /\ l.dst \in Node /\ l.kind[l.dst] = "dir" /\ l.kind[Top] = "dir"
        /\ l.at[Top] = Nowhere
        /\ \A n \in Node : l.at[n] # Nowhere =>
              /\ l.kind[n] # "none" /\ l.kind[l.at[n][1]] = "dir"
              /\ \A m \in Node : l.at[m] = l.at[n] => m = n
        /\ l.src = {n \in Node : Selects(l, n) \/ (l.at[n] # Nowhere /\ l.at[n][1] \in l.src)}
        /\ \A n \in l.src : Top \in AncestorsIn(l.at, n)

\* An entry n found under name x of d, to be reproduced in dd.
Entry(n, d, x, dd) ==
    [id |-> n, dir |-> d, name |-> x, ddir |-> dd, seen |-> stamp[n],
     mode |-> data[n], final |-> x, act |-> "create",
     new |-> None, where |-> dd, temp |-> x, half |-> data[n]]

Init ==
    /\ sc \in Scenarios
    /\ at = start.at /\ kind = start.kind /\ data = start.data /\ stamp = start.stamp
    /\ clock = 0 /\ budget = sc.others /\ theirs = {}
    /\ pc = "root" /\ left = start.roots /\ root = NoItem /\ item = NoItem
    /\ frames = <<>> /\ above = {} /\ tracked = {} /\ full = FALSE
    /\ touched = FALSE /\ ledger = {} /\ ledgerFull = FALSE /\ spoiled = FALSE /\ grumbled = FALSE
    /\ del = <<>> /\ cancelled = FALSE /\ faults = sc.faults
    /\ result = "none" /\ made = {} /\ copied = {} /\ held = {}
    /\ synced = {} /\ flushed = {}

-----------------------------------------------------------------------------
(* What several steps share. *)

\* skip, skipCode and every warning that says content was not reproduced.
Complain == spoiled' = TRUE /\ grumbled' = TRUE
\* A system call fails.
Fails == faults > 0 /\ faults' = faults - 1
Works == UNCHANGED faults

Dirs == {n \in Node : kind[n] = "dir"}
\* Mutant: only the destination itself is known, not what was made below it.
MeetsDestinationOnly(n) == n = Dst
MeetsDestination(n) == n = Dst \/ n \in tracked \/ n \in above

After == IF frames = <<>> THEN "finish" ELSE "walk"

FreeName(d, x) ==
    LET free == {i \in DOMAIN KeepBoth[x] : Lookup(d, KeepBoth[x][i]) = None}
    IN  IF free = {} THEN [act |-> "skip", name |-> x]
        ELSE [act |-> "create",
              name |-> KeepBoth[x][CHOOSE i \in free : \A j \in free : i <= j]]

Place(d, x, k) ==
    LET o == Lookup(d, x) IN
    CASE o = None -> [act |-> "create", name |-> x]
      [] o # None /\ k = "dir" /\ kind[o] = "dir" -> [act |-> "merge", name |-> x]
      [] o # None /\ k = kind[o] /\ k # "dir" /\ sc.policy = "overwrite" ->
            [act |-> "overwrite", name |-> x]
      [] o # None /\ k = kind[o] /\ k # "dir" /\ sc.policy = "rename" ->
            FreeName(d, x)
      [] OTHER -> [act |-> "skip", name |-> x]

\* The entry is over: nothing of it is left to look after.
Leave(next) == pc' = next /\ item' = NoItem

\* unlinkIfOurs: what this job wrote goes, if the name still holds it.
Discarded == IF item.new # None /\ at[item.new] = <<item.where, item.temp>>
             THEN Unlinked(item.new) ELSE at

\* A ledger entry beyond the bound is not recorded, and the source is kept.
Record(e) ==
    LET room == Cardinality(ledger) < sc.room IN
    /\ ledger' = IF sc.move /\ room /\ ~ledgerFull THEN ledger \cup {e} ELSE ledger
    /\ ledgerFull' = (ledgerFull \/ (sc.move /\ ~room))

\* ctx.Err(): the job ends where it stands.
Stop ==
    /\ pc' = "end" /\ result' = "cancelled"
    /\ item' = NoItem /\ frames' = <<>> /\ del' = <<>>

-----------------------------------------------------------------------------
(* One selected root. *)

InsideSource(n, ancestry) == kind[n] = "dir" /\ (n \in ancestry \/ n \in tracked)

TakeRoot ==
    /\ pc = "root" /\ ~cancelled /\ left # <<>>
    /\ left' = Tail(left)
    /\ above' = Ancestors(Dst)     \* refreshAncestry
    /\ LET n == Lookup(Top, Head(left)) IN
       \/ /\ \/ n = None
             \/ n # None /\ (kind[n] = "special" \/ InsideSource(n, above'))
          /\ Complain
          /\ UNCHANGED <<pc, item, root>>
       \/ /\ n # None /\ kind[n] # "special" /\ ~InsideSource(n, above')
          /\ item' = Entry(n, Top, Head(left), Dst)
          /\ root' = item'
          /\ pc' = "place"
          /\ UNCHANGED marks
    /\ UNCHANGED <<world, sc, frames, tracked, full, touched, ledgerVars,
                   cancelled, faults, result, ghosts>>

\* What the placement of a selected root comes to, its own directory included.
RootPlace ==
    IF Dst = Top
    THEN IF sc.policy = "rename" THEN FreeName(Dst, item.name)
         ELSE [act |-> "skip", name |-> item.name]
    ELSE Place(Dst, item.name, kind[item.id])

PlaceRoot ==
    /\ pc = "place"
    /\ LET p == RootPlace IN
       \/ p.act = "skip" /\ Complain /\ Leave("root")
       \/ /\ p.act # "skip"
          /\ item' = [item EXCEPT !.final = p.name, !.act = p.act]
          /\ pc' = IF sc.move /\ p.act # "merge" THEN "rename" ELSE "begin"
          /\ UNCHANGED marks
    /\ UNCHANGED <<world, sc, left, root, frames, above, tracked, full, touched,
                   ledgerVars, cancelled, faults, result, ghosts>>

\* The kernel's answer to renameat2 for the selected root.
RenameRefused ==
    LET old == Lookup(Dst, item.final) IN
    \/ ~Alive(Dst)
    \/ item.id \in Ancestors(Dst)
    \/ old # None /\ (item.act # "overwrite" \/ kind[old] = "dir")

Below(n) == {m \in Node : n \in Ancestors(m)}

\* Mutant: a rename across two file systems is tried again.
TryRenameAgain ==
    /\ pc = "rename"
    /\ \/ /\ Lookup(Top, item.name) # item.id \/ (~sc.split /\ RenameRefused)
          /\ Complain /\ Leave("root") /\ UNCHANGED <<world, touched, held>>
       \/ /\ Lookup(Top, item.name) = item.id /\ ~sc.split /\ ~RenameRefused
          /\ at' = Renamed(item.id, Dst, item.final)
          /\ held' = held \cup {<<m, data[m]>> : m \in Below(item.id)}
          /\ touched' = TRUE /\ Leave("root")
          /\ UNCHANGED <<kind, data, stamp, clock, budget, theirs, marks>>
    /\ UNCHANGED <<sc, left, root, frames, above, tracked, full, ledgerVars,
                   cancelled, faults, result, made, copied, synced, flushed>>

TryRename ==
    /\ pc = "rename"
    /\ \/ /\ Lookup(Top, item.name) # item.id \/ (~sc.split /\ RenameRefused)
          /\ Complain /\ Leave("root") /\ Works
          /\ UNCHANGED <<world, touched, held>>
       \/ /\ Fails /\ Complain /\ Leave("root")
          /\ UNCHANGED <<world, touched, held>>
       \/ /\ Lookup(Top, item.name) = item.id /\ sc.split      \* EXDEV
          /\ pc' = "begin"
          /\ Works
          /\ UNCHANGED <<world, item, touched, held, marks>>
       \/ /\ Lookup(Top, item.name) = item.id /\ ~sc.split /\ ~RenameRefused
          /\ at' = Renamed(item.id, Dst, item.final)
          /\ stamp' = [stamp EXCEPT ![item.id] = clock]
          /\ held' = held \cup {<<m, data[m]>> : m \in Below(item.id)}
          /\ touched' = TRUE /\ Leave("root") /\ Works
          /\ UNCHANGED <<kind, data, clock, budget, theirs, marks>>
    /\ UNCHANGED <<sc, left, root, frames, above, tracked, full, ledgerVars,
                   cancelled, result, made, copied, synced, flushed>>

\* From here it is a copy. A move charges its space root by root; too little of
\* it fails the job only while the job has changed nothing.
NoSpace == sc.move /\ Fails

BeginCopy ==
    /\ pc = "begin"
    /\ \/ /\ full
          /\ Complain /\ Leave("root") /\ Works
          /\ UNCHANGED <<touched, result, ledger, ledgerFull>>
       \/ /\ ~full /\ NoSpace
          /\ IF touched THEN Complain /\ Leave("root") /\ UNCHANGED result
             ELSE Leave("end") /\ result' = "failed" /\ UNCHANGED marks
          /\ UNCHANGED <<touched, ledger, ledgerFull>>
       \/ /\ ~full
          /\ touched' = TRUE /\ ledger' = {} /\ ledgerFull' = FALSE
          /\ spoiled' = FALSE
          /\ pc' = CASE kind[item.id] = "dir" -> "opendir"
                     [] kind[item.id] = "link" -> "link"
                     [] OTHER -> "open"
          /\ Works
          /\ UNCHANGED <<item, grumbled, result>>
    /\ UNCHANGED <<world, sc, left, root, frames, above, tracked, full, del,
                   cancelled, ghosts>>

-----------------------------------------------------------------------------
(* Copying a directory: the frames mirror the walk. *)

\* The whole chain of source directories must still be the one that was read.
Inner == frames[Len(frames)]
FrameHolds(i) == data[frames[i].src] = frames[i].mode
Changed == {i \in DOMAIN frames : frames[i].changed \/ ~FrameHolds(i)}

\* Mutant: a root given up half way says nothing.
AbandonSilently == UNCHANGED marks /\ frames' = <<>> /\ Leave("finish")

\* A root is given up: its frames are unwound and finishMove keeps its source.
Abandon == Complain /\ frames' = <<>> /\ Leave("finish")

\* The root is opened once and must be the directory that was selected. Below
\* it the walk opens what the name holds by now, and that directory, not the one
\* Pre saw, is the one made, recorded and read.
OpenDir ==
    /\ pc = "opendir"
    /\ LET n == Lookup(item.dir, item.name) IN
       \/ /\ frames = <<>> /\ n # item.id
          /\ Abandon
       \/ /\ frames # <<>> /\ n \in Dirs /\ MeetsDestination(n)
          /\ Abandon
       \/ /\ frames # <<>> /\ n \notin Dirs
          /\ Complain /\ Leave("walk")
          /\ UNCHANGED frames
       \/ /\ IF frames = <<>> THEN n = item.id ELSE n \in Dirs /\ ~MeetsDestination(n)
          /\ item' = [item EXCEPT !.id = n, !.mode = data[n]]
          /\ pc' = "mkdir"
          /\ UNCHANGED <<marks, frames>>
    /\ UNCHANGED <<world, sc, left, root, above, tracked, full, touched,
                   ledgerVars, cancelled, faults, result, ghosts>>

\* A directory this job cannot keep track of any more stops the root.
Remembered(d) == d \in tracked \/ Cardinality(tracked) < sc.room

\* makeDir ends: the directory is entered and, below the root, recorded.
Enter(d, created) ==
    IF ~Remembered(d)
    THEN /\ full' = TRUE /\ Abandon
         /\ UNCHANGED <<tracked, root, ledger, ledgerFull, copied>>
    ELSE /\ tracked' = tracked \cup {d}
         /\ frames' = Append(frames,
                [src |-> item.id, dst |-> d, mode |-> item.mode, changed |-> FALSE,
                 created |-> created, todo |-> {}])
         /\ copied' = copied \cup {item.id}
         /\ IF frames = <<>>
            THEN root' = [item EXCEPT !.new = d] /\ UNCHANGED <<ledger, ledgerFull>>
            ELSE /\ Record([dir |-> item.dir, name |-> item.name, kind |-> "dir",
                           id |-> item.id, seen |-> item.mode,
                           dname |-> item.final, did |-> d, dseen |-> 0])
                 /\ UNCHANGED root
         /\ Leave("opened")
         /\ UNCHANGED <<full, marks>>

\* Where others may write, nothing is made in their sight: a private staging
\* directory takes it, and where none can be proved private nothing is made.
Staged == sc.build \in {"staged", "unnamed"}
StageRefused == sc.build = "refused"

\* Merging opens the directory that is there; creating makes one.
MakeDir ==
    /\ pc = "mkdir"
    /\ LET there == Lookup(item.ddir, item.final)
           p == IF Staged THEN <<Stage, Temp>> ELSE <<item.ddir, item.final>>
           refused == IF item.act = "merge" THEN there \notin Dirs
                      ELSE \/ StageRefused \/ Unused = {} \/ ~Alive(p[1])
                           \/ Lookup(p[1], p[2]) # None
       IN  \/ /\ refused \/ Fails
              /\ refused => Works
              /\ Complain /\ Leave(After)
              /\ UNCHANGED <<world, root, frames, tracked, full, ledger,
                             ledgerFull, copied>>
           \/ /\ ~refused /\ item.act = "merge" /\ Works
              /\ Enter(there, FALSE)
              /\ UNCHANGED world
           \/ /\ ~refused /\ item.act # "merge" /\ Works
              /\ at' = Renamed(Spare, p[1], p[2])
              /\ kind' = [kind EXCEPT ![Spare] = "dir"]
              /\ stamp' = [stamp EXCEPT ![Spare] = clock]
              /\ item' = [item EXCEPT !.new = Spare, !.where = p[1], !.temp = p[2]]
              /\ pc' = "pin"
              /\ UNCHANGED <<data, clock, budget, theirs, root, frames, tracked,
                             full, ledger, ledgerFull, marks, copied>>
    /\ UNCHANGED <<sc, left, above, touched, del, cancelled, result,
                   made, held, synced, flushed>>

\* The directory opened under the name is proved to be the one just made: ours,
\* empty, no wider than asked, in the group expected.
Proved == /\ Lookup(item.where, item.temp) = item.new
          /\ Children(item.new) = {}
\* rmdirIfOurs: a directory of ours goes when it is still under its name, empty.
DroppedDir == IF Proved THEN Unlinked(item.new) ELSE at

PinDir ==
    /\ pc = "pin"
    /\ LET inPlace == item.where # Stage
           refused == ~inPlace /\ (~Alive(item.ddir) \/ Lookup(item.ddir, item.final) # None)
       IN  \/ /\ ~Proved
              /\ Complain /\ Leave(After) /\ Works
              /\ UNCHANGED <<at, stamp, root, frames, tracked, full, ledger,
                             ledgerFull, made, copied>>
           \/ /\ Proved /\ (refused \/ Fails)
              /\ refused => Works
              /\ at' = DroppedDir /\ made' = made \cup {item.new}
              /\ Complain /\ Leave(After)
              /\ UNCHANGED <<stamp, root, frames, tracked, full, ledger,
                             ledgerFull, copied>>
           \/ /\ Proved /\ ~refused /\ Works
              /\ at' = Renamed(item.new, item.ddir, item.final)
              /\ stamp' = [stamp EXCEPT ![item.new] = clock]
              /\ made' = made \cup {item.new}
              /\ Enter(item.new, TRUE)
    /\ UNCHANGED <<kind, data, clock, budget, theirs, sc, left, above, touched, del,
                   cancelled, result, held, synced, flushed>>

\* The walk asks once more about the root it was handed, then reads the names.
Opened ==
    /\ pc = "opened"
    /\ LET refused == /\ Len(frames) = 1
                      /\ MeetsDestination(frames[1].src) \/ ~FrameHolds(1)
       IN  \/ refused /\ Abandon
           \/ /\ ~refused
              /\ frames' = [frames EXCEPT ![Len(frames)].todo =
                                {at[m][2] : m \in Children(Inner.src)}]
              /\ pc' = "walk"
              /\ UNCHANGED <<item, marks>>
    /\ UNCHANGED <<world, sc, left, root, above, tracked, full, touched,
                   ledgerVars, cancelled, faults, result, ghosts>>

\* One name the directory was read with (children, Pre).
WalkEntry ==
    /\ pc = "walk" /\ frames # <<>> /\ Inner.todo # {} /\ ~cancelled
    /\ \E x \in Inner.todo :
        LET n == Lookup(Inner.src, x)
            rest == [frames EXCEPT ![Len(frames)].todo = @ \ {x}]
            p == Place(Inner.dst, x, kind[n])
            said == {i \in DOMAIN frames : frames[i].changed}
        IN
        \/ /\ n = None                          \* gone since it was read
           /\ frames' = rest
           /\ UNCHANGED <<pc, item, marks>>
        \/ /\ n # None /\ Changed # {}           \* ancestorUnchanged
           /\ LET first == CHOOSE i \in Changed : \A j \in Changed : i <= j IN
              IF first \in said
              THEN frames' = rest /\ UNCHANGED marks
              ELSE frames' = [rest EXCEPT ![first].changed = TRUE] /\ Complain
           /\ UNCHANGED <<pc, item>>
        \/ /\ n # None /\ Changed = {} /\ kind[n] = "dir" /\ MeetsDestination(n)
           /\ Abandon
        \/ /\ n # None /\ Changed = {} /\ ~(kind[n] = "dir" /\ MeetsDestination(n))
           /\ kind[n] = "special" \/ p.act = "skip"
           /\ frames' = rest /\ Complain
           /\ UNCHANGED <<pc, item>>
        \/ /\ n # None /\ Changed = {} /\ ~(kind[n] = "dir" /\ MeetsDestination(n))
           /\ kind[n] # "special" /\ p.act # "skip"
           /\ frames' = rest
           /\ item' = [Entry(n, Inner.src, x, Inner.dst) EXCEPT
                        !.final = p.name, !.act = p.act]
           /\ pc' = CASE kind[n] = "dir" -> "opendir"
                      [] kind[n] = "link" -> "link"
                      [] OTHER -> "open"
           /\ UNCHANGED marks
    /\ UNCHANGED <<world, sc, left, root, above, tracked, full, touched,
                   ledgerVars, cancelled, faults, result, ghosts>>

Persist(d) ==
    \/ sc.move /\ Fails /\ Complain /\ UNCHANGED flushed
    \/ /\ Works
       /\ flushed' = IF sc.move THEN flushed \cup Children(d) ELSE flushed
       /\ UNCHANGED marks

\* A directory has been read to its end: a move flushes what it wrote into it.
Unwind ==
    /\ pc = "walk" /\ frames # <<>> /\ Inner.todo = {} /\ ~cancelled
    /\ frames' = SubSeq(frames, 1, Len(frames) - 1)
    /\ pc' = IF Len(frames) = 1 THEN "finish" ELSE "walk"
    /\ Persist(Inner.dst)
    /\ UNCHANGED <<world, sc, left, root, item, above, tracked, full, touched,
                   ledgerVars, cancelled, result, made, copied, held, synced>>

-----------------------------------------------------------------------------
(* Copying a file. *)

\* What a step that ends this entry without a copy leaves unchanged.
context == <<sc, left, root, frames, above, tracked, full, touched, del, cancelled,
          result>>

OpenSource ==
    /\ pc = "open"
    /\ LET n == Lookup(item.dir, item.name) IN
       \/ /\ n # item.id
          /\ Complain /\ Leave(After)
          /\ UNCHANGED copied
       \/ /\ n = item.id
          /\ item' = [item EXCEPT !.seen = stamp[n]]
          /\ pc' = IF sc.move THEN "settle" ELSE "build"
          /\ copied' = copied \cup {n}
          /\ UNCHANGED marks
    /\ UNCHANGED <<world, context, ledger, ledgerFull, faults, made, held, synced,
                   flushed>>

\* The file system's clock has left the tick t: a later change will show.
Left(t) == clock > t

\* A move waits until the clock has left the tick of the source's last change:
\* any later change will show. It waits for a bounded time only.
Settle ==
    /\ pc = "settle"
    /\ \/ /\ ~Left(item.seen) \/ stamp[item.id] # item.seen
          /\ Complain /\ Leave(After)
       \/ /\ Left(item.seen) /\ stamp[item.id] = item.seen
          /\ pc' = "build"
          /\ UNCHANGED <<item, marks>>
    /\ UNCHANGED <<world, context, ledger, ledgerFull, faults, ghosts>>

\* An unnamed file where the kernel has them, else a file in the private staging
\* directory, else a file in the destination itself: under a temporary name for
\* an overwrite, under its final name otherwise.
BuildPlace ==
    CASE sc.build = "unnamed" -> Nowhere
      [] sc.build = "staged" -> <<Stage, Temp>>
      [] OTHER -> <<item.ddir,
                    IF item.act = "overwrite" THEN Temp ELSE item.final>>

Build ==
    /\ pc = "build"
    /\ LET p == BuildPlace
           taken == \/ Unused = {} \/ StageRefused
                    \/ p # Nowhere /\ (~Alive(p[1]) \/ Lookup(p[1], p[2]) # None)
       IN  \/ /\ taken \/ Fails
              /\ taken => Works
              /\ Complain /\ Leave(After)
              /\ UNCHANGED <<world, made>>
           \/ /\ ~taken /\ Works
              /\ at' = [at EXCEPT ![Spare] = p]
              /\ kind' = [kind EXCEPT ![Spare] = "file"]
              /\ data' = [data EXCEPT ![Spare] = Partial(Spare)]
              /\ stamp' = [stamp EXCEPT ![Spare] = clock]
              /\ made' = made \cup {Spare}
              /\ item' = [item EXCEPT !.new = Spare,
                            !.where = IF p = Nowhere THEN item.ddir ELSE p[1],
                            !.temp = IF p # Nowhere THEN p[2]
                                     ELSE IF item.act = "overwrite" THEN Temp
                                     ELSE item.final]
              /\ pc' = "read"
              /\ UNCHANGED <<clock, budget, theirs, marks>>
    /\ UNCHANGED <<context, ledger, ledgerFull, copied, held, synced, flushed>>

\* The copy loop: its first and its last buffer. Every buffer asks the context.
ReadFirst ==
    /\ pc = "read" /\ ~cancelled
    /\ item' = [item EXCEPT !.half = data[item.id]]
    /\ pc' = "more"
    /\ UNCHANGED <<world, context, ledger, ledgerFull, marks, faults, ghosts>>

ReadLast ==
    /\ pc = "more" /\ ~cancelled
    /\ data' = [data EXCEPT ![item.new] =
                    IF data[item.id] = item.half THEN item.half ELSE Torn(item.new)]
    /\ stamp' = [stamp EXCEPT ![item.new] = clock]
    /\ pc' = "verify"
    /\ UNCHANGED <<at, kind, clock, budget, theirs, item, context, ledger,
                   ledgerFull, marks, faults, ghosts>>

\* Mutant: what was half written is left where it is.
GiveUpFileKeeping == UNCHANGED at /\ Complain /\ Leave(After)
GiveUpFile ==
    /\ at' = Discarded
    /\ Complain /\ Leave(After)

\* The source is what it was when the read began, and the copy is on the disk.
Verify ==
    /\ pc = "verify"
    /\ LET same == stamp[item.id] = item.seen IN
       \/ /\ ~same \/ Fails
          /\ ~same => Works
          /\ GiveUpFile
          /\ UNCHANGED synced
       \/ /\ same /\ Works
          /\ synced' = synced \cup {item.new}
          /\ pc' = IF at[item.new] = Nowhere /\ sc.build = "unnamed"
                   THEN "link0" ELSE "publish"
          /\ UNCHANGED <<at, item, marks>>
    /\ UNCHANGED <<kind, data, stamp, clock, budget, theirs, context, ledger,
                   ledgerFull, made, copied, held, flushed>>

\* linkat gives the unnamed file its name; for a new entry that is its
\* publication.
LinkUnnamed ==
    /\ pc = "link0"
    /\ LET taken == ~Alive(item.where) \/ Lookup(item.where, item.temp) # None IN
       \/ /\ taken
          /\ Complain /\ Leave(After)
          /\ UNCHANGED <<at, stamp>>
       \/ /\ ~taken
          /\ at' = [at EXCEPT ![item.new] = <<item.where, item.temp>>]
          /\ stamp' = [stamp EXCEPT ![item.new] = clock]
          /\ pc' = "publish"
          /\ UNCHANGED <<item, marks>>
    /\ UNCHANGED <<kind, data, clock, budget, theirs, context, ledger, ledgerFull,
                   faults, ghosts>>

\* The name must still hold what this job wrote, and the target must not have
\* become another kind; only then does the rename replace it, and only under
\* overwrite.
InPlace == <<item.where, item.temp>> = <<item.ddir, item.final>>
Target == Lookup(item.ddir, item.final)
StillOurs == at[item.new] = <<item.where, item.temp>>
MayPublish ==
    /\ Alive(item.ddir)
    /\ Target # None => item.act = "overwrite" /\ kind[Target] = kind[item.new]

Publish ==
    /\ pc = "publish"
    /\ \/ /\ ~StillOurs
          /\ Complain /\ Leave(After) /\ Works
          /\ UNCHANGED <<at, stamp, held>>
       \/ /\ StillOurs /\ ~InPlace
          /\ ~MayPublish \/ Fails
          /\ ~MayPublish => Works
          /\ GiveUpFile
          /\ UNCHANGED <<stamp, held>>
       \/ /\ StillOurs /\ (InPlace \/ MayPublish)
          /\ Works
          /\ at' = Renamed(item.new, item.ddir, item.final)
          /\ stamp' = IF InPlace THEN stamp ELSE [stamp EXCEPT ![item.new] = clock]
          /\ held' = held \cup {<<item.new, data[item.new]>>}
          /\ pc' = "record"
          /\ UNCHANGED <<item, marks>>
    /\ UNCHANGED <<kind, data, clock, budget, theirs, context, ledger, ledgerFull,
                   made, copied, synced, flushed>>

\* publishedState and recordEntry: what a move will later compare with.
RecordPublished ==
    LET n == Lookup(item.ddir, item.final) IN
    Record([dir |-> item.dir, name |-> item.name, kind |-> kind[item.id],
            id |-> item.id, seen |-> item.seen, dname |-> item.final,
            did |-> IF n = item.new THEN n ELSE None,
            dseen |-> IF n = item.new THEN stamp[n] ELSE 0])

\* An error on close is a write that never landed: nothing is recorded.
CloseCopy ==
    /\ pc = "record"
    /\ \/ /\ Fails /\ Complain /\ Leave(After)
          /\ UNCHANGED <<ledger, ledgerFull>>
       \/ /\ Works /\ RecordPublished /\ Leave(After)
          /\ UNCHANGED marks
    /\ UNCHANGED <<world, context, ghosts>>

\* A symlink is made, pinned, compared and published; its target cannot change
\* in place, so it needs no settling.
CopyLink ==
    /\ pc = "link"
    /\ LET n == Lookup(item.dir, item.name)
           stale == n # item.id \/ stamp[item.id] # item.seen
           refused == \/ Unused = {} \/ ~Alive(item.ddir)
                      \/ Target # None /\ (\/ item.act # "overwrite"
                                           \/ kind[Target] # "link")
       IN  \/ /\ stale \/ refused \/ Fails
              /\ (stale \/ refused) => Works
              /\ Complain /\ Leave(After)
              /\ UNCHANGED <<world, copied, made, held, synced>>
           \/ /\ ~stale /\ ~refused /\ Works
              /\ at' = Renamed(Spare, item.ddir, item.final)
              /\ kind' = [kind EXCEPT ![Spare] = "link"]
              /\ data' = [data EXCEPT ![Spare] = data[n]]
              /\ stamp' = [stamp EXCEPT ![Spare] = clock]
              /\ made' = made \cup {Spare}
              /\ copied' = copied \cup {n}
              /\ held' = held \cup {<<Spare, data[n]>>}
              /\ synced' = synced \cup {Spare}
              /\ item' = [item EXCEPT !.new = Spare]
              /\ pc' = "record"
              /\ UNCHANGED <<clock, budget, theirs, marks>>
    /\ UNCHANGED <<context, ledger, ledgerFull, flushed>>

\* The context is over: what is half written goes, and the job ends.
StopCopy ==
    /\ cancelled /\ pc \in {"root", "walk", "read", "more"}
    /\ pc = "root" => left # <<>>
    /\ at' = IF pc \in {"read", "more"} THEN Discarded ELSE at
    /\ Stop
    /\ UNCHANGED <<kind, data, stamp, clock, budget, theirs, sc, left, root, above,
                   tracked, full, touched, ledger, ledgerFull, marks, cancelled,
                   faults, ghosts>>

-----------------------------------------------------------------------------
(* Removing the source of a move. *)

RootEntries ==
    IF kind[root.id] = "dir"
    THEN {[dir |-> Top, name |-> root.name, kind |-> "dir", id |-> root.id,
           seen |-> root.mode, dname |-> root.final, did |-> root.new, dseen |-> 0]}
    ELSE ledger

\* finishMove: only a root copied without a complaint, recorded whole, still
\* under its name, and flushed, is removed.
FinishRoot ==
    /\ pc = "finish"
    /\ LET clean == ~spoiled /\ ~ledgerFull /\ Lookup(Top, root.name) = root.id IN
       \/ /\ ~sc.move
          /\ pc' = "root" /\ Works
          /\ UNCHANGED <<del, flushed, marks>>
       \/ /\ sc.move /\ (~clean \/ Fails)
          /\ ~clean => Works
          /\ Complain /\ pc' = "root"
          /\ UNCHANGED <<del, flushed>>
       \/ /\ sc.move /\ clean /\ Works
          /\ flushed' = flushed \cup Children(Dst)
          /\ del' = <<[dir |-> Top, dst |-> Dst, mode |-> 0, entry |-> None,
                       kept |-> FALSE, todo |-> RootEntries]>>
          /\ pc' = "delete"
          /\ UNCHANGED marks
    /\ UNCHANGED <<world, sc, left, root, item, frames, above, tracked, full,
                   touched, ledger, ledgerFull, cancelled, result, made, copied,
                   held, synced>>

Level == del[Len(del)]
\* The level below takes over, and is kept when this one was.
Lower(kept) ==
    del' = [i \in 1 .. Len(del) - 1 |->
                IF i = Len(del) - 1 THEN [del[i] EXCEPT !.kept = @ \/ kept] ELSE del[i]]

\* The source directories being emptied are still what was recorded, all of them.
LevelsUnchanged == \A i \in 2 .. Len(del) : data[del[i].dir] = del[i].mode

DropEntry(kept) ==
    /\ del' = [del EXCEPT ![Len(del)].todo = @ \ {item}, ![Len(del)].kept = @ \/ kept]
    /\ item' = NoItem /\ pc' = "delete"
KeepEntry == Complain /\ DropEntry(TRUE)

removal == <<sc, left, root, frames, above, tracked, full, touched, ledger,
             ledgerFull, cancelled, faults, result, ghosts>>

StillTheRecorded(n, e) == n \in Dirs /\ n = e.id /\ data[n] = e.seen
OpenRecordedDest(d, e) == d \in Dirs /\ d = e.did
NameStillIs(d, x, n) == Lookup(d, x) \in {n, None}

\* The next recorded entry. A directory is opened on both sides and must be the
\* one that was recorded on both.
DeleteNext ==
    /\ pc = "delete" /\ Level.todo # {} /\ ~cancelled
    /\ \/ /\ ~LevelsUnchanged
          /\ Complain /\ Lower(TRUE)
          /\ UNCHANGED <<pc, item>>
       \/ /\ LevelsUnchanged
          /\ \E e \in Level.todo :
             LET n == Lookup(Level.dir, e.name)
                 d == Lookup(Level.dst, e.dname)
                 same == StillTheRecorded(n, e) /\ OpenRecordedDest(d, e)
             IN  \/ /\ e.kind # "dir"
                    /\ item' = e /\ pc' = "look"
                    /\ UNCHANGED <<del, marks>>
                 \/ /\ e.kind = "dir" /\ ~same
                    /\ Complain
                    /\ del' = [del EXCEPT ![Len(del)].todo = @ \ {e},
                                         ![Len(del)].kept = TRUE]
                    /\ UNCHANGED <<pc, item>>
                 \/ /\ e.kind = "dir" /\ same
                    /\ del' = Append([del EXCEPT ![Len(del)].todo = @ \ {e}],
                          [dir |-> n, dst |-> d, mode |-> e.seen, entry |-> e.name,
                           kept |-> FALSE, todo |-> {x \in ledger : x.dir = n}])
                    /\ UNCHANGED <<pc, item, marks>>
    /\ UNCHANGED <<world, removal>>

\* Mutant: the look before the unlink compares the inode and no change time.
SourceMatchesLoosely == Lookup(Level.dir, item.name) = item.id

\* matchesRecord and copyStillThere, once the destination's clock has left the
\* tick of the publication.
SourceMatches == Lookup(Level.dir, item.name) = item.id /\ stamp[item.id] = item.seen
CopyStillThere ==
    /\ item.did # None
    /\ Lookup(Level.dst, item.dname) = item.did
    /\ stamp[item.did] = item.dseen
DestSettled == item.kind = "file" /\ item.did # None => Left(item.dseen)

Look ==
    /\ pc = "look"
    /\ \/ ~DestSettled /\ KeepEntry
       \/ /\ DestSettled /\ Lookup(Level.dir, item.name) = None
          /\ DropEntry(FALSE) /\ UNCHANGED marks
       \/ /\ DestSettled /\ Lookup(Level.dir, item.name) # None
          /\ ~(SourceMatches /\ CopyStillThere)
          /\ KeepEntry
       \/ /\ DestSettled /\ SourceMatches /\ CopyStillThere
          /\ pc' = IF item.kind = "link" THEN "unlink" ELSE "compare"
          /\ UNCHANGED <<item, del, marks>>
    /\ UNCHANGED <<world, removal>>

SameBytes == data[item.id] = data[item.did]
CopyUnchanged == stamp[item.did] = item.dseen

\* contentMatches: both sides opened afresh, then compared byte for byte; the
\* source settled, and neither changed meanwhile.
CompareFirst ==
    /\ pc = "compare"
    /\ LET ok == /\ SourceMatches /\ Left(item.seen) /\ CopyStillThere
                 /\ ~cancelled /\ SameBytes
       IN  \/ /\ ok
              /\ pc' = "compare2"
              /\ UNCHANGED <<item, del, marks>>
           \/ ~ok /\ ~cancelled /\ KeepEntry
    /\ UNCHANGED <<world, removal>>

CompareLast ==
    /\ pc = "compare2" /\ ~cancelled
    /\ LET ok == SameBytes /\ stamp[item.id] = item.seen /\ CopyUnchanged
       IN  \/ ok /\ pc' = "unlink" /\ UNCHANGED <<item, del, marks>>
           \/ ~ok /\ KeepEntry
    /\ UNCHANGED <<world, removal>>

\* stillTheComparedFile and the unlink.
UnlinkEntry ==
    /\ pc = "unlink"
    /\ \/ /\ Lookup(Level.dir, item.name) = None
          /\ DropEntry(FALSE)
          /\ UNCHANGED <<at, marks>>
       \/ /\ Lookup(Level.dir, item.name) # None /\ ~SourceMatches
          /\ KeepEntry
          /\ UNCHANGED at
       \/ /\ SourceMatches
          /\ at' = Unlinked(item.id)
          /\ DropEntry(FALSE)
          /\ UNCHANGED marks
    /\ UNCHANGED <<kind, data, stamp, clock, budget, theirs, removal>>

\* A source directory goes last, when it is still itself, under its name, and
\* empty.
RemoveDir ==
    /\ pc = "delete" /\ Level.todo = {} /\ Len(del) > 1
    /\ LET up == del[Len(del) - 1].dir
           n == Level.dir
           still == LevelsUnchanged /\ NameStillIs(up, Level.entry, n)
       IN  \/ /\ ~still
              /\ Complain /\ Lower(TRUE)
              /\ UNCHANGED at
           \/ /\ still /\ Lookup(up, Level.entry) = None
              /\ Lower(Level.kept)
              /\ UNCHANGED <<at, marks>>
           \/ /\ still /\ Lookup(up, Level.entry) = n /\ Children(n) # {}
              /\ IF Level.kept THEN UNCHANGED marks ELSE Complain
              /\ Lower(TRUE)
              /\ UNCHANGED at
           \/ /\ still /\ Lookup(up, Level.entry) = n /\ Children(n) = {}
              /\ at' = Unlinked(n)
              /\ Lower(Level.kept)
              /\ UNCHANGED marks
    /\ UNCHANGED <<kind, data, stamp, clock, budget, theirs, pc, item, removal>>

RootGone ==
    /\ pc = "delete" /\ Level.todo = {} /\ Len(del) = 1
    /\ pc' = "root" /\ del' = <<>> /\ item' = NoItem
    /\ UNCHANGED <<world, marks, removal>>

StopDelete ==
    /\ cancelled
    /\ \/ pc = "delete" /\ Level.todo # {}
       \/ pc \in {"compare", "compare2"}
    /\ Stop
    /\ UNCHANGED <<world, sc, left, root, above, tracked, full, touched, ledger,
                   ledgerFull, marks, cancelled, faults, ghosts>>

-----------------------------------------------------------------------------
\* Asked once more before the job reports success.
Finish ==
    /\ pc = "root" /\ left = <<>>
    /\ pc' = "end"
    /\ result' = IF cancelled THEN "cancelled" ELSE "done"
    /\ UNCHANGED <<world, sc, left, root, item, frames, above, tracked, full,
                   touched, ledgerVars, marks, cancelled, faults, ghosts>>

Cancel ==
    /\ ~cancelled /\ pc # "end" /\ sc.cancel
    /\ cancelled' = TRUE
    /\ UNCHANGED <<world, sc, pc, left, root, item, frames, above, tracked, full,
                   touched, ledgerVars, marks, faults, result, ghosts>>

job == <<sc, pc, left, root, item, frames, above, tracked, full, touched,
         ledgerVars, marks, cancelled, faults, result, ghosts>>

Job ==
    \/ TakeRoot \/ PlaceRoot \/ TryRename \/ BeginCopy
    \/ OpenDir \/ MakeDir \/ PinDir \/ Opened \/ WalkEntry \/ Unwind
    \/ OpenSource \/ Settle \/ Build \/ ReadFirst \/ ReadLast \/ Verify
    \/ LinkUnnamed \/ Publish \/ CloseCopy \/ CopyLink \/ StopCopy
    \/ FinishRoot \/ DeleteNext \/ Look \/ CompareFirst \/ CompareLast
    \/ UnlinkEntry \/ RemoveDir \/ RootGone \/ StopDelete \/ Finish

\* Across two file systems nothing is renamed from one to the other.
Others ==
    /\ pc # "end"
    /\ OthersStep(start.places)
    /\ sc.split => \A n \in Node : at[n] # Nowhere /\ at'[n] # Nowhere =>
            (Dst \in Ancestors(n)) = (Dst \in Ancestors(n)')
    /\ UNCHANGED job

Next == Job \/ Cancel \/ (pc # "end" /\ Tick /\ UNCHANGED job) \/ Others

Spec == Init /\ [][Next]_vars
FairSpec == Spec /\ WF_vars(Job)

-----------------------------------------------------------------------------
(* Properties. *)

\* Every variable has its type; what the job holds open exists, and nothing is
\* removed before it was copied.
TypeOK ==
    /\ \A n \in Node : at[n] = Nowhere \/ at[n] \in (Node \cup {Stage}) \X (Name \cup {Temp})
    /\ kind \in [Node -> Kinds]
    /\ clock \in 0 .. MaxClock
    /\ theirs \cup made \cup tracked \cup synced \subseteq Node
    /\ \A i \in DOMAIN frames : kind[frames[i].src] = "dir" /\ kind[frames[i].dst] = "dir"
    /\ result \in {"none", "done", "failed", "cancelled"}
    /\ {spoiled, grumbled, cancelled, full, touched, ledgerFull} \subseteq BOOLEAN
    /\ del # <<>> => sc.move /\ frames = <<>>
    /\ \A m, n \in Node : m # n /\ at[m] = at[n] => at[m] = Nowhere

ByTheJob == budget' = budget
Vanishes(n) == at[n] # Nowhere /\ at'[n] = Nowhere /\ n \notin made'
\* What n holds now has stood whole at the destination, its bytes and its name
\* flushed, and the names of the directories it was found through.
OnDisk(m) == m \in flushed \cup theirs
Saved(n) ==
    /\ \E m \in made : <<m, data[n]>> \in held /\ m \in synced /\ OnDisk(m)
    /\ \A i \in 2 .. Len(del) : OnDisk(del[i].dst)
\* The file whose place the selected root or a whole copy of this job takes.
Replaced(n) ==
    /\ sc.policy = "overwrite"
    /\ \E m \in Node \ {n} :
        /\ at'[m] = at[n]
        /\ m = item.id \/ /\ m \in synced' /\ data'[m] # Partial(m)
                          /\ sc.move => data'[m] # Torn(m)
\* Whatever the others do between the steps of a copy or a move, and wherever a
\* crash comes: the job never removes an entry it did not make, except a file it
\* was told to overwrite, by a whole copy; and in a move a file whose current
\* content is on the destination's disk, or a directory that is empty. Covers the
\* verified delete (deleteRecorded) and publish.
NothingIsLost ==
    [][ByTheJob => \A n \in Node : Vanishes(n) =>
         \/ sc.move /\ kind[n] = "dir" /\ Children(n) = {} /\ n \in copied
         \/ sc.move /\ kind[n] # "dir" /\ Saved(n)
         \/ kind[n] # "dir" /\ Replaced(n)]_vars

\* A destination moved into the tree being copied, or lying in it, never makes
\* the job read a directory it made itself (meetsDestination, remember).
NeverCopiesItself == copied \cap ({Dst} \cup (made \cap Dirs)) = {}

\* A job that ends done without having said anything reproduced every entry of
\* the selected trees that nobody else touched, and a move left none of them
\* behind (skip, contentWarning, the silent returns of pre).
QuietMeansWhole ==
    (pc = "end" /\ result = "done" /\ ~grumbled /\ theirs \cap (start.src \cup made) = {}) =>
        \A n \in start.src :
            LET renamed == <<n, data[n]>> \in held IN
            /\ start.kind[n] \in {"file", "link"} =>
                  \E m \in Node : <<m, data[n]>> \in held
            /\ sc.move => renamed \/ at[n] = Nowhere

\* No name of the destination ever shows a half written file, and none shows a
\* mixture of two versions of the source to a move; a job that is over leaves no
\* temporary behind. The one exception is the code's: without unnamed files and
\* without a staging directory a new file grows under its final name.
NamesShowWholeFiles ==
    \A m \in made \ theirs :
        (kind[m] = "file" /\ at[m] # Nowhere) =>
            /\ pc = "end" => at[m][1] # Stage /\ at[m][2] # Temp
            /\ data[m] = Partial(m) =>
                    \/ at[m][1] = Stage \/ at[m][2] = Temp
                    \/ sc.build = "direct" /\ m = item.new
            /\ (data[m] = Torn(m) /\ sc.move) => m = item.new

\* Every job ends, whatever the others do: no step waits, or tries again what it
\* has tried, for ever (tryRename, settleSource, destClockSettled). It says nothing
\* of a walk that meets what the job writes, which in finitely many nodes runs out
\* by itself: that is NeverCopiesItself.
CopyEnds == <>(pc = "end")
=============================================================================
